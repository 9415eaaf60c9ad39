--------------------------- MODULE InputFocusProofs ---------------------------
(***************************************************************************)
(* Whoever holds the keys is there to take them, the frame shows who, and  *)
(* every opening of a picker runs one candidate at most, for any keys,     *)
(* candidates, indexes of the workspace and number of pickers opened.      *)
(*                                                                         *)
(* A command leaves the bar of external changes as it was; the operation   *)
(* ends by showing it exactly while a conflict is pending.  So commands    *)
(* keep Settled, which says nothing of the bar, and operations Sound.  Of  *)
(* the open picker every operation says that it Leads from one screen to   *)
(* the other: the same opening, none, or one with a number not used before.*)
(***************************************************************************)
EXTENDS InputFocus, SequenceTheorems, TLAPS

Settled(s) ==
  /\ s \in Screens
  /\ s.return = "Editor" /\ (~s.panel => s.base = "Editor")
  /\ s.prompt.kind \in {"Find", "Replace"} => s.find

Sound(s) == Settled(s) /\ s.external = s.conflict /\ (s.held => s.conflict)

Prompts == [kind : {"None", "Palette", "Find", "Replace", "Path", "Settings", "CommandArgument"},
            active : 0..1, completion : {"None", "FileOpen", "GotoLine"}]

-----------------------------------------------------------------------------
(* What each operation of the screen leaves. *)

\* The panel and the focus it takes and gives back.
LEMMA PanelSettles ==
  ASSUME NEW s, Settled(s)
  PROVE  /\ Settled(togglePanel(s)) /\ Settled(showPanel(s)) /\ Settled(focusPanel(s))
         /\ Settled(focusEditor(s)) /\ Settled(toggleDistractionFree(s))
<1> USE DEF Settled, Screens
<1>1. Settled(togglePanel(s)) BY DEF togglePanel
<1>2. Settled(showPanel(s)) BY DEF showPanel
<1>3. Settled(focusPanel(s)) BY DEF focusPanel
<1>4. Settled(focusEditor(s)) BY DEF focusEditor
<1>5. Settled(toggleDistractionFree(s)) BY DEF toggleDistractionFree
<1> QED BY <1>1, <1>2, <1>3, <1>4, <1>5

\* The panel after a provider was asked for.
LEMMA ProviderSettles ==
  ASSUME NEW s, Settled(s), NEW provider \in ToSet(kPanelTreeProviders)
  PROVE  Settled(activatePanelProvider(s, provider)) /\ Settled(showPanelProvider(s, provider))
<1> DEFINE t == activatePanelProvider(s, provider)
           old == IF s.panel THEN s.return ELSE s.base
<1>1. Settled(t) /\ t.panel = s.panel
  BY DEF Settled, Screens, activatePanelProvider
<1>2. old = "Editor"
  BY DEF Settled
<1> HIDE DEF t, old
<1>3. Settled([t EXCEPT !.panel = TRUE, !.base = "Panel", !.return = old])
  BY <1>1, <1>2 DEF Settled, Screens
<1> QED
  BY <1>1, <1>3, PanelSettles DEF showPanelProvider, t, old

LEMMA ProvidersAreFour ==
  /\ ToSet(kPanelTreeProviders) = {"filesystem", "git", "symbols", "search"}
  /\ \A i \in 1..4 : kPanelTreeProviders[i] \in ToSet(kPanelTreeProviders)
  BY DEF ToSet, kPanelTreeProviders

LEMMA SwitchSettles ==
  ASSUME NEW s, Settled(s), NEW step \in {1, 3}
  PROVE  Settled(switchPanelProvider(s, step))
<1> DEFINE at == CHOOSE i \in 1..4 : kPanelTreeProviders[i] = s.provider
<1>1. s.provider \in {"filesystem", "git", "symbols", "search"}
  BY ProvidersAreFour DEF Settled, Screens
<1>2. \E i \in 1..4 : kPanelTreeProviders[i] = s.provider
  BY <1>1 DEF kPanelTreeProviders
<1>3. at \in 1..4
  BY <1>2 DEF at
<1> HIDE DEF at
<1>4. ((at - 1 + step) % 4) + 1 \in 1..4
  BY <1>3
<1> QED
  BY <1>4, ProvidersAreFour, ProviderSettles DEF switchPanelProvider, at

\* A screen with another prompt, and with the find bar shown or not.
LEMMA WithPrompt ==
  ASSUME NEW s, Settled(s), NEW prompt \in Prompts, NEW find \in BOOLEAN,
         prompt.kind \in {"Find", "Replace"} => find
  PROVE  /\ Settled([s EXCEPT !.prompt = prompt, !.find = find])
         /\ prompt.kind \notin {"Find", "Replace"} => Settled([s EXCEPT !.prompt = prompt])
  BY DEF Settled, Screens, Prompts

LEMMA PromptsAre == NoPrompt \in Prompts /\ NoPrompt.kind = "None"
  BY DEF NoPrompt, Prompts

\* The prompt and the find bar.
LEMMA PromptSettles ==
  ASSUME NEW s, Settled(s)
  PROVE  Settled(cancelPrompt(s)) /\ Settled(closeFind(s)) /\ Settled(documentChanges(s)) /\ Settled(focusNextInput(s))
<1>1. Settled(cancelPrompt(s))
  BY WithPrompt, PromptsAre DEF cancelPrompt
<1>2. Settled(closeFind(s))
  <2> DEFINE prompt == IF s.prompt.kind \in {"Find", "Replace"} THEN NoPrompt ELSE s.prompt
  <2>1. prompt \in Prompts /\ prompt.kind \notin {"Find", "Replace"}
    BY PromptsAre DEF Settled, Screens, Prompts
  <2> HIDE DEF prompt
  <2>2. Settled([s EXCEPT !.find = FALSE, !.prompt = prompt])
    BY <2>1 DEF Settled, Screens, Prompts
  <2> QED
    BY <2>2 DEF closeFind, prompt
<1>3. Settled(documentChanges(s))
  BY <1>2 DEF documentChanges
<1>4. Settled(focusNextInput(s))
  BY DEF focusNextInput, inputsOf, Settled, Screens
<1> QED
  BY <1>1, <1>2, <1>3, <1>4

LEMMA OpeningSettles ==
  ASSUME NEW s, Settled(s), NEW completion \in {"None", "FileOpen", "GotoLine"},
         NEW kind \in {"Palette", "Find", "Replace", "Path", "Settings", "CommandArgument"}
  PROVE  /\ kind \notin {"Find", "Replace"} => Settled(openPrompt(s, kind, completion))
         /\ Settled([openPrompt(s, kind, completion) EXCEPT !.find = TRUE])
<1> DEFINE prompt == [kind |-> kind, active |-> IF kind = "Replace" THEN 1 ELSE 0, completion |-> completion]
<1>1. prompt \in Prompts /\ prompt.kind = kind
  BY DEF Prompts
<1> HIDE DEF prompt
<1>2. Settled([s EXCEPT !.prompt = prompt, !.find = TRUE])
  BY <1>1, WithPrompt
<1>3. kind \notin {"Find", "Replace"} => Settled([s EXCEPT !.prompt = prompt])
  BY <1>1, WithPrompt
<1> QED
  BY <1>2, <1>3 DEF openPrompt, prompt

\* The finder, which is a prompt with a picker in it.
LEMMA WithPicker ==
  ASSUME NEW s, Settled(s), NEW picker \in {"None", "command", "file"}, NEW next \in 1..MaxActivation,
         NEW activation \in [mode : {"None", "Command", "File"}, id : 0..MaxActivation]
  PROVE  /\ Settled([s EXCEPT !.picker = picker, !.activation = activation])
         /\ Settled([s EXCEPT !.picker = picker, !.activation = activation, !.next = next])
  BY DEF Settled, Screens

LEMMA FinderSettles ==
  ASSUME NEW s, Settled(s), canOpenFinder(s), NEW picker \in {"command", "file"}
  PROVE  Settled(openFinder(s, picker))
<1>1. PickerModes[picker] \in {"Command", "File"}
  BY DEF PickerModes
<1>2. Settled(openPrompt(s, "Palette", "None"))
  BY OpeningSettles
<1>3. s.next \in 0..MaxActivation /\ s.next + 1 \in 1..MaxActivation
  BY InputFocusAssumption DEF Settled, Screens, canOpenFinder
<1> DEFINE activation == [mode |-> PickerModes[picker], id |-> s.next]
<1>4. activation \in [mode : {"None", "Command", "File"}, id : 0..MaxActivation]
  BY <1>1, <1>3
<1> HIDE DEF activation
<1>5. Settled([openPrompt(s, "Palette", "None") EXCEPT !.picker = picker, !.activation = activation, !.next = s.next + 1])
  BY <1>2, <1>3, <1>4, WithPicker
<1> QED
  BY <1>5 DEF openFinder, activation

LEMMA FinderCloses ==
  ASSUME NEW s, Settled(s)
  PROVE  Settled(closeFinder(s))
<1>1. NoActivation \in [mode : {"None", "Command", "File"}, id : 0..MaxActivation]
  BY InputFocusAssumption DEF NoActivation
<1>2. 1 \in 1..MaxActivation
  BY InputFocusAssumption
<1>3. Settled([cancelPrompt(s) EXCEPT !.picker = "None", !.activation = NoActivation])
  BY <1>1, <1>2, PromptSettles, WithPicker
<1> QED
  BY <1>3 DEF closeFinder

-----------------------------------------------------------------------------
(* What each command leaves. *)

Outcomes == {outcome \in [screen : Screens, ok : BOOLEAN] : Settled(outcome.screen)}
AllSettled(outcomes) == outcomes \subseteq Outcomes

LEMMA OutcomesSettle ==
  ASSUME NEW s, Settled(s)
  PROVE  AllSettled(Accepted(s)) /\ AllSettled(Refused(s))
<1>1. \A ok \in BOOLEAN : [screen |-> s, ok |-> ok] \in Outcomes
  BY DEF Outcomes, Settled
<1> QED
  BY <1>1 DEF AllSettled, Accepted, Refused

\* The commands of the panel and of the screen (ViewCommands.cpp).
LEMMA ShellSettles ==
  ASSUME NEW s, Settled(s), NEW id
  PROVE  AllSettled(shellCommand(s, id))
<1>1. Settled(IF effectiveFocus(s) = "panel" THEN focusEditor(s)
              ELSE IF s.panel THEN focusPanel(s) ELSE focusPanel(togglePanel(s)))
  BY PanelSettles
<1>2. /\ Settled(showPanelProvider(s, "filesystem")) /\ Settled(showPanelProvider(s, "search"))
      /\ Settled(switchPanelProvider(s, 1)) /\ Settled(switchPanelProvider(s, 3))
  BY ProviderSettles, ProvidersAreFour, SwitchSettles
<1>3. \E t : Settled(t) /\ shellCommand(s, id) = Accepted(t)
  BY <1>1, <1>2, PanelSettles DEF shellCommand
<1> QED
  BY <1>3, OutcomesSettle

\* The commands of a prompt (PromptRouting.cpp).
LEMMA PromptCommandsSettle ==
  ASSUME NEW s, Settled(s), NEW id
  PROVE  AllSettled(promptCommand(s, id))
<1> DEFINE done == cancelPrompt(s)
<1>1. Settled(done) /\ Settled(documentChanges(done)) /\ Settled(focusNextInput(s)) /\ Settled(closeFind(s))
  BY PromptSettles
<1> HIDE DEF done
<1>2. AllSettled(Refused(done) \cup Accepted(done)
                   \cup (IF s.prompt.completion = "FileOpen" THEN Accepted(documentChanges(done)) ELSE {}))
  BY <1>1, OutcomesSettle DEF AllSettled
<1>3. AllSettled(Refused(s)) /\ AllSettled(Accepted(s)) /\ AllSettled(Accepted(focusNextInput(s)))
      /\ AllSettled(Accepted(closeFind(s))) /\ AllSettled(Accepted(done))
  BY <1>1, OutcomesSettle
<1> QED
  BY <1>2, <1>3 DEF promptCommand, done

\* The commands that open and close a picker or ask for a line (navigation.cpp).
LEMMA SearchSettles ==
  ASSUME NEW s, Settled(s), NEW id
  PROVE  AllSettled(searchCommand(s, id))
<1>1. canOpenFinder(s) => Settled(openFinder(s, "command")) /\ Settled(openFinder(s, "file"))
  BY FinderSettles
<1>2. Settled(closeFinder(s)) /\ Settled(openPrompt(s, "CommandArgument", "GotoLine"))
  BY FinderCloses, OpeningSettles
<1>3. \E t : Settled(t) /\ (searchCommand(s, id) = Accepted(t) \/ searchCommand(s, id) = Refused(t))
  BY <1>1, <1>2 DEF searchCommand
<1> QED
  BY <1>3, OutcomesSettle

\* The commands of the bar of external changes: the bar keeps or loses the focus and its conflict.
LEMMA ExternalSettles ==
  ASSUME NEW s, Settled(s), NEW id
  PROVE  AllSettled(externalCommand(s, id))
<1>1. Settled(captureExternalFocus(s)) /\ Settled(releaseExternalFocus(s)) /\ Settled([s EXCEPT !.conflict = FALSE])
  BY DEF Settled, Screens, captureExternalFocus, releaseExternalFocus
<1> DEFINE answered == [s EXCEPT !.conflict = FALSE]
<1> HIDE DEF answered
<1>2. Settled(answered)
  BY <1>1 DEF answered
<1>3. AllSettled(Refused(s) \cup Accepted(s) \cup Accepted(answered))
  BY <1>2, OutcomesSettle DEF AllSettled
<1>4. AllSettled(Refused(s)) /\ AllSettled(Accepted(captureExternalFocus(s))) /\ AllSettled(Accepted(releaseExternalFocus(s)))
  BY <1>1, OutcomesSettle
<1> QED
  BY <1>3, <1>4 DEF externalCommand, answered

\* The panel's activation, and the find bar.
LEMMA TreeAndFindSettle ==
  ASSUME NEW s, Settled(s), NEW id
  PROVE  AllSettled(treeCommand(s)) /\ AllSettled(findCommand(s, id))
<1> DEFINE opened == focusEditor(documentChanges(s))
           kind == IF id = "replace.open" THEN "Replace" ELSE "Find"
<1>1. Settled(opened)
  BY PromptSettles, PanelSettles
<1>2. Settled([openPrompt(s, kind, "None") EXCEPT !.find = TRUE])
  BY OpeningSettles
<1> HIDE DEF opened
<1>3. AllSettled(Refused(s) \cup Accepted(s) \cup Accepted(opened) \cup Refused(opened))
  BY <1>1, OutcomesSettle DEF AllSettled
<1>4. AllSettled(Accepted([openPrompt(s, kind, "None") EXCEPT !.find = TRUE]))
  BY <1>2, OutcomesSettle
<1> QED
  BY <1>3, <1>4 DEF treeCommand, findCommand, opened

\* Any command.
LEMMA CommandsSettle ==
  ASSUME NEW s, Settled(s), NEW id
  PROVE  AllSettled(run(s, id))
<1>1. /\ AllSettled(Accepted(s)) /\ AllSettled(Accepted(openPrompt(s, "Settings", "None")))
      /\ AllSettled(Accepted(openPrompt(s, "Path", "FileOpen"))) /\ AllSettled(Accepted(focusEditor(documentChanges(s))))
  BY OutcomesSettle, OpeningSettles, PromptSettles, PanelSettles
<1> QED
  BY <1>1, ShellSettles, PromptCommandsSettle, SearchSettles, ExternalSettles, TreeAndFindSettle DEF run

\* An operation shows the bar exactly when a conflict is pending.
LEMMA PresenceIsSound ==
  ASSUME NEW s, Settled(s)
  PROVE  Sound(refreshExternalModificationPresence(s, s.conflict))
  BY DEF Settled, Sound, Screens, refreshExternalModificationPresence

LEMMA OperationsAreSound ==
  ASSUME NEW s, Settled(s), NEW id, NEW outcome \in dispatchLocked(s, id)
  PROVE  Sound(outcome.screen)
<1>1. PICK o \in run(s, id) : outcome = [o EXCEPT !.screen = refreshExternalModificationPresence(@, @.conflict)]
  BY DEF dispatchLocked
<1>2. o \in [screen : Screens, ok : BOOLEAN] /\ Settled(o.screen)
  BY CommandsSettle DEF AllSettled, Outcomes
<1>3. outcome.screen = refreshExternalModificationPresence(o.screen, o.screen.conflict)
  BY <1>1, <1>2
<1> QED
  BY <1>2, <1>3, PresenceIsSound

LEMMA SoundOperations ==
  ASSUME NEW s, Sound(s)
  PROVE  /\ Sound(focusEditor(s)) /\ Sound(focusPanel(s)) /\ Sound(documentChanges(s)) /\ Sound(closeFinder(s))
         /\ \A editing \in BOOLEAN : Sound([s EXCEPT !.editing = editing])
<1>1. Settled(s)
  BY DEF Sound
<1>2. Settled(focusEditor(s)) /\ Settled(focusPanel(s)) /\ Settled(documentChanges(s)) /\ Settled(closeFinder(s))
  BY <1>1, PanelSettles, PromptSettles, FinderCloses
<1>3. \A editing \in BOOLEAN : Settled([s EXCEPT !.editing = editing])
  BY <1>1 DEF Settled, Screens
<1> DEFINE Same(t) == t.external = s.external /\ t.held = s.held /\ t.conflict = s.conflict
<1>4. Same(focusEditor(s)) /\ Same(focusPanel(s))
  BY DEF focusEditor, focusPanel, Sound, Settled, Screens
<1>5. Same(documentChanges(s))
  BY DEF documentChanges, closeFind, Sound, Settled, Screens
<1>6. Same(closeFinder(s))
  BY DEF closeFinder, cancelPrompt, Sound, Settled, Screens
<1>7. \A editing \in BOOLEAN : Same([s EXCEPT !.editing = editing])
  BY DEF Sound, Settled, Screens
<1>8. \A t : Settled(t) /\ Same(t) => Sound(t)
  BY DEF Sound
<1> HIDE DEF Same
<1> QED
  BY <1>2, <1>3, <1>4, <1>5, <1>6, <1>7, <1>8

-----------------------------------------------------------------------------
(* The frame, and the invariant. *)

\* A frame names one of the four places the keys can go to.
LEMMA FrameNamesATarget ==
  ASSUME NEW s
  PROVE  effectiveUiFocus(s) \in FocusTargets
<1> DEFINE first == IF s.base = "Panel" /\ s.panel /\ ~s.distraction THEN "panel" ELSE "editor"
           Nodes == {"panel", "editor", "externalmod", "input_line", "footer.prompt"}
           bar == IF s.external /\ s.held THEN <<"externalmod">> ELSE <<>>
           prompt == IF s.prompt.kind = "None" THEN <<>>
                     ELSE IF promptFocusRegion(s.prompt.kind) = "Header" THEN <<"input_line">> ELSE <<"footer.prompt">>
<1>1. focusPath(s) = <<first>> \o bar \o prompt
  BY DEF focusPath
<1>2. first \in Nodes /\ (bar = <<>> \/ bar = <<"externalmod">>)
      /\ (prompt = <<>> \/ prompt = <<"input_line">> \/ prompt = <<"footer.prompt">>)
  OBVIOUS
<1> HIDE DEF first, bar, prompt
<1> HIDE DEF Nodes
<1>3. <<first>> \in Seq(Nodes) /\ Len(<<first>>) = 1
  BY <1>2
<1>4. bar \in Seq(Nodes) /\ prompt \in Seq(Nodes)
  <2>1. <<>> \in Seq(Nodes)
    OBVIOUS
  <2>2. "externalmod" \in Nodes /\ "input_line" \in Nodes /\ "footer.prompt" \in Nodes
    BY DEF Nodes
  <2>3. \A node \in Nodes : <<node>> \in Seq(Nodes)
    OBVIOUS
  <2> QED
    BY <1>2, <2>1, <2>2, <2>3
<1>5. <<first>> \o bar \in Seq(Nodes) /\ Len(<<first>> \o bar) = 1 + Len(bar) /\ Len(bar) \in Nat
  BY <1>3, <1>4
<1> DEFINE path == <<first>> \o bar
<1>6. path \o prompt \in Seq(Nodes) /\ Len(path \o prompt) = Len(path) + Len(prompt) /\ Len(prompt) \in Nat
  <2> HIDE DEF path
  <2> QED BY <1>4, <1>5 DEF path
<1>7. focusPath(s) \in Seq(Nodes) /\ Len(focusPath(s)) \in Nat \ {0}
  BY <1>1, <1>5, <1>6
<1>8. Last(focusPath(s)) \in Nodes
  BY <1>7 DEF Last
<1> QED
  BY <1>8 DEF Nodes, effectiveUiFocus, focusContext, FocusTargets

\* The invariant is inductive as it stands: FocusHoldersAreThere says of the screen that it is Sound.
LEMMA SoundScreen == FocusHoldersAreThere <=> Sound(screen) /\ TypeOK
  BY DEF FocusHoldersAreThere, TypeOK, HiddenPanelHoldsNoFocus, BarHoldsKeysOnlyForConflicts, FindPromptHasItsFind,
         Sound, Settled

LEMMA InitIsSound == Init => FocusHoldersAreThere
<1> SUFFICES ASSUME Init PROVE FocusHoldersAreThere
  OBVIOUS
<1>1. "filesystem" \in ToSet(kPanelTreeProviders)
  BY ProvidersAreFour
<1>2. screen \in Screens
  BY <1>1, InputFocusAssumption DEF Init, Screens, NoActivation, NoPrompt
<1> QED
  BY <1>2 DEF Init, FocusHoldersAreThere, TypeOK, HiddenPanelHoldsNoFocus, BarHoldsKeysOnlyForConflicts,
             FindPromptHasItsFind, NoPrompt, FocusTargets

\* Whatever an operation leaves that is sound keeps the invariant.
LEMMA LeavesSound ==
  ASSUME FocusHoldersAreThere, NEW s, Sound(s), Leaves(s), UNCHANGED <<shown, running>>
  PROVE  FocusHoldersAreThere'
<1>1. screen' = s /\ requested' = TRUE
  BY DEF Leaves
<1>2. Sound(screen') /\ screen' \in Screens
  BY <1>1 DEF Sound, Settled
<1> QED
  BY <1>1, <1>2 DEF FocusHoldersAreThere, TypeOK, HiddenPanelHoldsNoFocus, BarHoldsKeysOnlyForConflicts,
                    FindPromptHasItsFind, Sound, Settled

LEMMA SubmitIsSound ==
  ASSUME FocusHoldersAreThere, NEW activation, NEW candidate, SubmitPicker(activation, candidate),
         UNCHANGED <<shown, running>>
  PROVE  FocusHoldersAreThere'
<1>1. Sound(screen) /\ Settled(screen)
  BY SoundScreen DEF Sound
<1>2. CASE ~Submits(activation, candidate)
  <2>1. Leaves(screen)
    BY <1>2 DEF SubmitPicker
  <2> QED
    BY <1>1, <2>1, LeavesSound
<1>3. CASE Submits(activation, candidate)
  <2>1. PICK outcome \in candidateOutcomes(activation, candidate) : Leaves(AfterCandidate(activation, outcome))
    BY <1>3 DEF SubmitPicker
  <2>2. Sound(documentChanges(screen))
    BY <1>1, SoundOperations
  <2>3. \A o \in Refused(screen) \cup Accepted(documentChanges(screen)) : Sound(o.screen)
    BY <1>1, <2>2 DEF Refused, Accepted
  <2>4. \A o \in dispatchLocked(screen, candidate.name) : Sound(o.screen)
    BY <1>1, OperationsAreSound
  <2>5. Sound(outcome.screen)
    BY <2>1, <2>3, <2>4 DEF candidateOutcomes
  <2>6. Sound(AfterCandidate(activation, outcome))
    BY <2>5, SoundOperations DEF AfterCandidate
  <2> QED
    BY <2>1, <2>6, LeavesSound
<1> QED
  BY <1>2, <1>3

LEMMA NextIsSound == FocusHoldersAreThere /\ [Next]_vars => FocusHoldersAreThere'
<1> SUFFICES ASSUME FocusHoldersAreThere, [Next]_vars PROVE FocusHoldersAreThere'
  OBVIOUS
<1>0. Sound(screen) /\ Settled(screen)
  BY SoundScreen DEF Sound
<1> DEFINE Same == UNCHANGED screen /\ UNCHANGED <<shown, running>> /\ requested' \in BOOLEAN
<1>1. Same => FocusHoldersAreThere'
  BY DEF FocusHoldersAreThere, TypeOK, HiddenPanelHoldsNoFocus, BarHoldsKeysOnlyForConflicts, FindPromptHasItsFind
<1>2. ASSUME NEW route, KeyRuns(route) PROVE FocusHoldersAreThere'
  <2>1. PICK outcome \in dispatchLocked(screen, route.command) : Leaves(outcome.screen)
    BY <1>2 DEF KeyRuns
  <2>2. Sound(outcome.screen)
    BY <1>0, OperationsAreSound
  <2> QED
    BY <1>2, <2>1, <2>2, LeavesSound DEF KeyRuns
<1>3. ASSUME NEW route, KeySearches(route) PROVE FocusHoldersAreThere'
  <2>1. PICK s : Leaves(s) /\ (s = screen \/ \E editing \in BOOLEAN : s = [screen EXCEPT !.editing = editing])
    BY <1>3 DEF KeySearches
  <2>2. Sound(s)
    BY <1>0, <2>1, SoundOperations
  <2> QED
    BY <1>3, <2>1, <2>2, LeavesSound DEF KeySearches
<1>4. ASSUME NEW key, NEW route, KeyStaysInPalette(key, route) PROVE FocusHoldersAreThere'
  BY <1>1, <1>4 DEF KeyStaysInPalette
<1>5. ASSUME NEW route, KeySubmits(route) PROVE FocusHoldersAreThere'
  BY <1>5, SubmitIsSound DEF KeySubmits
<1>6. ASSUME NEW row \in 1..Len(CommandLabels), ClickCandidate(row) PROVE FocusHoldersAreThere'
  BY <1>6, SubmitIsSound DEF ClickCandidate
<1>7. ASSUME ClickEditor PROVE FocusHoldersAreThere'
  BY <1>0, <1>7, SoundOperations, LeavesSound DEF ClickEditor
<1>8. ASSUME ClickSearchQuery PROVE FocusHoldersAreThere'
  <2>1. Sound([focusPanel(screen) EXCEPT !.editing = TRUE])
    BY <1>0, SoundOperations
  <2> QED
    BY <1>8, <2>1, LeavesSound DEF ClickSearchQuery
<1>9. ASSUME NEW present \in BOOLEAN, ExternalChange(present) PROVE FocusHoldersAreThere'
  <2> DEFINE t == [screen EXCEPT !.conflict = present]
  <2>1. Settled(t) /\ t.conflict = present
    BY <1>0 DEF Settled, Screens
  <2> HIDE DEF t
  <2>2. Settled(documentChanges(t)) /\ documentChanges(t).conflict = present
    <3>1. documentChanges(t).conflict = present
      BY <2>1 DEF documentChanges, closeFind, Settled, Screens
    <3> QED
      BY <2>1, <3>1, PromptSettles
  <2>3. Sound(refreshExternalModificationPresence(documentChanges(t), present))
    BY <2>2, PresenceIsSound
  <2> QED
    BY <1>9, <2>3, LeavesSound DEF ExternalChange, t
<1>10. ASSUME Present PROVE FocusHoldersAreThere'
  <2>1. UNCHANGED screen /\ requested' \in BOOLEAN /\ running' \in BOOLEAN
       /\ shown' \in FocusTargets \cup {Nowhere}
    BY <1>10, FrameNamesATarget DEF Present, FocusHoldersAreThere, TypeOK
  <2> QED
    BY <2>1 DEF FocusHoldersAreThere, TypeOK, HiddenPanelHoldsNoFocus, BarHoldsKeysOnlyForConflicts, FindPromptHasItsFind
<1>11. ASSUME UNCHANGED vars PROVE FocusHoldersAreThere'
  BY <1>1, <1>11 DEF vars, FocusHoldersAreThere, TypeOK
<1> QED
  BY <1>2, <1>3, <1>4, <1>5, <1>6, <1>7, <1>8, <1>9, <1>10, <1>11 DEF Next, KeyPressed

\* Whoever holds the keys is there to take them, whatever keys are pressed and candidates
\* run: the panel is shown, the bar has its conflict, the prompt of a find its find.
THEOREM FocusIsHeld == Spec => []FocusHoldersAreThere
  BY InitIsSound, NextIsSound, PTL DEF Spec

-----------------------------------------------------------------------------
(* Where a frame shows the focus. *)

\* The focus path: the pane, the bar when it holds the keys, and the prompt when one is open.
Pane(s) == IF s.base = "Panel" /\ s.panel /\ ~s.distraction THEN "panel" ELSE "editor"
PromptNode(s) == IF promptFocusRegion(s.prompt.kind) = "Header" THEN "input_line" ELSE "footer.prompt"
BarHolds(s) == s.external /\ s.held
LEMMA FocusPathIs ==
  ASSUME NEW s
  PROVE  focusPath(s) = IF s.prompt.kind = "None"
                          THEN IF BarHolds(s) THEN <<Pane(s), "externalmod">> ELSE <<Pane(s)>>
                          ELSE IF BarHolds(s) THEN <<Pane(s), "externalmod", PromptNode(s)>>
                               ELSE <<Pane(s), PromptNode(s)>>
<1> DEFINE bar == IF BarHolds(s) THEN <<"externalmod">> ELSE <<>>
           prompt == IF s.prompt.kind = "None" THEN <<>> ELSE <<PromptNode(s)>>
           Nodes == {"panel", "editor", "externalmod", "input_line", "footer.prompt"}
<1>1. focusPath(s) = <<Pane(s)>> \o bar \o prompt
  BY DEF focusPath, Pane, PromptNode, BarHolds
<1>2. Pane(s) \in Nodes /\ PromptNode(s) \in Nodes /\ "externalmod" \in Nodes
  BY DEF Pane, PromptNode, Nodes
<1> HIDE DEF Nodes
<1>3. \A a \in Nodes : <<a>> \o <<>> = <<a>>
  OBVIOUS
<1>4. ASSUME NEW a \in Nodes, NEW b \in Nodes
      PROVE  <<a>> \o <<b>> = <<a, b>> /\ <<a, b>> \o <<>> = <<a, b>>
  <2>1. <<a>> \in Seq(Nodes) /\ <<b>> \in Seq(Nodes) /\ <<a, b>> \in Seq(Nodes) /\ <<>> \in Seq(Nodes)
    OBVIOUS
  <2>2. <<a>> \o <<b>> = <<a, b>>
    <3>1. /\ <<a>> \o <<b>> \in Seq(Nodes) /\ Len(<<a>> \o <<b>>) = 2
          /\ \A i \in 1..2 : (<<a>> \o <<b>>)[i] = <<a, b>>[i]
      BY <2>1, ConcatProperties
    <3> QED BY <2>1, <3>1, SeqEqual
  <2>3. <<a, b>> \o <<>> = <<a, b>>
    BY <2>1, ConcatEmptySeq
  <2> QED BY <2>2, <2>3
<1>5. ASSUME NEW a \in Nodes, NEW b \in Nodes, NEW c \in Nodes
      PROVE  <<a, b>> \o <<c>> = <<a, b, c>>
  <2>1. <<a, b>> \in Seq(Nodes) /\ <<c>> \in Seq(Nodes) /\ <<a, b, c>> \in Seq(Nodes)
    OBVIOUS
  <2>2. /\ <<a, b>> \o <<c>> \in Seq(Nodes) /\ Len(<<a, b>> \o <<c>>) = 3
        /\ \A i \in 1..3 : (<<a, b>> \o <<c>>)[i] = <<a, b, c>>[i]
    BY <2>1, ConcatProperties
  <2> QED BY <2>1, <2>2, SeqEqual
<1>6. CASE BarHolds(s)
  BY <1>1, <1>2, <1>3, <1>4, <1>5, <1>6
<1>7. CASE ~BarHolds(s)
  BY <1>1, <1>2, <1>3, <1>4, <1>7
<1> QED BY <1>6, <1>7

\* The node that takes the keys, and the nodes of the path that must not be hidden.
LEMMA FocusPathEnds ==
  ASSUME NEW s
  PROVE  /\ Last(focusPath(s)) = IF s.prompt.kind # "None" THEN PromptNode(s)
                                 ELSE IF BarHolds(s) THEN "externalmod" ELSE Pane(s)
         /\ \A i \in 2..Len(focusPath(s)) :
              \/ focusPath(s)[i] = PromptNode(s) /\ s.prompt.kind # "None"
              \/ focusPath(s)[i] = "externalmod" /\ BarHolds(s)
<1>1. CASE s.prompt.kind = "None" /\ BarHolds(s)
  <2>1. focusPath(s) = <<Pane(s), "externalmod">>
    BY <1>1, FocusPathIs
  <2> QED BY <1>1, <2>1 DEF Last
<1>2. CASE s.prompt.kind = "None" /\ ~BarHolds(s)
  <2>1. focusPath(s) = <<Pane(s)>>
    BY <1>2, FocusPathIs
  <2> QED BY <1>2, <2>1 DEF Last
<1>3. CASE s.prompt.kind # "None" /\ BarHolds(s)
  <2>1. focusPath(s) = <<Pane(s), "externalmod", PromptNode(s)>>
    BY <1>3, FocusPathIs
  <2> QED BY <1>3, <2>1 DEF Last
<1>4. CASE s.prompt.kind # "None" /\ ~BarHolds(s)
  <2>1. focusPath(s) = <<Pane(s), PromptNode(s)>>
    BY <1>4, FocusPathIs
  <2> QED BY <1>4, <2>1 DEF Last
<1> QED BY <1>1, <1>2, <1>3, <1>4

\* The two ways to say where the focus is agree on every screen.
LEMMA FocusSaidTwice ==
  ASSUME NEW s
  PROVE  effectiveUiFocus(s) = effectiveFocus(s)
<1>1. CASE s.prompt.kind # "None"
  BY <1>1, FocusPathEnds DEF effectiveUiFocus, focusContext, effectiveFocus, PromptNode
<1>2. CASE s.prompt.kind = "None" /\ BarHolds(s)
  BY <1>2, FocusPathEnds DEF effectiveUiFocus, focusContext, effectiveFocus, BarHolds
<1>3. CASE s.prompt.kind = "None" /\ ~BarHolds(s)
  BY <1>3, FocusPathEnds DEF effectiveUiFocus, focusContext, effectiveFocus, BarHolds, Pane
<1> QED BY <1>1, <1>2, <1>3

\* What a frame hides never takes the keys, but for the bar in the distraction-free mode.
LEMMA HiddenTakesNoKeys ==
  ASSUME NEW s
  PROVE  /\ s.prompt.kind # "None" => PromptNode(s) \notin hidden(s)
         /\ s.external /\ ~s.distraction => "externalmod" \notin hidden(s)
         /\ s.prompt.kind = "None" => Pane(s) \notin hidden(s)
<1>1. ASSUME s.prompt.kind # "None" PROVE PromptNode(s) \notin hidden(s)
  BY <1>1 DEF hidden, PromptNode, promptFocusRegion
<1>2. ASSUME s.external, ~s.distraction PROVE "externalmod" \notin hidden(s)
  BY <1>2 DEF hidden
<1>3. ASSUME s.prompt.kind = "None" PROVE Pane(s) \notin hidden(s)
  <2>1. visiblePicker(s) = "None"
    BY <1>3 DEF visiblePicker
  <2> QED BY <1>3, <2>1 DEF hidden, Pane
<1> QED BY <1>1, <1>2, <1>3

LEMMA FrameProjects ==
  ASSUME NEW s
  PROVE  projects(s) \/ (s.distraction /\ s.external /\ s.held)
<1> SUFFICES ASSUME ~(s.distraction /\ BarHolds(s)) PROVE projects(s)
  BY DEF BarHolds
<1>1. BarHolds(s) => "externalmod" \notin hidden(s)
  BY HiddenTakesNoKeys DEF BarHolds
<1>2. s.prompt.kind # "None" => PromptNode(s) \notin hidden(s)
  BY HiddenTakesNoKeys
<1>3. s.prompt.kind = "None" => Pane(s) \notin hidden(s)
  BY HiddenTakesNoKeys
<1>4. \A i \in 2..Len(focusPath(s)) : focusPath(s)[i] \notin hidden(s)
  BY <1>1, <1>2, FocusPathEnds
<1>5. Last(focusPath(s)) \notin hidden(s)
  BY <1>1, <1>2, <1>3, FocusPathEnds
<1> QED BY <1>4, <1>5 DEF projects

\* A frame that fits is the state's until something asks for another one.
Shown == running /\ ~requested => shown \in {effectiveFocus(screen), Nowhere}

LEMMA EveryChangeAsksForAFrame == Shown /\ [Next]_vars => Shown'
<1> SUFFICES ASSUME Shown, [Next]_vars PROVE Shown'
  OBVIOUS
<1> USE DEF Shown
<1>1. ASSUME NEW key, NEW route, KeyPressed(key, route) PROVE requested' = TRUE
  BY <1>1 DEF KeyPressed, KeyRuns, KeySearches, KeyStaysInPalette, KeySubmits, SubmitPicker, Leaves
<1>2. ASSUME NEW row, ClickCandidate(row) PROVE requested' = TRUE
  BY <1>2 DEF ClickCandidate, SubmitPicker, Leaves
<1>3. ASSUME ClickEditor \/ ClickSearchQuery \/ \E present \in BOOLEAN : ExternalChange(present)
      PROVE  requested' = TRUE
  BY <1>3 DEF ClickEditor, ClickSearchQuery, ExternalChange, Leaves
<1>4. ASSUME Present PROVE Shown'
  <2>1. CASE projects(screen)
    BY <1>4, <2>1, FocusSaidTwice DEF Present
  <2>2. CASE ~projects(screen)
    BY <1>4, <2>2 DEF Present
  <2> QED BY <2>1, <2>2
<1>5. ASSUME UNCHANGED vars PROVE Shown'
  BY <1>5 DEF vars
<1> QED BY <1>1, <1>2, <1>3, <1>4, <1>5 DEF Next

\* The keys go where the last frame shows the focus whenever that frame is the state's and
\* fits the terminal, and a frame fails only for the bar of external changes in the distraction-free mode.
THEOREM FocusIsWhereShown == Spec => []KeysGoWhereFocusIsShown
<1>1. Init => Shown
  BY DEF Init, Shown
<1>2. Spec => []Shown
  BY <1>1, EveryChangeAsksForAFrame, PTL DEF Spec
<1>3. Shown => KeysGoWhereFocusIsShown
  BY FrameProjects, FocusSaidTwice DEF Shown, KeysGoWhereFocusIsShown
<1> QED BY <1>2, <1>3, PTL
-----------------------------------------------------------------------------
(* Which picker is open. *)

\* Every command keeps the open picker, closes it, or opens one with a new number.
Leads(s, t) ==
  /\ s.next <= t.next
  /\ \/ openPickerActivation(t) \in {openPickerActivation(s), NoActivation}
     \/ s.next <= openPickerActivation(t).id /\ openPickerActivation(t).id < t.next
AllLead(s, outcomes) == \A outcome \in outcomes : Leads(s, outcome.screen)

SamePicker(s, t) ==
  t.picker = s.picker /\ t.prompt = s.prompt /\ t.activation = s.activation /\ t.next = s.next

LEMMA SamePickerLeads ==
  ASSUME NEW s, NEW t, s \in Screens, SamePicker(s, t)
  PROVE  Leads(s, t)
  BY DEF SamePicker, Leads, openPickerActivation, visiblePicker, Screens

LEMMA NumbersAre ==
  ASSUME NEW s, s \in Screens
  PROVE  /\ s.next \in Nat /\ s.next > 0
         /\ openPickerActivation(s).id \in Nat
<1>1. s.next \in 1..MaxActivation /\ s.activation.id \in 0..MaxActivation
  BY DEF Screens
<1> QED BY <1>1, InputFocusAssumption DEF openPickerActivation, NoActivation

LEMMA LeadsFurther ==
  ASSUME NEW s, NEW t, NEW u, s \in Screens, t \in Screens, u \in Screens, Leads(s, t), Leads(t, u)
  PROVE  Leads(s, u)
  BY NumbersAre DEF Leads

LEMMA OutcomesLead ==
  ASSUME NEW s, NEW t, Leads(s, t)
  PROVE  AllLead(s, Accepted(t)) /\ AllLead(s, Refused(t))
  BY DEF AllLead, Accepted, Refused

\* The panel and the bar of external changes leave the picker alone.
LEMMA PanelLeavesPicker ==
  ASSUME NEW s, Settled(s)
  PROVE  /\ Leads(s, s)
         /\ Leads(s, togglePanel(s)) /\ Leads(s, showPanel(s)) /\ Leads(s, focusPanel(s))
         /\ Leads(s, focusEditor(s)) /\ Leads(s, toggleDistractionFree(s))
         /\ Leads(s, captureExternalFocus(s)) /\ Leads(s, releaseExternalFocus(s))
         /\ \A b \in BOOLEAN : /\ Leads(s, [s EXCEPT !.editing = b]) /\ Leads(s, [s EXCEPT !.conflict = b])
                               /\ Leads(s, refreshExternalModificationPresence(s, b))
<1>0. s \in Screens
  BY DEF Settled
<1> USE <1>0 DEF SamePicker, Screens
<1>1. SamePicker(s, s)
  OBVIOUS
<1>2. SamePicker(s, togglePanel(s)) /\ SamePicker(s, showPanel(s))
  BY DEF togglePanel, showPanel
<1>3. SamePicker(s, focusPanel(s)) /\ SamePicker(s, focusEditor(s)) /\ SamePicker(s, toggleDistractionFree(s))
  BY DEF focusPanel, focusEditor, toggleDistractionFree
<1>4. SamePicker(s, captureExternalFocus(s)) /\ SamePicker(s, releaseExternalFocus(s))
  BY DEF captureExternalFocus, releaseExternalFocus
<1>5. ASSUME NEW b \in BOOLEAN
      PROVE  /\ SamePicker(s, [s EXCEPT !.editing = b]) /\ SamePicker(s, [s EXCEPT !.conflict = b])
             /\ SamePicker(s, refreshExternalModificationPresence(s, b))
  BY DEF refreshExternalModificationPresence
<1> HIDE DEF SamePicker, Screens
<1> QED BY <1>1, <1>2, <1>3, <1>4, <1>5, SamePickerLeads

LEMMA ProviderLeavesPicker ==
  ASSUME NEW s, Settled(s), NEW provider
  PROVE  Leads(s, activatePanelProvider(s, provider)) /\ Leads(s, showPanelProvider(s, provider))
<1> USE DEF SamePicker, Screens
<1>1. SamePicker(s, activatePanelProvider(s, provider))
  BY DEF Settled, activatePanelProvider
<1>2. SamePicker(s, showPanelProvider(s, provider))
  BY DEF Settled, activatePanelProvider, showPanelProvider, togglePanel
<1> HIDE DEF SamePicker, Screens
<1> QED BY <1>1, <1>2, SamePickerLeads DEF Settled

\* A prompt takes the place of the picker; without a prompt none is open.
LEMMA PromptClosesPicker ==
  ASSUME NEW s, Settled(s)
  PROVE  /\ \A kind, completion : kind # "Palette" => Leads(s, openPrompt(s, kind, completion))
         /\ \A kind : kind # "Palette" => Leads(s, [openPrompt(s, kind, "None") EXCEPT !.find = TRUE])
         /\ Leads(s, cancelPrompt(s)) /\ Leads(s, closeFind(s)) /\ Leads(s, documentChanges(s))
         /\ Leads(s, focusNextInput(s))
         /\ Leads(s, closeFinder(s)) /\ openPickerActivation(closeFinder(s)) = NoActivation
<1>0. s \in Screens /\ s.next \in Nat
  BY NumbersAre DEF Settled
<1> DEFINE Closed(t) == t.next = s.next /\ t.prompt.kind # "Palette"
<1>1. \A t : Closed(t) => Leads(s, t) /\ openPickerActivation(t) = NoActivation
  BY <1>0 DEF Leads, openPickerActivation, visiblePicker
<1>2. ASSUME NEW kind, NEW completion, kind # "Palette"
      PROVE  /\ Closed(openPrompt(s, kind, completion))
             /\ Closed([openPrompt(s, kind, "None") EXCEPT !.find = TRUE])
  BY <1>0, <1>2 DEF openPrompt, Screens
<1>3. Closed(cancelPrompt(s)) /\ Closed(closeFinder(s))
  BY <1>0 DEF cancelPrompt, closeFinder, NoPrompt, Screens
<1>4. Closed(closeFind(s)) \/ SamePicker(s, closeFind(s))
  BY <1>0 DEF closeFind, NoPrompt, SamePicker, Screens
<1>5. Leads(s, focusNextInput(s))
  <2> DEFINE t == focusNextInput(s)
  <2>1. t.next = s.next /\ t.picker = s.picker /\ t.activation = s.activation /\ t.prompt.kind = s.prompt.kind
    BY <1>0 DEF focusNextInput, Screens
  <2>2. openPickerActivation(t) = openPickerActivation(s)
    BY <2>1 DEF openPickerActivation, visiblePicker
  <2> QED BY <1>0, <2>1, <2>2 DEF Leads
<1> HIDE DEF Closed
<1>6. Leads(s, closeFind(s))
  BY <1>0, <1>1, <1>4, SamePickerLeads
<1>7. Leads(s, documentChanges(s))
  BY <1>6, PanelLeavesPicker DEF documentChanges
<1> QED BY <1>1, <1>2, <1>3, <1>5, <1>6, <1>7

\* A picker that opens has the next number.
LEMMA FinderIsNumbered ==
  ASSUME NEW s, Settled(s), NEW picker \in {"command", "file"}
  PROVE  Leads(s, openFinder(s, picker))
<1>1. s \in Screens /\ s.next \in Nat
  BY NumbersAre DEF Settled
<1> DEFINE t == openFinder(s, picker)
<1>2. t.next = s.next + 1 /\ t.prompt.kind = "Palette" /\ t.picker = picker /\ t.activation.id = s.next
  BY <1>1 DEF openFinder, openPrompt, Screens
<1>3. openPickerActivation(t) = t.activation
  BY <1>2 DEF openPickerActivation, visiblePicker
<1> QED BY <1>1, <1>2, <1>3 DEF Leads

LEMMA CommandsLead ==
  ASSUME NEW s, Settled(s), NEW id
  PROVE  AllLead(s, run(s, id))
<1>1. AllLead(s, shellCommand(s, id))
  <2>1. /\ Leads(s, IF effectiveFocus(s) = "panel" THEN focusEditor(s)
                    ELSE IF s.panel THEN focusPanel(s) ELSE focusPanel(togglePanel(s)))
        /\ Leads(s, switchPanelProvider(s, 1)) /\ Leads(s, switchPanelProvider(s, 3))
    <3>1. Settled(togglePanel(s)) /\ Settled(focusPanel(togglePanel(s)))
      BY PanelSettles
    <3>2. Leads(s, focusPanel(togglePanel(s)))
      BY <3>1, PanelLeavesPicker, LeadsFurther DEF Settled
    <3> QED BY <3>2, PanelLeavesPicker, ProviderLeavesPicker DEF switchPanelProvider
  <2>2. \E t : Leads(s, t) /\ shellCommand(s, id) = Accepted(t)
    BY <2>1, PanelLeavesPicker, ProviderLeavesPicker DEF shellCommand
  <2> QED BY <2>2, OutcomesLead
<1>2. AllLead(s, promptCommand(s, id))
  <2> DEFINE done == cancelPrompt(s)
  <2>1. Settled(done) /\ Settled(documentChanges(done))
    BY PromptSettles
  <2>2. Leads(s, done) /\ Leads(s, documentChanges(done)) /\ Leads(s, focusNextInput(s)) /\ Leads(s, closeFind(s)) /\ Leads(s, s)
    BY <2>1, PromptClosesPicker, PanelLeavesPicker, LeadsFurther DEF Settled
  <2> HIDE DEF done
  <2>3. AllLead(s, Refused(done) \cup Accepted(done)
                   \cup (IF s.prompt.completion = "FileOpen" THEN Accepted(documentChanges(done)) ELSE {}))
    BY <2>2, OutcomesLead DEF AllLead
  <2>4. AllLead(s, Refused(s)) /\ AllLead(s, Accepted(s)) /\ AllLead(s, Accepted(focusNextInput(s)))
        /\ AllLead(s, Accepted(closeFind(s))) /\ AllLead(s, Accepted(done))
    BY <2>2, OutcomesLead
  <2> QED BY <2>3, <2>4 DEF promptCommand, done
<1>3. AllLead(s, searchCommand(s, id))
  <2>1. \E t : Leads(s, t) /\ (searchCommand(s, id) = Accepted(t) \/ searchCommand(s, id) = Refused(t))
    BY FinderIsNumbered, PromptClosesPicker, PanelLeavesPicker DEF searchCommand
  <2> QED BY <2>1, OutcomesLead
<1>4. AllLead(s, externalCommand(s, id))
  <2> DEFINE answered == [s EXCEPT !.conflict = FALSE]
  <2>1. Leads(s, answered)
    BY PanelLeavesPicker
  <2> HIDE DEF answered
  <2>2. AllLead(s, Refused(s) \cup Accepted(s) \cup Accepted(answered))
    BY <2>1, PanelLeavesPicker, OutcomesLead DEF AllLead
  <2>3. AllLead(s, Refused(s)) /\ AllLead(s, Accepted(captureExternalFocus(s))) /\ AllLead(s, Accepted(releaseExternalFocus(s)))
    BY PanelLeavesPicker, OutcomesLead
  <2> QED BY <2>2, <2>3 DEF externalCommand, answered
<1>5. Leads(s, focusEditor(documentChanges(s)))
  <2>1. Settled(documentChanges(s)) /\ Settled(focusEditor(documentChanges(s)))
    BY PromptSettles, PanelSettles
  <2> QED BY <2>1, PromptClosesPicker, PanelLeavesPicker, LeadsFurther DEF Settled
<1>6. AllLead(s, treeCommand(s))
  <2> DEFINE opened == focusEditor(documentChanges(s))
  <2> HIDE DEF opened
  <2>1. AllLead(s, Refused(s) \cup Accepted(s) \cup Accepted(opened) \cup Refused(opened))
    BY <1>5, PanelLeavesPicker, OutcomesLead DEF AllLead, opened
  <2> QED BY <2>1 DEF treeCommand, opened
<1>7. AllLead(s, findCommand(s, id))
  <2>1. PICK kind \in {"Find", "Replace"} : findCommand(s, id) = Accepted([openPrompt(s, kind, "None") EXCEPT !.find = TRUE])
    BY DEF findCommand
  <2> QED BY <2>1, PromptClosesPicker, OutcomesLead
<1>8. /\ AllLead(s, Accepted(s)) /\ AllLead(s, Accepted(openPrompt(s, "Settings", "None")))
      /\ AllLead(s, Accepted(openPrompt(s, "Path", "FileOpen"))) /\ AllLead(s, Accepted(focusEditor(documentChanges(s))))
  BY <1>5, PanelLeavesPicker, PromptClosesPicker, OutcomesLead
<1> QED BY <1>1, <1>2, <1>3, <1>4, <1>6, <1>7, <1>8 DEF run

LEMMA OperationsLead ==
  ASSUME NEW s, Settled(s), NEW id, NEW outcome \in dispatchLocked(s, id)
  PROVE  Leads(s, outcome.screen)
<1>1. PICK o \in run(s, id) : outcome = [o EXCEPT !.screen = refreshExternalModificationPresence(@, @.conflict)]
  BY DEF dispatchLocked
<1>2. o \in [screen : Screens, ok : BOOLEAN] /\ Settled(o.screen) /\ Leads(s, o.screen)
  BY CommandsSettle, CommandsLead DEF AllSettled, Outcomes, AllLead
<1>3. outcome.screen = refreshExternalModificationPresence(o.screen, o.screen.conflict)
  BY <1>1, <1>2
<1>4. o.screen.conflict \in BOOLEAN
  BY <1>2 DEF Screens
<1>5. outcome.screen \in Screens
  BY <1>2, <1>3, PresenceIsSound DEF Sound, Settled
<1>6. Leads(o.screen, outcome.screen)
  BY <1>2, <1>3, <1>4, PanelLeavesPicker
<1>7. s \in Screens /\ o.screen \in Screens
  BY <1>2 DEF Settled
<1> QED BY <1>2, <1>5, <1>6, <1>7, LeadsFurther

\* Every change of the screen leads to it.
LEMMA SoundLeads ==
  ASSUME NEW s, Sound(s)
  PROVE  /\ Leads(s, s) /\ Leads(s, focusEditor(s)) /\ Leads(s, documentChanges(s))
         /\ \A editing \in BOOLEAN : Leads(s, [s EXCEPT !.editing = editing])
         /\ Leads(s, [focusPanel(s) EXCEPT !.editing = TRUE])
         /\ \A present \in BOOLEAN :
              Leads(s, refreshExternalModificationPresence(documentChanges([s EXCEPT !.conflict = present]), present))
<1>1. Settled(s) /\ s \in Screens
  BY DEF Sound, Settled
<1>2. Leads(s, [focusPanel(s) EXCEPT !.editing = TRUE])
  <2>1. Sound(focusPanel(s)) /\ Sound([focusPanel(s) EXCEPT !.editing = TRUE])
    BY SoundOperations
  <2>2. Leads(s, focusPanel(s)) /\ Leads(focusPanel(s), [focusPanel(s) EXCEPT !.editing = TRUE])
    BY <1>1, <2>1, PanelLeavesPicker DEF Sound
  <2> QED BY <1>1, <2>1, <2>2, LeadsFurther DEF Sound, Settled
<1>3. ASSUME NEW present \in BOOLEAN
      PROVE  Leads(s, refreshExternalModificationPresence(documentChanges([s EXCEPT !.conflict = present]), present))
  <2> DEFINE t == [s EXCEPT !.conflict = present]
             u == documentChanges(t)
             v == refreshExternalModificationPresence(u, present)
  <2>1. Settled(t) /\ Leads(s, t)
    BY <1>1, PanelLeavesPicker DEF Settled, Screens
  <2> HIDE DEF t
  <2>2. Settled(u) /\ Leads(t, u)
    BY <2>1, PromptSettles, PromptClosesPicker
  <2> HIDE DEF u
  <2>3. v \in Screens
    BY <2>2 DEF Settled, Screens, refreshExternalModificationPresence
  <2>4. Leads(u, v)
    BY <2>2, PanelLeavesPicker
  <2> HIDE DEF v
  <2>5. Leads(s, u)
    BY <1>1, <2>1, <2>2, LeadsFurther DEF Settled
  <2>6. Leads(s, v)
    BY <1>1, <2>2, <2>3, <2>4, <2>5, LeadsFurther DEF Settled
  <2> QED BY <2>6 DEF t, u, v
<1> QED BY <1>1, <1>2, <1>3, PanelLeavesPicker, PromptClosesPicker

\* A candidate that runs is one of the picker that is open, and leaves it closed.
Runs(activation) ==
  /\ activation # NoActivation /\ openPickerActivation(screen) = activation
  /\ openPickerActivation(screen') # activation /\ ran'.activation = activation

LEMMA SubmitLeads ==
  ASSUME Sound(screen), NEW activation, NEW candidate, SubmitPicker(activation, candidate)
  PROVE  Leads(screen, screen') /\ (ran' = ran \/ Runs(activation))
<1>1. CASE ~Submits(activation, candidate)
  BY <1>1, SoundLeads DEF SubmitPicker, Leaves
<1>2. CASE Submits(activation, candidate)
  <2>1. PICK outcome \in candidateOutcomes(activation, candidate) :
          /\ Leaves(AfterCandidate(activation, outcome))
          /\ ran' = IF outcome.ok THEN [candidate |-> candidate.name, activation |-> activation] ELSE ran
    BY <1>2 DEF SubmitPicker
  <2>2. \A o \in dispatchLocked(screen, candidate.name) : Sound(o.screen) /\ Leads(screen, o.screen)
    BY OperationsAreSound, OperationsLead DEF Sound
  <2>3. \A o \in Refused(screen) \cup Accepted(documentChanges(screen)) : Sound(o.screen) /\ Leads(screen, o.screen)
    <3> DEFINE t == documentChanges(screen)
    <3>1. Sound(t) /\ Leads(screen, t) /\ Leads(screen, screen)
      BY SoundOperations, SoundLeads
    <3> HIDE DEF t
    <3>2. \A o \in Refused(screen) \cup Accepted(t) : o.screen \in {screen, t}
      BY DEF Refused, Accepted
    <3>3. \A o \in Refused(screen) \cup Accepted(t) : Sound(o.screen) /\ Leads(screen, o.screen)
      BY <3>1, <3>2
    <3> QED BY <3>3 DEF t
  <2>4. Sound(outcome.screen) /\ Leads(screen, outcome.screen)
    BY <2>2, <2>3 DEF candidateOutcomes
  <2>5. screen' = AfterCandidate(activation, outcome)
    BY <2>1 DEF Leaves
  <2>6. activation # NoActivation /\ openPickerActivation(screen) = activation
    BY <1>2 DEF SubmitPicker, Submits
  <2>7. CASE outcome.ok /\ openPickerActivation(outcome.screen) = activation
    <3> DEFINE t == outcome.screen
    <3>1. screen' = closeFinder(t)
      BY <2>5, <2>7 DEF AfterCandidate
    <3>2. Leads(t, closeFinder(t)) /\ Settled(closeFinder(t)) /\ openPickerActivation(closeFinder(t)) = NoActivation
      BY <2>4, PromptClosesPicker, FinderCloses DEF Sound
    <3>3. Leads(screen, closeFinder(t))
      BY <2>4, <3>2, LeadsFurther DEF Sound, Settled
    <3>4. ran'.activation = activation
      BY <2>1, <2>7
    <3> QED BY <2>6, <3>1, <3>2, <3>3, <3>4 DEF Runs
  <2>8. CASE ~(outcome.ok /\ openPickerActivation(outcome.screen) = activation)
    <3>1. screen' = outcome.screen
      BY <2>5, <2>8 DEF AfterCandidate
    <3>2. CASE outcome.ok
      <4>1. ran'.activation = activation
        BY <2>1, <3>2
      <4> QED BY <2>4, <2>6, <2>8, <3>1, <3>2, <4>1 DEF Runs
    <3>3. CASE ~outcome.ok
      BY <2>1, <2>4, <3>1, <3>3
    <3> QED BY <3>2, <3>3
  <2> QED BY <2>7, <2>8
<1> QED BY <1>1, <1>2

LEMMA StepsLead ==
  ASSUME Sound(screen), [Next]_vars
  PROVE  Leads(screen, screen') /\ (ran' = ran \/ \E activation : Runs(activation))
<1>1. ASSUME NEW route, KeyRuns(route) PROVE Leads(screen, screen') /\ ran' = ran
  BY <1>1, OperationsLead DEF KeyRuns, Leaves, Sound
<1>2. ASSUME NEW route, KeySearches(route) PROVE Leads(screen, screen') /\ ran' = ran
  BY <1>2, SoundLeads DEF KeySearches, Leaves
<1>3. ASSUME NEW key, NEW route, KeyStaysInPalette(key, route) PROVE Leads(screen, screen') /\ ran' = ran
  BY <1>3, SoundLeads DEF KeyStaysInPalette
<1>4. ASSUME NEW route, KeySubmits(route)
      PROVE  Leads(screen, screen') /\ (ran' = ran \/ \E activation : Runs(activation))
  BY <1>4, SubmitLeads DEF KeySubmits
<1>5. ASSUME NEW row, ClickCandidate(row)
      PROVE  Leads(screen, screen') /\ (ran' = ran \/ \E activation : Runs(activation))
  BY <1>5, SubmitLeads DEF ClickCandidate
<1>6. ASSUME ClickEditor \/ ClickSearchQuery \/ \E present \in BOOLEAN : ExternalChange(present)
      PROVE  Leads(screen, screen') /\ ran' = ran
  BY <1>6, SoundLeads DEF ClickEditor, ClickSearchQuery, ExternalChange, Leaves
<1>7. CASE Present \/ UNCHANGED vars
  BY <1>7, SoundLeads DEF Present, vars
<1> QED BY <1>1, <1>2, <1>3, <1>4, <1>5, <1>6, <1>7 DEF Next, KeyPressed

\* The candidate run last was of an earlier opening than the one that is open.
RanBefore ==
  LET open == openPickerActivation(screen)
  IN  /\ ran.activation.id \in Nat /\ ran.activation.id < screen.next
      /\ open = NoActivation \/ (ran.activation.id < open.id /\ open.id < screen.next)

LEMMA RunsOnce ==
  ASSUME FocusHoldersAreThere, FocusHoldersAreThere', RanBefore, [Next]_vars
  PROVE  /\ RanBefore'
         /\ ran' # ran => /\ ran'.activation.id > ran.activation.id
                          /\ ran'.activation = openPickerActivation(screen)
                          /\ openPickerActivation(screen') # ran'.activation
<1> DEFINE open == openPickerActivation(screen)
           then == openPickerActivation(screen')
<1>1. Sound(screen) /\ screen \in Screens /\ screen' \in Screens
  BY SoundScreen DEF FocusHoldersAreThere, TypeOK
<1>2. Leads(screen, screen') /\ (ran' = ran \/ \E activation : Runs(activation))
  BY <1>1, StepsLead
<1>3. screen.next \in Nat /\ screen'.next \in Nat /\ open.id \in Nat /\ then.id \in Nat
  BY <1>1, NumbersAre
<1>4. /\ screen.next <= screen'.next
      /\ then \in {open, NoActivation} \/ (screen.next <= then.id /\ then.id < screen'.next)
  BY <1>2 DEF Leads
<1>5. /\ ran.activation.id \in Nat /\ ran.activation.id < screen.next
      /\ open = NoActivation \/ (ran.activation.id < open.id /\ open.id < screen.next)
  BY DEF RanBefore
<1>6. openPickerActivation(screen)' = then
  OBVIOUS
<1> HIDE DEF open, then
<1>7. CASE ran' = ran
  BY <1>3, <1>4, <1>5, <1>6, <1>7 DEF RanBefore
<1>8. ASSUME NEW activation, Runs(activation)
      PROVE  /\ activation = open /\ open # NoActivation /\ then # open /\ ran'.activation = open
  BY <1>8 DEF Runs, open, then
<1>9. CASE \E activation : Runs(activation)
  BY <1>3, <1>4, <1>5, <1>6, <1>8, <1>9 DEF RanBefore, open, then
<1> QED BY <1>2, <1>7, <1>9 DEF open, then

\* A picker runs one candidate at most each time it opens, and closes with it: submissions
\* that come late, twice or for an opening that is gone change nothing.
THEOREM OpeningsRunOnce == Spec => EachOpeningRunsOneCandidate
<1>1. Init => RanBefore
  BY DEF Init, RanBefore, NoActivation, NoPrompt, openPickerActivation, visiblePicker
<1>2. FocusHoldersAreThere /\ FocusHoldersAreThere' /\ RanBefore /\ [Next]_vars
        => /\ RanBefore'
           /\ [ran' # ran => /\ ran'.activation.id > ran.activation.id
                             /\ ran'.activation = openPickerActivation(screen)
                             /\ openPickerActivation(screen') # ran'.activation]_vars
  BY RunsOnce
<1> QED BY <1>1, <1>2, FocusIsHeld, PTL DEF Spec, EachOpeningRunsOneCandidate
=============================================================================
