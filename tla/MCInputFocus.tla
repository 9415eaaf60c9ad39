---------------------------- MODULE MCInputFocus ----------------------------
EXTENDS InputFocus

Typed(stroke) == [stroke |-> stroke, text |-> <<>>]
MCKeys ==
  { Typed(stroke) : stroke \in
      {Mod("KeyP"), ModShift("KeyP"), ModShift("KeyF"), Mod("KeyB"), Mod("KeyO"),
       Mod("BracketRight"), Mod("KeyR"), Mod("KeyE"), ModShift("KeyG"),
       Key("ArrowDown"), Key("Enter"), Key("Escape"), Key("Tab"), Key("Backspace")} }
  \cup {[stroke |-> Key("KeyD"), text |-> <<100>>]}

Candidate(name, label, id) == [name |-> name, label |-> label, id |-> id]
MCCommandLabels ==
  <<Candidate("file_finder.open", <<70>>, <<102>>),
    Candidate("view.toggle_distraction_free", <<68>>, <<118, 46, 100>>)>>
MCFileLists == {<<Candidate("d", <<100>>, <<100>>)>>, <<Candidate("e", <<101>>, <<101>>)>>}

=============================================================================
