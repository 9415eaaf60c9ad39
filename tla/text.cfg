SPECIFICATION Spec
CONSTANTS
  TabWidth = 4
  Texts <- TheTexts
  Replacements <- TheReplacements
  Typed <- TheTyped
  Clustered <- TheClustered
  MaxInputs = 2
  MaxEdits = 1
  MaxLength = 5
  MaxSelections = 2
INVARIANTS CellsAnswerTheirText LineCommandsKeepLines
PROPERTIES ChangesShowTheCaret
CHECK_DEADLOCK FALSE
