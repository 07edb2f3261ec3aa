SPECIFICATION EditorSpec
CONSTANTS
  a = a
  w = w
  Nul = Nul
  Junk = Junk
  Byte = {a, w, Nul}
  Texts <- MCTexts
  Guesses = {0}
  TrimSets = {{w}}
  Margin = 1
  MaxCalls = 3
INVARIANTS
  BlockOK
  AbortsOnlyUnowned
  UnownedIsUntouched
  TextNeedsUsableSize
PROPERTIES
  ImplementsText
