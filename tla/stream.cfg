CONSTANTS
  Byte <- MCByte
  Sep = "/"
  Nul = "NUL"
  Programs <- StreamPrograms
  Strings <- MCStrings
  MaxLength = 4
  MaxResults = 2
SPECIFICATION StreamSpec
INVARIANTS
  MatchIsSound
  PartialIsSound
  StandsOnPath
