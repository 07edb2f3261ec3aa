CONSTANTS
  Byte <- MCByte
  Sep = "/"
  Nul = "NUL"
  Programs <- MCPrograms
  Strings <- MCStrings
  MaxLength = 4
  MaxResults = 2
SPECIFICATION FairSpec
INVARIANTS
  TypeOK
  MarksOK
  FinalHasNoMarks
  StaleByteNotRead
  PopHasInput
  OnlyFailuresUnderflow
  MatchAtBoundary
  SlashMatchedBySlash
PROPERTIES
  ImplementsProtocol
  MatchReturns
  PopDropsFromComponent
CHECK_DEADLOCK FALSE
