CONSTANTS
  Byte <- MCByte
  Sep = "/"
  Nul = "NUL"
  Programs <- ScannerPrograms
  Strings <- ScannerStrings
  MaxLength = 5
  MaxResults = 5
  Answers <- MCAnswers
  TreeSize = 4
SPECIFICATION ScannerSpec
INVARIANTS
  AsksInStep
  FullMatchesReported
  EndsOnRequest
PROPERTIES
  ScanEnds
CHECK_DEADLOCK FALSE
