CONSTANTS
  Byte <- MCByte
  Sep = "/"
  Nul = "NUL"
  Programs <- PatternPrograms
  Strings <- MCSubjects
  Subjects <- MCSubjects
  FlagSets <- MCFlagSets
  MaxLength = 5
  MaxResults = 2
SPECIFICATION PatternSpec
INVARIANTS
  ZeroIsMatch
  NoMatchIsNoMatch
  AssertionsHold
PROPERTIES
  Returns
