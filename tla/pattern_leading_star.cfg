CONSTANTS
  Byte <- MCByte
  Sep = "/"
  Nul = "NUL"
  Programs <- LeadingStar
  Strings <- MCSubjects
  Subjects <- MCSubjects
  FlagSets <- Pathname
  MaxLength = 5
  MaxResults = 2
SPECIFICATION PatternSpec
PROPERTIES
  AlwaysReturns
