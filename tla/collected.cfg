SPECIFICATION AskSpec
CONSTANTS
  Classes  <- MCClasses
  Patterns <- MCPatterns
  Strings  <- MCStrings
  FlagSets <- MCFlagSets
INVARIANTS
  AgreesWithPosix
CHECK_DEADLOCK FALSE
