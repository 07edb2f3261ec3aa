SPECIFICATION CompilerSpec
CONSTANTS
  Exprs <- MCExprs
  Byte <- MCByte
  ArgMax = 3
INVARIANTS
  ProgramMeansPattern
  PrevUndoesNext
  AbortsOnlyOpenBracket
  ProgramWellFormed
  StatsCount
PROPERTIES
  EveryIterationReads
