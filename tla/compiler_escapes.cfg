SPECIFICATION CompilerSpec
CONSTANTS
  Exprs <- MCExprs
  Byte <- MCByte
  ArgMax = 3
INVARIANTS
  EscapesAsDocumented
