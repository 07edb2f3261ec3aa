CONSTANTS
  Byte <- MCByte
  Sep = "/"
  Nul = "NUL"
  Programs <- PopPrograms
  Strings <- MCStrings
  MaxLength = 4
  MaxResults = 2
SPECIFICATION Spec
PROPERTIES
  PopRewindsAccordingly
CHECK_DEADLOCK FALSE
