SPECIFICATION StringsSpec
CONSTANTS
  a = a
  Nul = Nul
  Junk = Junk
  Byte = {a, Nul}
  Strings <- MCStrings
  Bases = {100, 300}
  PointerSize = 16
  MaxStrings = 6
  MaxPushes = 6
INVARIANTS
  EntriesCover
  PoppedReadable
PROPERTIES
  ImplementsStack
