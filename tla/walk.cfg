SPECIFICATION Spec
CONSTANTS
  root = root
  d1 = d1
  d2 = d2
  d3 = d3
  Dirs = {root, d1, d2, d3}
  Root = root
  File = File
  Other = Other
  Content <- MCContent
  Tracked <- MCTracked
  Lines <- MCLines
  cvs_ign_std <- MCStd
  HomeLines <- MCHome
  NameMax = 5
  Classes = {}
INVARIANTS
  IgnoresByOwnLines
  FilesAreAccounted
CHECK_DEADLOCK FALSE
