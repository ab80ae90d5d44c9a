SPECIFICATION FairSpec
CONSTANTS
  a = a
  b = b
  v1 = v1
  v2 = v2
  v3 = v3
  NoFile = NoFile
  Unread = Unread
  Paths = {a}
  Contents = {v1, v2}
  Tools = {"edit", "write"}
  Commands = {"undo", "rewind"}
  ExternalUndo = FALSE
  UserPaths = {a}
  EditorRaces = FALSE
  Crashes = TRUE
  MaxStep = 2
  MaxRows = 2
  MaxClock = 0
  MaxTurns = 1

  
PROPERTIES
  NothingDestroyedUnasked
  ReadBeforeWrite
  
  RevertSettles
CHECK_DEADLOCK FALSE
