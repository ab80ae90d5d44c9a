SPECIFICATION Spec
CONSTANTS
  a = a
  b = b
  v1 = v1
  v2 = v2
  v3 = v3
  NoFile = NoFile
  Unread = Unread
  Paths = {a}
  Contents = {v1, v2}
  Tools = {"edit", "delete"}
  Commands = {"undo", "rewind"}
  ExternalUndo = TRUE
  UserPaths = {a}
  EditorRaces = TRUE
  Crashes = TRUE
  MaxStep = 1
  MaxRows = 2
  MaxClock = 1
  MaxTurns = 2
SYMMETRY Symmetry
INVARIANTS
  RowBlobsStored
CHECK_DEADLOCK FALSE
