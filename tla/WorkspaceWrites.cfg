SPECIFICATION Spec
CONSTANTS
  a = a
  b = b
  v1 = v1
  v2 = v2
  v3 = v3
  NoFile = NoFile
  Unread = Unread
  Paths = {a, b}
  Contents = {v1, v2}
  Tools = {"edit", "write", "move", "delete"}
  Commands = {"undo", "rewind"}
  ExternalUndo = FALSE
  UserPaths = {a, b}
  EditorRaces = FALSE
  Crashes = TRUE
  MaxStep = 1
  MaxRows = 2
  MaxClock = 0
  MaxTurns = 2
SYMMETRY Symmetry
PROPERTIES
  EveryWriteCheckpointed
  LandsOnPreview
  UndoRestoresStep
CHECK_DEADLOCK FALSE
