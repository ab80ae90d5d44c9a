SPECIFICATION Spec
CONSTANTS
  f1 = f1
  f2 = f2
  plain = plain
  made = made
  blob = blob
  Paths = {f1, f2}
  Texts = {plain, made, blob}
  Binary = {blob}
  Generated = {made}
  Pieces <- MCPieces
  Optional = {f1}
  NoRow = NoRow
  MaxId = 6
  Indexers = {i1}
  Absent = Absent
  Nobody = Nobody
  Volatile = {f1, f2}
  Ignorable = {f1}
  BatchSize = 1
  MaxStamp = 1
  MaxLogic = 2
INVARIANTS
  FtsMirrorsChunks
  
PROPERTIES
  FinishedRunInSync
  BatchRemovesOnlyItsOwn
CHECK_DEADLOCK FALSE
