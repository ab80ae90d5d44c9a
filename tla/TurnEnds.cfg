SPECIFICATION FairSpec
CONSTANTS
  w1 = w1
  w2 = w2
  rd = rd
  no = no
  sh = sh
  i1 = i1
  i2 = i2
  BatchId = BatchId
  Nobody = Nobody
  NoAct = NoAct
  NoId = NoId
  Acts = {w1, w2}
  Concurrent = {}
  Writes = {w1, w2}
  Denied = {}
  Asked = {w1, w2}
  Ungrantable = {}
  CallIds = {i1}
  MaxBatch = 2
  MaxSteps = 2
  MaxRetries = 2
  MaxFailures = 2
  StopAt = 3
  Window = 3
  MaxEdits = 0
  MaxTurns = 1
  PromptRaises = FALSE
PROPERTIES
  TurnEnds
