SPECIFICATION Spec
CONSTANTS
  w1 = w1
  w2 = w2
  rd = rd
  no = no
  sh = sh
  i1 = i1
  i2 = i2
  BatchId = BatchId
  Nobody = Nobody
  NoAct = NoAct
  NoId = NoId
  Acts = {w1, w2, rd, no, sh}
  Concurrent = {rd}
  Writes = {w1, w2}
  Denied = {no}
  Asked = {w1, w2, sh}
  Ungrantable = {sh}
  CallIds = {i1, i2}
  MaxBatch = 2
  MaxSteps = 2
  MaxRetries = 2
  MaxFailures = 2
  StopAt = 2
  Window = 3
  MaxEdits = 1
  MaxTurns = 1
  PromptRaises = TRUE
SYMMETRY Symmetry
INVARIANTS
  NoStrayFuture
  OnePromptAtATime
PROPERTIES
  RunsOnlyWithLeave
  OnlyApprovedExecution
