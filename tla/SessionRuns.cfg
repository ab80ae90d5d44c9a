SPECIFICATION Spec
CONSTANTS
  KeepRecent = 1
  Limits <- MCLimits
  MessageCost = 1
  FrameCost = 1
  SystemCost = 2
  MapCosts = {1, 4}
  Retrieved <- MCRetrieved
  MaxTurns = 3
  MaxRounds = 2
  MaxEpoch = 2
  MaxStops = 1
INVARIANTS
  NothingForgotten
  
PROPERTIES
  SavedAsTranscript
  
CHECK_DEADLOCK FALSE
