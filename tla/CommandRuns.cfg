SPECIFICATION FairSpec
CONSTANTS
  t1 = t1
  t2 = t2
  t3 = t3
  TestFiles <- MCTestFiles
  MaxRounds = 2
  MaxFilesRun = 2
  Diffs = {1, 2}
  NoDiff = 0
  Resistances <- MCResistances
  MaxEdits = 1
INVARIANTS
  PassedMeansRun
PROPERTIES
  CommitsWhatWasShown
  CommandEnds
CHECK_DEADLOCK FALSE
