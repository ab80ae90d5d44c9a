SPECIFICATION Spec
CONSTANTS
  src = src
  test = test
  cls = cls
  method = method
  helper = helper
  note = note
  Paths = {src, test}
  Texts = {cls, method, helper, note}
  Names = {"C", "run", "aid"}
  Defines <- MCDefines
  Owner <- MCOwner
  Calls <- MCCalls
  Size <- MCSize
  Hash <- MCHash
  Loose = {}
  NoName = NoName
  Discount <- MCDiscount
  Pinned = {}
  TopK = 3
  Limit = 2
  Spread = 2
  MaxPerFile = 1
  RrfK = 2
  Unit = 60
  Weights <- MCWeights
  SymbolBoost = 25
  MaxCallees = 1
  MaxCallers = 2
  ExpansionBudget = 3
  MapBudget = 6
  FileCeiling = 3
  TopLevel = TopLevel
  Rankings = {}
  Queries <- MCQueries
  Contents <- MCContents
  None = None
  BatchSize = 1
  MaxId = 4
  MaxCommits = 1
  MaxSearches = 2
  HasVectors = TRUE
INVARIANTS
  ResultsExisted
  FusionKeepsDominance
  CachesTrue
  CompleteMeansEmbedded
  LargestPrefix
CHECK_DEADLOCK FALSE
