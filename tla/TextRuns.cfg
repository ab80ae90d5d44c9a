SPECIFICATION TextSpec
CONSTANTS
  WindowLines = 4
  Overlap = 2
  LookAhead = 2
  Target = 2
  SoftMax = 3
  HardMax = 3
  StructuredMin = 3
  None = None
  MaxLines = 8
  MaxNodes = 5
  Files <- MCFiles
  w = w
  v = v
  Word = {w, v}
  Sp = Sp
  NL = NL
  CR = CR
  BOM = BOM
  Nul = Nul
  Raws <- MCRaws
  EditLists <- MCEditLists
  k1 = k1
  k2 = k2
  no = no
  Known = {k1, k2}
  Unknown = no
  ReplyTexts <- MCReplyTexts
  NativeCalls <- MCNativeCalls
  Writers = {1, 2}
  MaxRecords = 3
  MaxMonth = 2
  MaxTorn = 1
  alpha = alpha
  beta = beta
  gamma = gamma
  src = src
  tests = tests
  Alphabet <- MCAlphabet
  NonSource = {tests}
  Projects <- MCProjects
  Overviews <- MCOverviews
  Roles <- MCRoles
  MaxOverview = 3
  MaxRole = 3
INVARIANTS
  
  CitationsHold
  EditLandsOnItsText
  WrittenAsPreviewed
  MarkedCallsRun
  
  ShapeIsTheTemplates
