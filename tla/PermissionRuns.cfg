SPECIFICATION Spec
CONSTANTS
  src = src
  lock = lock
  meta = meta
  pytest = pytest
  rm = rm
  Tools = {"read_file", "write_file", "delete_file", "run_command", "run_tests", "git_commit", "todo_write"}
  Paths = {src, lock, meta}
  Argvs = {pytest, rm}
  Keys <- MCKeys
  None = None
  AskPaths = {lock}
  Outside = {}
  Protected = {meta}
  Own = {}
  Sensitive = {}
  EditKey <- MCEditKey
  RunKey <- MCRunKey
  TestKey <- MCTestKey
  Requests <- MCRequests
  UserRules <- MCUserRules
  ProjectRules <- MCProjectRules
  NoConfig = NoConfig
  Plans <- MCPlans
  MaxSessions = 1
  MaxCalls = 2
INVARIANTS
  
  GrantsConsented
PROPERTIES
  OnlyLicensedRuns
CHECK_DEADLOCK FALSE
