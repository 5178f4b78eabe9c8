\* A kernel that keeps 2048 stack entries.
CONSTANTS
  ProfilerCnt = 2
  Dsos = {}
  ReadsStdin = FALSE
  GivesUp = FALSE
  ScriptsFail = FALSE
  MaxCores = 4
  MaxStacks = {1024, 2048}
SPECIFICATION StartupSpec
INVARIANTS
  StackDepthAgreed
CHECK_DEADLOCK FALSE
