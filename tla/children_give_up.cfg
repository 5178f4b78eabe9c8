\* The session is abandoned after a profiler has been started.
CONSTANTS
  ProfilerCnt = 1
  Dsos = {}
  ReadsStdin = FALSE
  GivesUp = TRUE
  ScriptsFail = FALSE
SPECIFICATION FairSpec
PROPERTIES
  GiveUpEnds
CHECK_DEADLOCK FALSE
