\* Up to five cores and every -p; two profilers, three binaries; the session
\* may be abandoned, and a perf-script may end before it connects.
CONSTANTS
  ProfilerCnt = 2
  Dsos = {1, 2, 3}
  ReadsStdin = FALSE
  GivesUp = TRUE
  ScriptsFail = TRUE
  MaxCores = 5
  MaxStacks = {1024}
SPECIFICATION FairStartupSpec
INVARIANTS
  PerfPipePrivate
  NoChildLeft
  CoresFit
  EveryStreamTaken
  NothingStartedUnfit
PROPERTIES
  StartedSessionEnds
CHECK_DEADLOCK FALSE
