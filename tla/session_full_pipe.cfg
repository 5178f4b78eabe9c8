\* The pipe to the frontend holds less than perf-script has to say.
CONSTANTS
  walltime = walltime
  Tids = {t1}
  MainTid = t1
  Events = {walltime}
  Tstamps = {t0}
  Unset = Unset
  NoEvent = NoEvent
  FileTransfer = FALSE
  StoresInOrder = TRUE
  CtlCap = 2
  MaxLines = 4
  ProfilerCnt = 2
  SubclientCnt = 2
  ThreadCnt <- OneStream
  EventOf <- Sampler
  GenericCap = 1
  Faults = {}
  MaxSamples = 1
SPECIFICATION FairSession
PROPERTIES
  SessionEnds
CHECK_DEADLOCK FALSE
