\* At most one fault; what perf-script tells the frontend fits the pipe.
CONSTANTS
  walltime = walltime
  Tids = {t1}
  MainTid = t1
  Events = {walltime}
  Tstamps = {t0}
  Unset = Unset
  NoEvent = NoEvent
  FileTransfer = FALSE
  StoresInOrder = TRUE
  CtlCap = 2
  MaxLines = 4
  ProfilerCnt = 2
  SubclientCnt = 2
  ThreadCnt <- OneStream
  EventOf <- Sampler
  GenericCap = 2
  Faults = {"record_exits", "record_signalled", "script_exits", "exec_fails", "command_exits"}
  MaxSamples = 0
SPECIFICATION FairSession
INVARIANTS
  FailureReported
  NothingLeftBehind
PROPERTIES
  SessionEnds
  GateOpens
CHECK_DEADLOCK FALSE
