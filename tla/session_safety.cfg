\* Two threads, two samples, one stream for threads and two for samples.
CONSTANTS
  walltime = walltime
  Tids = {t1, t2}
  MainTid = t1
  Events = {walltime}
  Tstamps = {t0}
  Unset = Unset
  NoEvent = NoEvent
  FileTransfer = FALSE
  StoresInOrder = TRUE
  CtlCap = 2
  MaxLines = 4
  ProfilerCnt = 2
  SubclientCnt = 3
  ThreadCnt <- TwoStreams
  EventOf <- Sampler
  GenericCap = 2
  Faults = {}
  MaxSamples = 2
SPECIFICATION SessionSpec
INVARIANTS
  SuccessIsComplete
  RunsOnlyWhenArmed
CHECK_DEADLOCK FALSE
