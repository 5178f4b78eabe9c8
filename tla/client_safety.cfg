\* Two streams of two lines each, then files; stores may become visible in any
\* order.
CONSTANTS
  SubclientCnt = 2
  Tids = {t1, t2}
  Events = {walltime, cycles}
  Tstamps = {t0}
  Unset = Unset
  NoEvent = NoEvent
  FileTransfer = TRUE
  StoresInOrder = FALSE
  CtlCap = 2
  MaxLines = 2
SPECIFICATION Spec
SYMMETRY DataSymmetry
INVARIANTS
  TypeOK
  NotifierNeverShutOut
  NoOrphanSubclient
  SampledThreadListed
PROPERTIES
  TimedAfterAck
  ImplementsRendezvous
CHECK_DEADLOCK FALSE
