\* A buffer of three bytes, lines up to twice as long and more.
\* Two sampled threads, four samples; three threads, four events of which one
\* may be lost, one thread number used twice, ints of two bits, lists of more
\* than two entries sorted without regard to the order of equals.
CONSTANTS
  BufSize = 3
  MaxBytes = 8
  SampledThreads = {"m", "t"}
  MainThread = "m"
  Chains <- MCChains
  JustThread = "just"
  StartTime = 2
  MaxTime = 5
  MaxSamples = 4
  Tids = {"1", "2", "3"}
  FirstTid = "1"
  Comms = {"x", "y"}
  FirstComm = "x"
  MaxClock = 6
  MaxMetas = 4
  MaxLost = 1
  MaxReused = 1
  IntBits = 2
  InsertionLimit = 2
SPECIFICATION StreamSpec
INVARIANTS
  ExactLines
  EndIsEnd
  HotColdUnique
  PathsAddUp
  ColoursTrue
  ReadsBackInOrder
  NothingBeforeStart
  KnownThreadsListed
  LongestNameShown
CHECK_DEADLOCK FALSE
