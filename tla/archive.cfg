\* Two files of at most three bytes, a buffer of two, two changes meanwhile;
\* three missing zeroes are more than the buffer holds.
CONSTANTS
  Paths = {a, b}
  Index = Index
  IndexLen = 3
  Excess = {0, 1, 2, 3}
  BufSize = 2
  MaxSize = 3
  MaxEdits = 2
SPECIFICATION FairSpec
INVARIANTS
  IndexTrue
  NothingCut
  ReportedUnlessLost
PROPERTIES
  ArchiveEnds
CHECK_DEADLOCK FALSE
