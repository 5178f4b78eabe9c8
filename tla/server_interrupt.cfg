\* interrupt() while run() waits in accept().
CONSTANTS
  MaxConnections = {1}
  MaxArrivals = 2
SPECIFICATION Spec
INVARIANT NoneAcceptedAfterInterrupt
CHECK_DEADLOCK FALSE
