SPECIFICATION TracedFairSpec
CONSTANTS
  ChanSize = 1
  Closers = {c1}
  MaxMsgs = 1
  MaxBatch = 1
  TraceSize = 1
PROPERTIES SessionStepsOnly TracesAccepted InterruptExits TracedCloseReturns
CHECK_DEADLOCK FALSE
