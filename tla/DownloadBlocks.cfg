SPECIFICATION DownloadSpec
CONSTANTS
  ChanSize = 1
  Closers = {c1}
  MaxMsgs = 1
  MaxBatch = 1
INVARIANT ReturnsWhileLive
CHECK_DEADLOCK FALSE
