SPECIFICATION FairDownloadSpec
CONSTANTS
  ChanSize = 1
  Closers = {c1}
  MaxMsgs = 1
  MaxBatch = 1
PROPERTY CloseStopsDownloads
CHECK_DEADLOCK FALSE
