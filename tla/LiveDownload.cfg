SPECIFICATION FairDownloadSpec
CONSTANTS
  ChanSize = 1
  Closers = {c1}
  MaxMsgs = 2
  MaxBatch = 1
INVARIANTS NoCircleInDownload DownloadReturnsLast
PROPERTIES ImplementsRecording CloseOutlastsDownload DownloadWindsDown DownloadIsSession FfmpegStops DownloadEnds
CHECK_DEADLOCK FALSE
