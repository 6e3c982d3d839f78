SPECIFICATION FairSpec
CONSTANTS
  ChanSize = 1
  Closers = {c1, c2}
  MaxMsgs = 2
  MaxBatch = 2
PROPERTY InitialMessagesPass
CHECK_DEADLOCK FALSE
