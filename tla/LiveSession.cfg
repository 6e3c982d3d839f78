SPECIFICATION FairSpec
CONSTANTS
  ChanSize = 2
  Closers = {c1, c2}
  MaxMsgs = 3
  MaxBatch = 2
INVARIANTS ClosedIsQuiet NoClosedChannelPanic SendNeverBlocks InOrder DisconnectIsLast OnlyDiscardHoldsClose SessionInv
PROPERTIES ReaderWindsDown ImplementsEventStream CloseReturns SessionEnds
CHECK_DEADLOCK FALSE
