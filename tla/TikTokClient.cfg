SPECIFICATION FairSpec
CONSTANTS
  s1 = s1
  s2 = s2
  Sessions = {s1, s2}
INVARIANTS StreamsExact AskerIsCounted DialNotStale
PROPERTIES CloseCounts ImplementsStreamCount
CHECK_DEADLOCK FALSE
