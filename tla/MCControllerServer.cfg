SPECIFICATION FairSpec
CONSTANTS
  Socket = {s1, s2, s3}
  None = None
CHECK_DEADLOCK FALSE
INVARIANTS SeatIsExclusive SeatedSocketListens ExitedServerIsQuiet
PROPERTIES FeedSpec ShutdownReturns
