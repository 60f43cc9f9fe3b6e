SPECIFICATION FairSpec
CONSTANTS
  Connection = {c1, c2}
  Button = {a}
  QueueCapacity = 1
  MaxGeneration = 2
  None = None
INVARIANTS RetainedMatchesCore LiveControllerReachesGame AnsweredDisconnectIsComplete
PROPERTIES PadSpec ClosingReleasesGame
