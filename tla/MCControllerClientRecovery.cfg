SPECIFICATION FairSpec
CONSTANTS
  Button = {a}
  None = None
  MaxSequence = 2
  Retries = 2
  MaxGeneration = 3
  MaxInTransit = 1
CHECK_DEADLOCK FALSE
PROPERTY AutoReconnects
