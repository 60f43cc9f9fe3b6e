SPECIFICATION Spec
CONSTANTS
  MaxGame = 2
  MaxSequence = 2
  MaxPage = 1
  MaxRequests = 2
  None = None
INVARIANT OneFrameInFlight
