SPECIFICATION FairSpec
CONSTANTS
  Button = {a}
  None = None
  MaxSequence = 2
  Retries = 1
  MaxGeneration = 3
  MaxInTransit = 1
CHECK_DEADLOCK FALSE
INVARIANTS OneConnection RecoveryIsPending NeverOutOfSequence ButtonsAgree
PROPERTIES StaysDisconnected SessionSettles
