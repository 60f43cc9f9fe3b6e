SPECIFICATION FairSpec
CONSTANTS
  MaxGame = 2
  MaxSequence = 2
  MaxPage = 2
  MaxRequests = 2
  None = None
INVARIANTS SlotsFollowTheGame PictureMovesForward
PROPERTY SlotIsReleased
