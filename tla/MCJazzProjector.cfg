CONSTANTS
  MaxMessages = 3
  MaxFailures = 1
  MaxLosses = 1
  MaxRestarts = 2
CHECK_DEADLOCK FALSE
SPECIFICATION FairSpec
INVARIANT TypeOK
INVARIANT ProjectionComplete
INVARIANT BubbleHonest
PROPERTY OpenShowsIntactHistory
