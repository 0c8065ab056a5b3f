CONSTANTS
  MaxMessages = 3
  MaxFailures = 0
  MaxLosses = 1
  MaxRestarts = 0
CHECK_DEADLOCK FALSE
SPECIFICATION FairSpec
PROPERTY OpenShowsHistory
