CONSTANTS
  alice = alice  bob = bob
  NoActor = NoActor
  Actors <- OneActor
  MaxMessages = 4
  MaxClock = 1
  MaxFailures = 1
  MaxCrashes = 1
SPECIFICATION FairSpec
INVARIANT TypeOK
INVARIANT RowsMirror
INVARIANT RowsChained
INVARIANT PublishedDurable
CHECK_DEADLOCK FALSE
INVARIANT DisposeWaits
PROPERTY RunsCaptured
