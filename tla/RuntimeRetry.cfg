CONSTANTS
  alice = alice  bob = bob
  NoActor = NoActor
  Actors <- MCActors
  MaxMessages = 3
  MaxClock = 0
  MaxFailures = 1
  MaxCrashes = 0
SPECIFICATION Spec
INVARIANT NoDoublePersist
CHECK_DEADLOCK FALSE
