CONSTANTS
  alice = alice  bob = bob
  NoActor = NoActor
  Actors <- MCActors
  MaxMessages = 3
  MaxClock = 0
  MaxFailures = 0
  MaxCrashes = 0
SPECIFICATION Spec
INVARIANT AttributedToSender
CHECK_DEADLOCK FALSE
