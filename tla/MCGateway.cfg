CONSTANTS
  m1 = m1  m2 = m2  m3 = m3
  alice = alice  bob = bob
  NoCommand = NoCommand  Nobody = Nobody
  Commands <- MCCommands
  Principals <- OnePrincipal
  Routes <- MCRoutes
  Grants <- MCGrants
  Behaviors <- FollowUp
  MaxReads = 2
SPECIFICATION GatewaySpec
INVARIANT GatewayTypeOK
INVARIANT NoLostWakeup
INVARIANT AnswersHonest
PROPERTY ImplementsExecutor
PROPERTY NoStaleRole
PROPERTY EveryRequestAnswered
CHECK_DEADLOCK FALSE
