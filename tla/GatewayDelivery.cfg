CONSTANTS
  m1 = m1  m2 = m2  m3 = m3
  alice = alice  bob = bob
  NoCommand = NoCommand  Nobody = Nobody
  Commands <- MCCommands
  Principals <- OnePrincipal
  Routes <- CommandRoute
  Grants <- MCGrants
  Behaviors <- BothWays
  MaxReads = 1
SPECIFICATION GatewaySpec
CHECK_DEADLOCK FALSE
INVARIANT DeliveryHonoured
