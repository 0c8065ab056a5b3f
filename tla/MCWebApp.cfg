CONSTANTS
  ada = ada  bob = bob  Nobody = Nobody  Checking = Checking
  Users <- OneUser
  Clients <- TwoClients
  Connects <- TwoConnects
  Life = 4
  Margin = 2
  MinDelay = 1
  Latency = 1
  MaxFlights = 2
  MaxChecks = 2
  MaxFaults = 1
  MaxSignOuts = 1
SPECIFICATION Spec
INVARIANT TypeOK
INVARIANT TokenKept
INVARIANT OneRefresher
INVARIANT ReadersAreMembers
PROPERTY Settles
CHECK_DEADLOCK FALSE
