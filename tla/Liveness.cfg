CONSTANTS
  Null = Null
  NoIntent = NoIntent
  NoCharge = NoCharge
  a = a
  b = b
  c = c
  s1 = s1
  f1 = f1
  Clients <- ThreeClients
  Sessions <- MCSessions
  ForeignIds <- MCForeignIds
  MaxRequests = 3
  FixtureAmount = 1099
  Workload <- ContentionWorkload
SPECIFICATION FairSpec
PROPERTY EveryRequestAnswered
