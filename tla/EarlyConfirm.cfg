CONSTANTS
  Null = Null
  NoIntent = NoIntent
  NoCharge = NoCharge
  a = a
  b = b
  t1 = t1
  s1 = s1
  f1 = f1
  Testers <- MCTesters
  Sessions <- MCSessions
  ForeignIds <- MCForeignIds
  FixtureAmount = 1099
  Clients <- MCClients
  MaxRequests = 3
  EmitTypes = {}
  MaxControls = 1
  EarlyIds = TRUE
  Workload <- SettleWorkload
  Seeds <- NoSeeds
SYMMETRY ClientSymmetry
SPECIFICATION ControlSpec
INVARIANT WebhooksSettleOnce
