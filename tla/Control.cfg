CONSTANTS
  Null = Null
  NoIntent = NoIntent
  NoCharge = NoCharge
  a = a
  b = b
  t1 = t1
  s1 = s1
  f1 = f1
  Testers <- MCTesters
  Sessions <- MCSessions
  ForeignIds <- MCForeignIds
  FixtureAmount = 1099
  Clients <- OneClient
  MaxRequests = 2
  EmitTypes = {"payment_intent.canceled"}
  MaxControls = 4
  EarlyIds = TRUE
  Workload <- ControlWorkload
  Seeds <- ControlSeeds
SPECIFICATION ControlSpec
INVARIANTS
  QuietResetIsolates
  NotAskedNothingStored
  SeedsGovern
  ControlInv
