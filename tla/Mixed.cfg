CONSTANTS
  Null = Null
  NoIntent = NoIntent
  NoCharge = NoCharge
  a = a
  b = b
  c = c
  s1 = s1
  f1 = f1
  Clients <- MCClients
  Sessions <- MCSessions
  ForeignIds <- MCForeignIds
  MaxRequests = 3
  FixtureAmount = 1099
  Workload <- MixedWorkload
SYMMETRY ClientSymmetry
SPECIFICATION Spec
INVARIANTS
  IInv
  ChargeInv
  StoredIntentIsBacked
  LifecycleFieldsFollowStatus
  AnswerIsStored
  ExpansionIsNotBehind
  AmountInv
  OvercaptureTakesTheWhole
PROPERTY LifecycleSpec
