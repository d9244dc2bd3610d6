CONSTANTS
  Null = Null
  NoIntent = NoIntent
  NoCharge = NoCharge
  a = a
  b = b
  c = c
  s1 = s1
  f1 = f1
  Clients <- MCClients
  Sessions <- MCSessions
  ForeignIds <- MCForeignIds
  MaxRequests = 4
  FixtureAmount = 1099
  Workload <- LifecycleWorkload
SYMMETRY ClientSymmetry
SPECIFICATION Spec
INVARIANTS
  AtMostOneLiveCharge
  SettledAtMostOnce
  CaptureFollowsAuthorization
  ChargeEventFirst
  EventsAgreeWithStore
  CapturedWithinAuthorization
  EventInv
PROPERTIES
  TerminalIsFinal
