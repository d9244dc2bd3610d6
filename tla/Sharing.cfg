CONSTANTS
  Null = Null
  Shared = Shared
  a = a
  b = b
  s1 = s1
  s2 = s2
  f1 = f1
  Clients <- MCClients
  Sessions <- MCSessions
  ForeignIds <- MCForeignIds
  MaxRequests = 4
SYMMETRY ClientSymmetry
SPECIFICATION Spec
INVARIANTS
  SharingInv
  FlatSeedsIsolate
