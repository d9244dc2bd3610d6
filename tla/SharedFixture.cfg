CONSTANTS
  Null = Null
  Shared = Shared
  a = a
  b = b
  s1 = s1
  s2 = s2
  f1 = f1
  Clients <- OneClient
  Sessions <- MCSessions
  ForeignIds <- MCForeignIds
  MaxRequests = 2

SPECIFICATION Spec
INVARIANT SessionsArePartitioned
