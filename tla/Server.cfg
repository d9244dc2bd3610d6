CONSTANTS
  Null = Null
  None = None
  FreePort = FreePort
  NotANumber = NotANumber
  Malformed = Malformed
  httpPortDefault = httpPortDefault
  httpsPortDefault = httpsPortDefault
  DefaultSession = DefaultSession
  headerSession = headerSession
  httpSocket = httpSocket
  httpsSocket = httpsSocket
  p1 = p1
  p2 = p2
  c1 = c1
  c2 = c2
  bearer = bearer
  basic = basic
  header = header
  Sockets <- MCSockets
  EnvPorts <- MCEnvPorts
  Invocations <- AllInvocations
  ClientSettings <- MCClientSettings
  Routes <- MCRoutes
  Plain <- MCPlain
  Unescaped <- MCUnescaped
  Clients <- MCClients
  Requests <- MCRequests
  Minted <- MCMinted
  ChargeOf <- MCChargeOf
  Workers <- MCWorkers
  SessionOf <- MCSessionOf
  Ids <- MCIds
SPECIFICATION Spec
INVARIANTS
  SilentOnlyWhenBothGiveWay
  ProtocolsAreThoseAskedFor
  LiteralSegmentWins
  RequestsAreUnderstood
PROPERTIES
  StartsUnlessAClash
  WorkersAreIsolated
