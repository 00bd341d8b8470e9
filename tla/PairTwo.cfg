CONSTANTS
  a = a
  b = b
  p = p
  q = q
  NoName = NoName
  NoPeer = NoPeer
  NoId = 0
  Machine <- MCMachine
  Listener <- MCListener
  HostName <- MCHostName
  PeerName = {p, q}
  Id <- MCId
  PubKey <- MCId
  Vaults0 <- MCVaults0
  Listens <- MCListens
  Connects <- MCConnects
  MaxSession = 2
  MaxIdentity = 4
  MaxOwned = 1
  Stranger = {4}
  MaxEvent = 1
  PIN_MAX_FAILURES = 2
  Alone = TRUE
SPECIFICATION PairSpec
INVARIANTS
  TablesOK
  RolesMatch
  OnePartner
PROPERTIES
  KeepsPromise
  IdentityKept
  BothSave
CHECK_DEADLOCK FALSE
