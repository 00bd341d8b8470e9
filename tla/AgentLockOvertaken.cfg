SPECIFICATION AgentSpec
CONSTANTS
  Request = {r1}
  Project = {p1}
  Caller = {b1}
  GrantId = {g1}
  NoGrant = NoGrant
  IdleSettings = {0}
  AgeSettings = {0}
  IdleDefault = 2
  AgeDefault = 3
  TtlMin = 1
  TtlMax = 2
  Ttls = {0, 1, 2, 3}
PROPERTIES
  LockHolds
