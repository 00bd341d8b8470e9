SPECIFICATION FairAgentSpec
CONSTANTS
  Request = {r1, r2}
  Project = {p1}
  Caller = {b1, b2}
  GrantId = {g1, g2}
  NoGrant = NoGrant
  IdleSettings = {0, 1}
  AgeSettings = {0, 1}
  IdleDefault = 2
  AgeDefault = 3
  TtlMin = 1
  TtlMax = 2
  Ttls = {0, 1, 2, 3}
INVARIANTS
  GrantsUnderKey
PROPERTIES
  UseIsCovered
  Ceiling
  LeftAloneLocks
