CONSTANTS
  a = a
  b = b
  x = x
  p = p
  q = q
  All = All
  Nobody = Nobody
  MaxSlot = 2
  App = {a, b}
  Exe = {x}
  Project = {p, q}
  AgentGrants <- MCAgentGrants
  MaxRequest = 2
  MaxKey = 2
  MaxChallenge = 2
  MaxTime = 2
  MAX_TTL = 1
  CHALLENGE_TTL = 1
  SESSION_TTL = 1
  Ttl = {2}
  KeyTime = {0}
SPECIFICATION Spec
INVARIANTS
  OneDialog
  CeremoniesOnce
PROPERTIES
  GrantsBacked
  AddedToLatest
  EveryoneAsked
CHECK_DEADLOCK FALSE
