SPECIFICATION Spec
CONSTANTS
  Process = {p1, p2, p3}
  Agent = Agent
  Key = {k1, k2, k3, f1}
  NoKey = NoKey
  Foreign = {f1}
  FirstRunAlone = TRUE
INVARIANTS
  Openable
PROPERTIES
  KeysKept
  RestoreOpens
