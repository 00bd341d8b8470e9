SPECIFICATION Spec
CONSTANTS
  e1 = e1
  e2 = e2
  Host = h
  Client = {c1}
  Typed <- TypedOwn
  Content <- ContentAll
  Everything = Everything
  Scopes = {Everything, {p1}, {p2}}
  Reserved = {p2}
  MaxFailures = 1
  MaxSessions = 2
  MaxEdits = 2
  Project = {p1, p2}
  Provider = {}
  Key = {k1}
  Entry = {e1, e2}
  Absent = Absent
  Gone = Gone
  Blob = {NoBlob}
  NoBlob = NoBlob
  Identity = {}
  NoIdentity = NoIdentity
  Unresolved = Unresolved
INVARIANTS
  ScopedSharesOnlyScope
PROPERTIES
  HostDeletesGated
  HostNewsSurvives
CHECK_DEADLOCK FALSE
