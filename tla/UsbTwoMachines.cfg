SPECIFICATION Spec
CONSTANTS
  m1 = m1
  m2 = m2
  id1 = id1
  id2 = id2
  p1 = p1
  k1 = k1
  e1 = e1
  Machine = {m1, m2}
  Home <- HomeTwo
  Lineage = {l1}
  NoLineage = NoLineage
  NoBundle = NoBundle
  LegacyBundle <- LegacyOld
  MaxEdits = 2
  MidSync = {m2}
  Project = {p1}
  Provider = {}
  Key = {k1}
  Entry = {e1, e2}
  Absent = Absent
  Gone = Gone
  Blob = {NoBlob}
  NoBlob = NoBlob
  Identity = {id1, id2}
  NoIdentity = NoIdentity
  Unresolved = Unresolved
INVARIANTS
  IdentityStaysHome
PROPERTIES
  DeletesNeedConsent
  NewsSurvives
