SPECIFICATION DivergenceSpec
CONSTANTS
  Project = {p}
  Provider = {c}
  Key = {k1}
  Entry = {e1, e2, e3}
  Absent = Absent
  Gone = Gone
  Blob = {NoBlob}
  NoBlob = NoBlob
  Identity = {}
  NoIdentity = NoIdentity
  Unresolved = Unresolved
INVARIANTS
  NothingLostUnasked
  SameFromBothEnds
  RetryIsStable
  AdditiveWithoutBase
