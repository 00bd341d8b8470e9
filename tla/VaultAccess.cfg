SPECIFICATION AccessSpec
CONSTANTS
  c1 = c1
  c2 = c2
  p1 = p1
  p2 = p2
  agentd = agentd
  Process = {p1, p2, agentd}
  Client = {p1, p2}
  Agent = agentd
  Own <- Owns
  Caller <- Found
  Call <- Calling
  Content = {c1, c2}
  MaxSize = 2
  Size <- Sizes
  NoContent = NoContent
  Torn = Torn
  Inode = {i1, i2}
  NoInode = NoInode
  Alone = TRUE
  MayDie = TRUE
  Loaded = {p1}
  MayStall = TRUE
INVARIANTS SaveOnce CheckInTime
PROPERTIES Atomic EveryCommandEnds
