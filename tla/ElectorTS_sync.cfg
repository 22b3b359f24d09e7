SPECIFICATION Spec
CONSTANTS
  p1 = p1
  p2 = p2
  c1 = c1
  i1 = i1
  i2 = i2
  Process = {p1}
  Connection = {c1}
  Host <- One
  Identity = {i1, i2}
  Presents <- AnyName
  NoIdentity = NoIdentity
  LeaseDuration = 1
  Rollover = 0
  Replies <- Success
  MaxOverlap = 2
  Overlap <- Alike
  NamedPod = p1
  PodFaults = {}
  SocketFaults = {}
INVARIANT AlwaysSynced
