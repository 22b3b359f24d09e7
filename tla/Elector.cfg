SPECIFICATION LoopFairSpec
CONSTANTS
  e1 = e1
  c1 = c1
  c2 = c2
  i1 = i1
  i2 = i2
  l1 = l1
  Elector = {e1}
  Client = {c1, c2}
  Host <- Together
  Identity = {i1, i2}
  Lease = {l1}
  NoIdentity = NoIdentity
  NoInfo = NoInfo
  LeaseDuration = 1
  RenewWindow = 1
  ClientTimeout = 0
  Heartbeat = Heartbeat
  Bogus = Bogus
  Presents <- Talk
  InboxBound = 1
  Says <- Speech
  SendBuffer = 1
INVARIANTS LoopTypeOK WalkIsSafe ToldUnlessMissed
PROPERTIES NoFalseTimeout SilentClientDropped KeepsTrying
