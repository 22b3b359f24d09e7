SPECIFICATION Spec
CONSTANTS
  e1 = e1
  e2 = e2
  c1 = c1
  c2 = c2
  i1 = i1
  i2 = i2
  l1 = l1
  l2 = l2
  Elector = {e1, e2}
  Client = {c1, c2}
  Host <- OneEach
  Identity = {i1, i2}
  Lease = {l1}
  NoIdentity = NoIdentity
  NoInfo = NoInfo
  Presents <- Anything
  LeaseDuration = 2
  RenewWindow = 1
INVARIANT SoleActive
