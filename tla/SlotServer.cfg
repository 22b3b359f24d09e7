SPECIFICATION FairSpec
CONSTANTS
  demo = demo
  ann = ann
  bob = bob
  none = none
  Clients <- AllClients
  Demos <- DemoClients
  MaxClients = 2
  Limits <- DescriptorLimits
  MaxSent = 1
  Bursts <- SomeMessages
  Free = none
INVARIANTS TypeOK CountCoversLive InBounds
PROPERTIES NobodyOverwritten NobodyOverlooked Exits
CHECK_DEADLOCK FALSE
