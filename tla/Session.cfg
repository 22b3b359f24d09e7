SPECIFICATION FairSpec
CONSTANTS
  HeaderSize = 2
  Capacity = 11
  MaxField = 2
  Timeout = 4
  ClientGap = 2
  ElectorGap = 2
  Cases <- Servicers
INVARIANTS TypeOK HeardAsSaid ShowsItsRole
PROPERTIES NobodyGivenUp LetsGo
