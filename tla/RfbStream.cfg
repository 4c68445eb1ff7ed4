CONSTANT
  Servers <- MCServers
SPECIFICATION FairSpec
INVARIANTS
  TypeOK
  HandledAsSent
  OneUpdateUnderWay
PROPERTIES
  EverythingIsShown
CHECK_DEADLOCK FALSE
