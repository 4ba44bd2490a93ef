SPECIFICATION FairSpec
CONSTANTS
  MaxInbox = 2
  MaxEvents = 2
  MaxPairs = 2
INVARIANTS
  TypeOK
  ConnectedAsks
PROPERTIES
  KeepsTrying
  BridgeHears
