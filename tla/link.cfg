SPECIFICATION FairSpec
CONSTANTS
  MaxLines = 3
  MaxPackets = 1
  Typed <- SomeLines
INVARIANTS
  TypeOK
  FlagFollowsServer
  SessionFollowsLines
PROPERTIES
  ClientEnds
