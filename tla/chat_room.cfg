SPECIFICATION RoomSpec
CONSTANTS
  Names = {n1, n2}
  NoName = NoName
  NoConn <- MCNoConn
  Fds <- ThreeFds
  MaxConns = 3
  MaxCommands = 2
  MaxHangUps = 1
  MaxSigInts = 0
  Stallers <- Nobody
  Commands <- RoomCommands
INVARIANTS
  BroadcastReachesAll
  MessagesGoToTheirClient
