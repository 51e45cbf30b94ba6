SPECIFICATION FairRoomSpec
CONSTANTS
  Names = {n1, n2}
  NoName = NoName
  NoConn <- MCNoConn
  Fds <- TwoFds
  MaxConns = 2
  MaxCommands = 2
  MaxHangUps = 1
  MaxSigInts = 0
  Stallers <- OneClient
  Commands <- LogoutOnly
INVARIANTS
  FallsByLeaversOnly
PROPERTIES
  HangUpIsCleanedUp
  CommandIsTaken
  ExitCompletes
