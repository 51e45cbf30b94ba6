SPECIFICATION Spec
CONSTANTS
  Names = {n1}
  NoName = NoName
  NoConn <- MCNoConn
  Fds <- TwoFds
  MaxConns = 2
  MaxCommands = 3
  MaxHangUps = 1
  MaxSigInts = 0
  Stallers <- Nobody
  Commands <- AllCommands
INVARIANTS
  UniqueUnlessRaced
  LoggedInIsNamed
PROPERTIES
  KeepsSessions
