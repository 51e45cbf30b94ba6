SPECIFICATION Spec
CONSTANTS
  Names = {n1}
  NoName = NoName
  NoConn <- MCNoConn
  Fds <- TwoFds
  MaxConns = 2
  MaxCommands = 2
  MaxHangUps = 0
  MaxSigInts = 0
  Stallers <- Nobody
  Commands <- AllCommands
INVARIANTS
  UniqueNames
