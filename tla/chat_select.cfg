SPECIFICATION Spec
CONSTANTS
  Names = {n1}
  NoName = NoName
  NoConn <- MCNoConn
  Fds <- TwoFds
  MaxConns = 2
  MaxCommands = 0
  MaxHangUps = 1
  MaxSigInts = 0
  Stallers <- Nobody
  Commands <- NoCommands
INVARIANTS
  SelectNeverFails
