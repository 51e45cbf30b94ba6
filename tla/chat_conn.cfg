SPECIFICATION Spec
CONSTANTS
  Names = {n1}
  NoName = NoName
  NoConn <- MCNoConn
  Fds <- TwoFds
  MaxConns = 3
  MaxCommands = 0
  MaxHangUps = 3
  MaxSigInts = 1
  Stallers <- Nobody
  Commands <- NoCommands
INVARIANTS
  TypeOK
  MasterTracksSockets
  SelectSeesOpenSockets
  ErasesItself
  RegistryIsExact
