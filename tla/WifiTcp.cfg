CONSTANTS
  MaxConnections = 2
  Firmware = "Connect"
  Peers = FALSE
  Texts = {"plain"}
  MaxConns = 2
  MaxPackets = 1
  MaxCmds = 2
  MaxRx = 4
  Clients = {c1, c2}
  Listener = listener
  NoOne = noone
  Types = {"TCP"}
  QueueSize = 1
  LateAnswers = FALSE
SPECIFICATION Spec
INVARIANTS TypeOK UartExclusive NoStaleAnswer NoOldData
PROPERTIES ConnectsItself ImplementsLock LockReleased
CHECK_DEADLOCK FALSE
