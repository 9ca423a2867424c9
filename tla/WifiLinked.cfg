CONSTANTS
  MaxConnections = 1
  Firmware = "Linked"
  Peers = TRUE
  Texts = {"OK", "BREAK"}
  MaxConns = 2
  MaxPackets = 2
  MaxCmds = 1
  MaxRx = 3
  Clients = {c1}
  Listener = listener
  NoOne = noone
  Types = {"TCP", "UDP"}
  QueueSize = 1
  LateAnswers = TRUE
SPECIFICATION Spec
INVARIANT UartExclusive
PROPERTY ImplementsLock
CHECK_DEADLOCK FALSE
