CONSTANTS
  MaxConnections = 2
  Firmware = "Connect"
  Peers = FALSE
  Texts = {"plain"}
  MaxConns = 1
  MaxPackets = 1
  MaxCmds = 2
  MaxRx = 3
  Clients = {c1, c2}
  Listener = listener
  NoOne = noone
  Types = {"TCP"}
  QueueSize = 1
  LateAnswers = FALSE
SPECIFICATION Spec
INVARIANT OpenExclusive
CHECK_DEADLOCK FALSE
