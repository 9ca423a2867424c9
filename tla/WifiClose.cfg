CONSTANTS
  MaxConnections = 1
  Firmware = "Connect"
  Peers = FALSE
  Texts = {"plain"}
  MaxConns = 1
  MaxPackets = 1
  MaxCmds = 2
  MaxRx = 3
  Clients = {c1}
  Listener = listener
  NoOne = noone
  Types = {"TCP"}
  QueueSize = 1
  LateAnswers = FALSE
SPECIFICATION Spec
PROPERTY CloseCloses
CHECK_DEADLOCK FALSE
