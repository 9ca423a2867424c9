CONSTANTS
  MaxConnections = 2
  Firmware = "Connect"
  Peers = FALSE
  Texts = {"plain", "OK"}
  MaxConns = 2
  MaxPackets = 1
  MaxCmds = 2
  MaxRx = 3
  Clients = {c1}
  Listener = listener
  NoOne = noone
  Types = {"TCP"}
  QueueSize = 1
  LateAnswers = FALSE
SPECIFICATION Spec
PROPERTY ConnectsItself
CHECK_DEADLOCK FALSE
