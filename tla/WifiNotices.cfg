CONSTANTS
  MaxConnections = 2
  Firmware = "Linked"
  Peers = TRUE
  Texts = {"plain"}
  MaxConns = 3
  MaxPackets = 0
  MaxCmds = 1
  MaxRx = 4
  Clients = {}
  Listener = listener
  NoOne = noone
  Types = {"TCP"}
  QueueSize = 1
  LateAnswers = FALSE
SPECIFICATION Spec
INVARIANT TableFollows
PROPERTY LinksNoticed
CHECK_DEADLOCK FALSE
