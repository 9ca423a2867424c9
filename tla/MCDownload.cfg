SPECIFICATION Spec

CONSTANTS
  MaxSectors = 1
  QueueSize = 2
  LineSize = 3
  Chunk = 2
  Answers <- MCAnswers

INVARIANTS
  TypeOK
  BusHeld
  FilePrefix
  InBuffer
  NotTooLong
  WholeBody
  FileIsClosed

PROPERTIES
  StaysReady
  CommandEnds

CHECK_DEADLOCK FALSE
