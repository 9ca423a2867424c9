CONSTANTS
  Size = 3
  Bytes = {x, y}
  Readers = {r1, r2}
  MaxRead = 2
SPECIFICATION Spec
INVARIANTS TypeOK RingInv WaitersAsleep NoLostWakeup
PROPERTIES ImplementsFifo ReturnsWhenAlone
