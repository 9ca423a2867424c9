CONSTANTS
  Size = 4
  MaxDrift = 3
SPECIFICATION Spec
INVARIANT CounterCountsBytes
CHECK_DEADLOCK FALSE
