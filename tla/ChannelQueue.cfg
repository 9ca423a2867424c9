CONSTANTS
  Size = 4
  MaxDrift = 3
SPECIFICATION Spec
INVARIANTS TypeOK NoOverrun NoLostWakeup
CHECK_DEADLOCK FALSE
