SPECIFICATION Spec
CONSTANTS
  gtimer = gtimer
  touch = touch
  gui = gui
  main = main
  idle = idle
  NULL = NULL
  Threads = {gtimer, touch, gui, main, idle}
  Idle = idle
  Mutexes = {1, 2}
  RealPrio <- MCPrio
  Quantum = 1
INVARIANTS TypeOK Ownership Linked HighestRuns Inheritance
PROPERTIES ImplementsLock Served
