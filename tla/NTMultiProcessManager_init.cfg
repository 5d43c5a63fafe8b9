\* The same supervisor: a child must not initialise the shared resources
\* while another child is alive.
CONSTANTS
  Pids <- MCPids
  Spawners <- MCSpawners
  Mon = Mon
  MinProc = 1
  MaxProc = 2
  NewWin = 0
  KillWin = 1
  MemCapSet = TRUE
  MaxCrashes = 2
  NoPid = NoPid
SPECIFICATION Spec
INVARIANT SoleInitialiser
CHECK_DEADLOCK FALSE
