\* min_proc_num = 1, max_proc_num = 2, a memory cap, two crashes.  The
\* monitor may die of the IndexError in remove_proc(); the workers then
\* stay as they are, so the system may stop.
CONSTANTS
  Pids <- MCPids
  Spawners <- MCSpawners
  Mon = Mon
  MinProc = 1
  MaxProc = 2
  NewWin = 0
  KillWin = 1
  MemCapSet = TRUE
  MaxCrashes = 2
  NoPid = NoPid
SPECIFICATION Spec
INVARIANTS ChildrenTracked
PROPERTY FloorTracked
CHECK_DEADLOCK FALSE
