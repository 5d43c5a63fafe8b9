CONSTANTS
  Pids <- MCPids
  MinProc = 1
  MaxProc = 2
  NewWin = 0
  KillWin = 1
  MemCapModes = {TRUE, FALSE}
  MaxCrashes = 2
  NoPid = NoPid
  WaitModes = {TRUE, FALSE}
  CrashStates = {"init", "running", "stopping"}
SPECIFICATION Spec
INVARIANTS TypeOK TrackedChildren AliveWithinMax
PROPERTY FloorRestoredUnlessStuck
CHECK_DEADLOCK FALSE
