CONSTANTS
  Pids <- MCPids
  MinProc = 1
  MaxProc = 2
  NewWin = 0
  KillWin = 1
  MemCapModes = {FALSE}
  MaxCrashes = 2
  NoPid = NoPid
  WaitModes = {TRUE}
  CrashStates = {"init"}
SPECIFICATION Spec
PROPERTIES FloorRestored
CHECK_DEADLOCK FALSE
