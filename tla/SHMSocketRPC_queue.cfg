\* One server process with its reaper, reaping idle sockets; clients may
\* exit and the server may get SIGINT.  Every socket must behave as the
\* single-item queue of SlotQueue.
CONSTANTS
  Clients <- MCClients
  Servers <- MCOneServer
  MaxReq = 2
  IdleTimeouts = TRUE
  ClientExits = TRUE
  Sigints = TRUE
  NoMsg = NoMsg
SPECIFICATION Spec
PROPERTY SlotQueueSpec
CHECK_DEADLOCK FALSE
