CONSTANTS
  Clients <- MCClients
  Servers <- MCServers
  MaxReq = 2
  IdleTimeouts = FALSE
  ClientExits = TRUE
  Sigints = FALSE
  NoMsg = NoMsg
SPECIFICATION Spec
INVARIANT MainAlive
