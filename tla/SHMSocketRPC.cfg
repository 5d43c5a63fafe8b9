CONSTANTS
  Clients <- MCClients
  Servers <- MCServers
  MaxReq = 2
  IdleTimeouts = FALSE
  ClientExits = FALSE
  Sigints = FALSE
  NoMsg = NoMsg
SPECIFICATION Spec
INVARIANTS TypeOK ReplyMatches
PROPERTY RequestsAnswered
