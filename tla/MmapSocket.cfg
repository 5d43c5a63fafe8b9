\* Two clients and MAX_CONNECTIONS = 2, so both connections are served and
\* each client can reach either one.  Clients may die at any step, and
\* SIGTERM or SIGABRT ends a connected client.
CONSTANTS
  Clients <- MCClients
  MaxConn = 2
  MaxSends = 2
  Terms = TRUE
  Kills = TRUE
  NoClient = NoClient
  Zero = Zero
SPECIFICATION Spec
INVARIANTS UndisturbedRepliesMatch
PROPERTIES SendsReturn
\* Once every client has made its calls or died, the server threads only
\* poll the state word, which changes nothing: the system stops there.
CHECK_DEADLOCK FALSE
