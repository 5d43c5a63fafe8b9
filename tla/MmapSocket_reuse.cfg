\* A client may die at any step; another client then takes its connection.
CONSTANTS
  Clients <- MCClients
  MaxConn = 2
  MaxSends = 2
  Terms = FALSE
  Kills = TRUE
  NoClient = NoClient
  Zero = Zero
SPECIFICATION Spec
INVARIANT RepliesMatch
CHECK_DEADLOCK FALSE
