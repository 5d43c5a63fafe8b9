\* Channel with caller timeouts: two threads, two workers, three calls,
\* lengths that make the client grow the region (4 >= 4-1) and the server
\* grow it again for a reply (12 >= 12-1).  Properties about answers hold
\* up to the first timeout (Untimed); ClientSerialised holds
\* throughout.
CONSTANTS
  Threads <- MCThreads
  Workers <- MCWorkers
  MaxCalls = 3
  MaxGen = 3
  InitSize = 4
  ReqLens = {1, 4}
  RespLens = {1, 12}
  TimeoutEnabled = TRUE
SPECIFICATION Spec
INVARIANTS
  TypeOK
  NoProtocolError
  UntimedResponsesMatch
  ClientSerialised
PROPERTIES
  CallsReturn
