CONSTANTS
  Threads <- MCThreads
  Workers <- MCWorkers
  MaxCalls = 3
  MaxGen = 3
  InitSize = 4
  ReqLens = {1, 4}
  RespLens = {1, 12}
  TimeoutEnabled = TRUE
SPECIFICATION Spec
INVARIANT
  ResponseMatchesRequest
