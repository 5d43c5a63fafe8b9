----------------------- MODULE MC_MultiProcessServer -----------------------
(* Model of the supervisor with three process ids: enough for one worker  *)
(* to be stopping while the maximum of two others run, and for a crashed  *)
(* worker's pid to be reused.                                            *)
EXTENDS MultiProcessServer, TLC

MCPids == {"p1", "p2", "p3"}

=============================================================================
