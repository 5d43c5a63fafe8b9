------------------------- MODULE MC_SHMSocketRPC -------------------------
(* Two clients and two server processes: enough for clients to contend    *)
(* for to_server, for servers to race for its requests, and for a         *)
(* server's cache to hold a socket another server never connected to.   *)
EXTENDS SHMSocketRPC, TLC

MCClients == {"c1", "c2"}
MCServers == {"v1", "v2"}

\* One server process, for the refinement run with idle reaping, whose
\* two-server state space is out of reach.
MCOneServer == {"v1"}

=============================================================================
