------------------------- MODULE MC_LoggerServer -------------------------
(* Two connection threads, so a write can land between two steps of the  *)
(* flush pass while another call is in progress; one reporting worker.   *)
EXTENDS LoggerServer, TLC

MCConns == {"c1", "c2"}
MCPids == {"w1"}

=============================================================================
