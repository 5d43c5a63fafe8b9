--------------------- MODULE MC_NTMultiProcessManager ---------------------
(* Three pids: one more than max_proc_num, so the scale-up bound can be   *)
(* overrun, and pids are reused once reaped.  One floor thread besides    *)
(* the monitor's own new_proc.                                            *)
EXTENDS NTMultiProcessManager, TLC

MCPids == {"p1", "p2", "p3"}
MCSpawners == {"t1"}

=============================================================================
