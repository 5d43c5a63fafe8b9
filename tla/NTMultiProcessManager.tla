----------------------- MODULE NTMultiProcessManager -----------------------
(***************************************************************************)
(* The older worker supervisor of network_tools: class MultiProcessServer *)
(* in src/network_tools/service_managers/multi_process_manager/           *)
(* MultiProcessManager.py.  __init__ starts one monitor thread running     *)
(* __monitor_process_loop.  new_proc forks a worker and, in the parent,   *)
(* appends its pid to LPIDs; the loop runs it either itself or, for the   *)
(* floor of min_proc_num, in a new thread of its own.  remove_proc drops  *)
(* a pid from LPIDs, sends SIGINT, then SIGTERM (SIGKILL if need be) and  *)
(* waits on it.  Nothing else waits on a child, so a crashed worker stays *)
(* a zombie, and psutil.pid_exists is true of a zombie.                   *)
(*                                                                         *)
(* A forked child runs its providers with init_resources = not            *)
(* bool(len(self.LPIDs)), read from its copy of LPIDs at the fork; an     *)
(* SHMServer then re-creates the service's shared sockets.  Time is       *)
(* counted in monitor periods (MONITOR_PROCESS_EVERY_SECS); the           *)
(* time-series averages are a nondeterministic Samples record.            *)
(***************************************************************************)
EXTENDS Integers, Sequences, SequencesExt, FiniteSets

CONSTANTS
  Pids,         \* process ids the OS may hand out (reused once reaped)
  Spawners,     \* new_proc threads the floor step may have in flight at once
  Mon,          \* the monitor thread, when it runs new_proc itself
  MinProc,      \* min_proc_num
  MaxProc,      \* max_proc_num
  NewWin,       \* new_proc_avg_over_secs, in monitor periods
  KillWin,      \* kill_proc_avg_over_secs, in monitor periods
  MemCapSet,    \* max_proc_mem_bytes is not None
  MaxCrashes,   \* bound on worker crashes
  NoPid         \* "no pid": a model value outside Pids

ASSUME
  /\ MinProc \in Nat \ {0} /\ MaxProc \in Nat \ {0}
  /\ NewWin \in Nat /\ KillWin \in Nat /\ NewWin < KillWin
  /\ MemCapSet \in BOOLEAN /\ MaxCrashes \in Nat
  /\ NoPid \notin Pids /\ Mon \notin Spawners

Runners == Spawners \cup {Mon}

\* `since` saturates here: every window comparison is decided by then.
SinceCap == KillWin + 1

\* OS state of a process id.  A worker that got SIGINT is "stopping": an
\* SHMServer provider only sets shut_me_down, and the child's main loop
\* keeps sleeping.
ProcStates == {"free", "running", "stopping", "zombie"}
Alive == {"running", "stopping"}

Samples == [data : BOOLEAN, mem : BOOLEAN, up : BOOLEAN, down : BOOLEAN]

VARIABLES
  proc,       \* proc[p]: OS state of process p
  LPIDs,      \* self.LPIDs
  since,      \* periods since self.last_proc_op_time
  monPc,      \* the monitor thread
  target,     \* the pid remove_proc is stopping, or NoPid
  npc,        \* npc[r]: where new_proc run by r is
  npid,       \* npid[r]: the child new_proc run by r has forked, or NoPid
  crashes,    \* worker crashes so far
  clobbered   \* ghost: children alive when a later child initialised

vars == <<proc, LPIDs, since, monPc, target, npc, npid, crashes, clobbered>>

MonPCs == {"scan", "decide", "new_proc", "remove_term", "remove_reap",
           "sleep", "dead"}
RunPCs == {"idle", "fork", "record"}

Tick == IF since < SinceCap THEN since + 1 ELSE since

\* psutil.pid_exists: true of every process-table entry, zombies included.
PidExists(p) == proc[p] /= "free"

\* The child's init_resources: no pid was in LPIDs when it was forked.
InitResources == LPIDs = <<>>

\* Mutant: the scale-up bound of the shmrpc copy, len < max_proc_num.
ScaleUpAllowedFixed(n) == n < MaxProc

\* Scale-up is allowed while len(self.LPIDs) <= self.max_proc_num.
ScaleUpAllowed(n) == n <= MaxProc

\* Mutant: the floor test of the scan off by one.
BelowFloorOffByOne(n) == n < MinProc - 1

\* The scan starts a floor new_proc thread while len(self.LPIDs) < min_proc_num.
BelowFloor(n) == n < MinProc

\* Mutant: os.waitpid left out of remove_proc.
WaitpidSkipped(s) == s

\* os.waitpid on an exited child frees its process-table entry.
Waitpid(s) == IF s = "zombie" THEN "free" ELSE s

-----------------------------------------------------------------------------
(* new_proc *)

\* os.fork(): the child starts its providers, initialising the shared
\* resources when its copy of LPIDs is empty.
NewProcFork(r) ==
  /\ npc[r] = "fork"
  /\ \E p \in Pids :
       /\ proc[p] = "free"
       /\ proc' = [proc EXCEPT ![p] = "running"]
       /\ npid' = [npid EXCEPT ![r] = p]
       /\ clobbered' = IF InitResources
                         THEN clobbered \cup {q \in Pids : proc[q] \in Alive}
                         ELSE clobbered
  /\ npc' = [npc EXCEPT ![r] = "record"]
  /\ UNCHANGED <<LPIDs, since, monPc, target, crashes>>

\* In the parent: reset the op time and append the child's pid.  The
\* monitor goes on to its sleep; a floor thread ends.
NewProcRecord(r) ==
  /\ npc[r] = "record"
  /\ LPIDs' = Append(LPIDs, npid[r])
  /\ since' = 0
  /\ npc' = [npc EXCEPT ![r] = "idle"]
  /\ npid' = [npid EXCEPT ![r] = NoPid]
  /\ monPc' = IF r = Mon THEN "sleep" ELSE monPc
  /\ UNCHANGED <<proc, target, crashes, clobbered>>

-----------------------------------------------------------------------------
(* The monitor thread: __monitor_process_loop *)

\* Drop tracked pids that no longer exist, and start a new_proc thread
\* while fewer than min_proc_num pids are tracked.
MonitorScan ==
  LET gone == {p \in ToSet(LPIDs) : ~PidExists(p)}
      kept == SelectSeq(LPIDs, LAMBDA p : p \notin gone)
  IN
  /\ monPc = "scan"
  /\ LPIDs' = kept
  /\ since' = IF gone = {} THEN since ELSE 0
  /\ IF BelowFloor(Len(kept))
       THEN \E r \in Spawners : npc[r] = "idle" /\ npc' = [npc EXCEPT ![r] = "fork"]
       ELSE UNCHANGED npc
  /\ monPc' = "decide"
  /\ UNCHANGED <<proc, target, npid, crashes, clobbered>>

\* remove_proc(pid): drop it from LPIDs, reset the op time and, as it
\* exists, send SIGINT.
BeginRemove(p) ==
  /\ LPIDs' = RemoveFirst(LPIDs, p)
  /\ since' = 0
  /\ target' = p
  /\ proc' = [proc EXCEPT ![p] = IF @ = "running" THEN "stopping" ELSE @]
  /\ monPc' = "remove_term"
  /\ UNCHANGED npc

\* remove_proc(): self.LPIDs[-1] raises IndexError on an empty list, and
\* the exception ends the monitor thread.
RemoveLast ==
  IF LPIDs = <<>>
    THEN monPc' = "dead" /\ UNCHANGED <<LPIDs, since, proc, target, npc>>
    ELSE BeginRemove(Last(LPIDs))

\* new_proc run by the monitor itself.
RunNewProc ==
  /\ npc' = [npc EXCEPT ![Mon] = "fork"]
  /\ monPc' = "new_proc"
  /\ UNCHANGED <<LPIDs, since, proc, target>>

Idle ==
  monPc' = "sleep" /\ UNCHANGED <<LPIDs, since, proc, target, npc>>

\* The load decision on the sampled averages, in the code's elif order.
MonitorDecide ==
  /\ monPc = "decide"
  /\ \E s \in Samples :
       IF ~s.data THEN Idle
       ELSE IF MemCapSet /\ s.mem THEN RemoveLast
       ELSE IF Len(LPIDs) <= MinProc THEN RunNewProc
       ELSE IF since > NewWin /\ s.up /\ ScaleUpAllowed(Len(LPIDs))
         THEN RunNewProc
       ELSE IF since > KillWin /\ s.down /\ Len(LPIDs) >= MinProc
         THEN RemoveLast
       ELSE Idle
  /\ UNCHANGED <<npid, crashes, clobbered>>

\* After the SIGINT wait, SIGTERM and if need be SIGKILL: the child is
\* dead (it may have exited on its own already).
RemoveTerm ==
  /\ monPc = "remove_term"
  /\ proc' = [proc EXCEPT ![target] = IF @ \in Alive THEN "zombie" ELSE @]
  /\ monPc' = "remove_reap"
  /\ UNCHANGED <<LPIDs, since, target, npc, npid, crashes, clobbered>>

\* os.waitpid(pid, 0) clears the zombie.
RemoveReap ==
  /\ monPc = "remove_reap"
  /\ proc' = [proc EXCEPT ![target] = Waitpid(@)]
  /\ target' = NoPid
  /\ monPc' = "sleep"
  /\ UNCHANGED <<LPIDs, since, npc, npid, crashes, clobbered>>

\* time.sleep(MONITOR_PROCESS_EVERY_SECS)
MonitorSleep ==
  /\ monPc = "sleep"
  /\ since' = Tick
  /\ monPc' = "scan"
  /\ UNCHANGED <<proc, LPIDs, target, npc, npid, crashes, clobbered>>

-----------------------------------------------------------------------------
(* Workers *)

WorkerCrash(p) ==
  /\ crashes < MaxCrashes
  /\ proc[p] = "running"
  /\ proc' = [proc EXCEPT ![p] = "zombie"]
  /\ crashes' = crashes + 1
  /\ UNCHANGED <<LPIDs, since, monPc, target, npc, npid, clobbered>>

\* A worker whose providers leave SIGINT to Python exits on the
\* KeyboardInterrupt.
WorkerExit(p) ==
  /\ proc[p] = "stopping"
  /\ proc' = [proc EXCEPT ![p] = "zombie"]
  /\ UNCHANGED <<LPIDs, since, monPc, target, npc, npid, crashes, clobbered>>

-----------------------------------------------------------------------------

\* __init__: empty LPIDs, last_proc_op_time = 0 (long ago), monitor started.
Init ==
  /\ proc = [p \in Pids |-> "free"]
  /\ LPIDs = <<>>
  /\ since = SinceCap
  /\ monPc = "scan"
  /\ target = NoPid
  /\ npc = [r \in Runners |-> "idle"]
  /\ npid = [r \in Runners |-> NoPid]
  /\ crashes = 0
  /\ clobbered = {}

Next ==
  \/ MonitorScan \/ MonitorDecide \/ RemoveTerm \/ RemoveReap \/ MonitorSleep
  \/ \E r \in Runners : NewProcFork(r) \/ NewProcRecord(r)
  \/ \E p \in Pids : WorkerCrash(p) \/ WorkerExit(p)

(***************************************************************************)
(* Threads are OS-scheduled: their steps are weakly fair.  Crashes and a  *)
(* worker's own exit are the environment's and are not.                   *)
(***************************************************************************)
Fairness ==
  /\ WF_vars(MonitorScan) /\ WF_vars(MonitorDecide) /\ WF_vars(RemoveTerm)
  /\ WF_vars(RemoveReap) /\ WF_vars(MonitorSleep)
  /\ \A r \in Runners : WF_vars(NewProcFork(r)) /\ WF_vars(NewProcRecord(r))

Spec == Init /\ [][Next]_vars /\ Fairness

-----------------------------------------------------------------------------
(* Properties *)

TypeOK ==
  /\ proc \in [Pids -> ProcStates]
  /\ LPIDs \in Seq(Pids)
  /\ since \in 0..SinceCap
  /\ monPc \in MonPCs
  /\ target \in Pids \cup {NoPid}
  /\ npc \in [Runners -> RunPCs]
  /\ npid \in [Runners -> Pids \cup {NoPid}]
  /\ crashes \in 0..MaxCrashes
  /\ clobbered \subseteq Pids

\* Every child of the supervisor, living or zombie, is accounted for by
\* exactly one of: LPIDs (once), the new_proc that forked it and has not
\* appended it yet, or the remove_proc that is stopping it.  No child is
\* lost to the monitor, the floor threads or a removal.
ChildrenTracked ==
  LET held == {npid[r] : r \in Runners} \ {NoPid} IN
  /\ IsInjective(LPIDs)
  /\ held \cap (ToSet(LPIDs) \cup {target}) = {}
  /\ target \notin ToSet(LPIDs)
  /\ \A r, r2 \in Runners : r /= r2 /\ npid[r] /= NoPid => npid[r] /= npid[r2]
  /\ {p \in Pids : proc[p] /= "free"} = (ToSet(LPIDs) \cup held \cup {target}) \ {NoPid}

\* SHMServer.__call__'s note: init_resources is only for a service created
\* from scratch, never while other workers use the shared sockets.  No
\* child starts with init_resources=True while another child is alive.
SoleInitialiser ==
  clobbered = {}

\* max_proc_num is "the maximum number of worker processes": never more
\* living children.
AliveWithinMax ==
  Cardinality({p \in Pids : proc[p] \in Alive}) <= MaxProc


\* The monitor keeps min_proc_num pids tracked: whenever a scale-down
\* (allowed at len(LPIDs) >= min_proc_num) or a removal leaves fewer, the
\* scan's floor thread new_proc brings LPIDs back up, even when the logger
\* has no load data for MonitorDecide.  Only the monitor's IndexError
\* death stops this.
FloorTracked == []<>(Len(LPIDs) >= MinProc \/ monPc = "dead")

=============================================================================
