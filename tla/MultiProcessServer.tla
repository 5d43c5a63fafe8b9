------------------------- MODULE MultiProcessServer -------------------------
(***************************************************************************)
(* The worker supervisor of shmrpc: class MultiProcessServer in           *)
(* src/shmrpc/service_managers/multi_process_manager/MultiProcessManager.py*)
(* Its main thread runs start_service (from __init__) and, on             *)
(* KeyboardInterrupt, stop_service; its monitor thread runs               *)
(* __monitor_process_loop.  Workers are child processes (the              *)
(* _service_worker module, not in the repository, modelled from spec      *)
(* 4.E): they initialise, signal "started" through the logger, may crash, *)
(* finish their call on SIGINT, die on SIGTERM, and stay zombies until    *)
(* the supervisor waits on them.  The service status is the logger's      *)
(* shared status string.  Time is counted in monitor periods             *)
(* (MONITOR_PROCESS_EVERY_SECS); the load samples of the logger are       *)
(* nondeterministic.                                                      *)
(***************************************************************************)
EXTENDS Integers, Sequences, SequencesExt, FiniteSets

CONSTANTS
  Pids,                \* process ids the OS may hand out (reused once reaped)
  MinProc,             \* min_proc_num
  MaxProc,             \* max_proc_num
  NewWin,              \* new_proc_avg_over_secs, in monitor periods
  KillWin,             \* kill_proc_avg_over_secs, in monitor periods
  MemCapModes,         \* values of (max_proc_mem_bytes is not None) to explore
  WaitModes,           \* values of wait_until_completed to explore
  CrashStates,         \* worker states in which a worker may crash
  MaxCrashes,          \* bound on worker crashes
  NoPid                \* "no pid": a model value outside Pids

ASSUME
  /\ MinProc \in Nat \ {0} /\ MaxProc \in Nat \ {0} /\ MinProc <= MaxProc
  /\ NewWin \in Nat /\ KillWin \in Nat
  /\ MemCapModes \subseteq BOOLEAN /\ WaitModes \subseteq BOOLEAN
  /\ CrashStates \subseteq {"init", "running", "stopping"}
  /\ MaxCrashes \in Nat
  /\ NoPid \notin Pids

\* `since` saturates here: every window comparison is decided by then.
SinceCap == KillWin + 1

\* OS state of a process id.
ProcStates == {"free", "init", "running", "stopping", "zombie"}
Alive == {"init", "running", "stopping"}

\* One sample of the logger's averages: whether both windows have data,
\* and which of the memory cap, scale-up and scale-down load conditions
\* hold.
Samples == [data : BOOLEAN, mem : BOOLEAN, up : BOOLEAN, down : BOOLEAN]

VARIABLES
  waitUntilCompleted,  \* self.wait_until_completed
  memCapSet,           \* self.max_proc_mem_bytes is not None
  status,      \* logger service status
  LPIDs,       \* self.LPIDs
  since,       \* periods since last_proc_op_time
  collecting,  \* self.started_collecting_data
  proc,        \* proc[p]: OS state of process p
  mainPc,      \* main thread of the supervisor process
  spawned,     \* workers started so far by start_service
  monPc,       \* monitor thread
  target,      \* pid remove_child_process is working on, or NoPid
  crashes      \* worker crashes so far

vars == <<waitUntilCompleted, memCapSet, status, LPIDs, since, collecting, proc, mainPc, spawned, monPc,
          target, crashes>>

Statuses == {"stopped", "starting", "started", "stopping"}
MainPCs  == {"init", "spawn", "wait_started", "serving", "exited"}
MonPCs   == {"off", "loop", "decide", "kill_wait", "kill_reap", "sleep",
             "exited"}

Tick == IF since < SinceCap THEN since + 1 ELSE since

-----------------------------------------------------------------------------
(* Helpers shared by the threads *)

\* new_child_process: Popen a worker, record it, reset the op time.
Spawn(p) ==
  /\ proc[p] = "free"
  /\ proc' = [proc EXCEPT ![p] = "init"]
  /\ LPIDs' = Append(LPIDs, p)
  /\ since' = 0

\* Mutant: a zombie still "exists" for psutil, so it is never reaped.
ReapableLegacy(p) == FALSE

\* Reap loop: a tracked pid whose process is a zombie.
Reapable(p) == proc[p] = "zombie"

\* Mutant: the pid is forgotten without waiting on it.
WaitpidSkipped(s) == s

\* os.waitpid on an exited child frees its process-table entry.
Waitpid(s) == IF s = "zombie" THEN "free" ELSE s

\* Mutant: the off-by-one of the network_tools copy, len <= max.
ScaleUpAllowedLegacy(n) == n <= MaxProc

\* Scale-up is allowed while len(self.LPIDs) < self.max_proc_num.
ScaleUpAllowed(n) == n < MaxProc

\* Mutant: range(self.min_proc_num) run one time too many.
MoreToSpawnOffByOne(n) == n <= MinProc

\* start_service spawns min_proc_num workers.
MoreToSpawn(n) == n < MinProc

-----------------------------------------------------------------------------
(* Main thread *)

\* start_service: the status must be 'stopped'; set 'starting'; without
\* wait_until_completed the monitor thread starts at once.
StartService ==
  /\ mainPc = "init"
  /\ status = "stopped"
  /\ status' = "starting"
  /\ IF waitUntilCompleted
       THEN mainPc' = "spawn" /\ UNCHANGED monPc
       ELSE mainPc' = "serving" /\ monPc' = "loop"
  /\ UNCHANGED <<waitUntilCompleted, memCapSet, LPIDs, since, collecting, proc, spawned, target, crashes>>

\* One of the min_proc_num new_child_process calls of start_service.
StartSpawn ==
  /\ mainPc = "spawn"
  /\ \E p \in Pids : Spawn(p)
  /\ spawned' = spawned + 1
  /\ mainPc' = "wait_started"
  /\ UNCHANGED <<waitUntilCompleted, memCapSet, status, collecting, monPc, target, crashes>>

\* new_child_process blocks until the status is 'started', then
\* start_collecting_data; after the last one the monitor thread starts.
\* (Without wait_until_completed no worker is spawned before the monitor
\* starts, so the start_collecting_data thread is never created.)
StartWaitStarted ==
  /\ mainPc = "wait_started"
  /\ status = "started"
  /\ collecting' = TRUE
  /\ IF MoreToSpawn(spawned)
       THEN mainPc' = "spawn" /\ UNCHANGED monPc
       ELSE mainPc' = "serving" /\ monPc' = "loop"
  /\ UNCHANGED <<waitUntilCompleted, memCapSet, status, LPIDs, since, proc, spawned, target, crashes>>

\* stop_service: its first line asserts self.logger_client == 'started'.
\* A LoggerClient never equals a string, so AssertionError ends the
\* process before the status is set or any worker removed; the monitor
\* thread dies with the process.  (restart_service, which nothing calls,
\* would end the same way.)
StopService ==
  /\ mainPc' = "exited"
  /\ monPc' = "exited"
  /\ UNCHANGED <<waitUntilCompleted, memCapSet, status, LPIDs, since, collecting, proc,
                 spawned, target, crashes>>

\* KeyboardInterrupt.  While __init__ is still in start_service it is not
\* caught and ends the supervisor process; once __main__ is in its sleep
\* loop it is caught and stop_service is called.  Both end the process.
Interrupt ==
  /\ mainPc /= "exited"
  /\ StopService

-----------------------------------------------------------------------------
(* Monitor thread: __monitor_process_loop *)

\* The loop condition fails: the monitor thread returns.
MonitorExit ==
  /\ monPc = "loop"
  /\ status /= "started"
  /\ monPc' = "exited"
  /\ UNCHANGED <<waitUntilCompleted, memCapSet, status, LPIDs, since, collecting, proc, mainPc, spawned,
                 target, crashes>>

\* Reap: for each tracked zombie, os.waitpid and remove_child_process(pid),
\* which drops it from LPIDs and resets the op time.
MonitorReap ==
  LET dead == {p \in ToSet(LPIDs) : Reapable(p)} IN
  /\ monPc = "loop"
  /\ status = "started"
  /\ LPIDs' = SelectSeq(LPIDs, LAMBDA p : p \notin dead)
  /\ proc' = [p \in Pids |-> IF p \in dead THEN Waitpid(proc[p]) ELSE proc[p]]
  /\ since' = IF dead = {} THEN since ELSE 0
  /\ monPc' = "decide"
  /\ UNCHANGED <<waitUntilCompleted, memCapSet, status, collecting, mainPc, spawned, target, crashes>>

\* Floor: fewer than min_proc_num tracked workers; spawn one (its wait for
\* 'started' returns at once) and sleep.
MonitorFloor ==
  /\ monPc = "decide"
  /\ Len(LPIDs) < MinProc
  /\ \E p \in Pids : Spawn(p)
  /\ monPc' = "sleep"
  /\ UNCHANGED <<waitUntilCompleted, memCapSet, status, collecting, mainPc, spawned, target, crashes>>

\* remove_child_process(pid): drop it from LPIDs, reset the op time, and
\* if it exists send SIGINT (a worker finishes its call and exits).
BeginRemove(p) ==
  /\ LPIDs' = RemoveFirst(LPIDs, p)
  /\ since' = 0
  /\ target' = p
  /\ proc' = [proc EXCEPT ![p] = IF @ \in Alive THEN "stopping" ELSE @]
  /\ monPc' = "kill_wait"

\* The load decision after sampling the logger's averages.
MonitorDecide ==
  /\ monPc = "decide"
  /\ Len(LPIDs) >= MinProc
  /\ \E s \in Samples :
       IF ~s.data
         THEN monPc' = "sleep" /\ UNCHANGED <<LPIDs, since, proc, target>>
       ELSE IF memCapSet /\ s.mem
         THEN BeginRemove(Last(LPIDs))
       ELSE IF since > NewWin /\ s.up /\ ScaleUpAllowed(Len(LPIDs))
         THEN (\E p \in Pids : Spawn(p)) /\ monPc' = "sleep" /\ UNCHANGED target
       ELSE IF since > KillWin /\ s.down /\ Len(LPIDs) > MinProc
         THEN BeginRemove(Last(LPIDs))
       ELSE monPc' = "sleep" /\ UNCHANGED <<LPIDs, since, proc, target>>
  /\ UNCHANGED <<waitUntilCompleted, memCapSet, status, collecting, mainPc, spawned, crashes>>

\* The SIGINT wait loop ends: the process exited (is a zombie), or the
\* wait ran out and SIGTERM ends it.
KillWaitDone ==
  /\ monPc = "kill_wait"
  /\ proc[target] = "zombie"
  /\ monPc' = "kill_reap"
  /\ UNCHANGED <<waitUntilCompleted, memCapSet, status, LPIDs, since, collecting, proc, mainPc, spawned,
                 target, crashes>>

KillWaitTimeout ==
  /\ monPc = "kill_wait"
  /\ proc[target] \in Alive
  /\ proc' = [proc EXCEPT ![target] = "zombie"]
  /\ monPc' = "kill_reap"
  /\ UNCHANGED <<waitUntilCompleted, memCapSet, status, LPIDs, since, collecting, mainPc, spawned, target,
                 crashes>>

\* os.waitpid(pid, 0) clears the zombie.
KillReap ==
  /\ monPc = "kill_reap"
  /\ proc' = [proc EXCEPT ![target] = Waitpid(@)]
  /\ target' = NoPid
  /\ monPc' = "sleep"
  /\ UNCHANGED <<waitUntilCompleted, memCapSet, status, LPIDs, since, collecting, mainPc, spawned, crashes>>

\* time.sleep(MONITOR_PROCESS_EVERY_SECS)
MonitorSleep ==
  /\ monPc = "sleep"
  /\ since' = Tick
  /\ monPc' = "loop"
  /\ UNCHANGED <<waitUntilCompleted, memCapSet, status, LPIDs, collecting, proc, mainPc, spawned, target,
                 crashes>>

-----------------------------------------------------------------------------
(* Workers (spec 4.E) *)

\* A worker finishes initialising and signals 'started' to the logger.
WorkerStarted(p) ==
  /\ proc[p] = "init"
  /\ proc' = [proc EXCEPT ![p] = "running"]
  /\ status' = IF status = "starting" THEN "started" ELSE status
  /\ UNCHANGED <<waitUntilCompleted, memCapSet, LPIDs, since, collecting, mainPc, spawned, monPc, target,
                 crashes>>

\* After SIGINT a worker completes its in-flight call and exits.
WorkerExit(p) ==
  /\ proc[p] = "stopping"
  /\ proc' = [proc EXCEPT ![p] = "zombie"]
  /\ UNCHANGED <<waitUntilCompleted, memCapSet, status, LPIDs, since, collecting, mainPc, spawned, monPc,
                 target, crashes>>

WorkerCrash(p) ==
  /\ crashes < MaxCrashes
  /\ proc[p] \in CrashStates
  /\ proc' = [proc EXCEPT ![p] = "zombie"]
  /\ crashes' = crashes + 1
  /\ UNCHANGED <<waitUntilCompleted, memCapSet, status, LPIDs, since, collecting, mainPc, spawned, monPc,
                 target>>

-----------------------------------------------------------------------------

Init ==
  /\ waitUntilCompleted \in WaitModes
  /\ memCapSet \in MemCapModes
  /\ status = "stopped"
  /\ LPIDs = <<>>
  /\ since = 0
  /\ collecting = FALSE
  /\ proc = [p \in Pids |-> "free"]
  /\ mainPc = "init"
  /\ spawned = 0
  /\ monPc = "off"
  /\ target = NoPid
  /\ crashes = 0

Next ==
  \/ StartService \/ StartSpawn \/ StartWaitStarted \/ Interrupt
  \/ MonitorExit \/ MonitorReap \/ MonitorFloor \/ MonitorDecide
  \/ KillWaitDone \/ KillWaitTimeout \/ KillReap \/ MonitorSleep
  \/ \E p \in Pids : WorkerStarted(p) \/ WorkerExit(p) \/ WorkerCrash(p)

(***************************************************************************)
(* Threads and processes keep running (weak fairness on every step but    *)
(* the environment's: KeyboardInterrupt and crashes).  KillWaitTimeout is  *)
(* not fair: a stopping worker is given time to exit first.               *)
(***************************************************************************)
Fairness ==
  /\ WF_vars(StartService) /\ WF_vars(StartSpawn)
  /\ WF_vars(StartWaitStarted)
  /\ WF_vars(MonitorExit) /\ WF_vars(MonitorReap) /\ WF_vars(MonitorFloor)
  /\ WF_vars(MonitorDecide) /\ WF_vars(KillWaitDone) /\ WF_vars(KillReap)
  /\ WF_vars(MonitorSleep)
  /\ \A p \in Pids : WF_vars(WorkerStarted(p)) /\ WF_vars(WorkerExit(p))

Spec == Init /\ [][Next]_vars /\ Fairness

-----------------------------------------------------------------------------
(* Properties *)

TypeOK ==
  /\ waitUntilCompleted \in BOOLEAN /\ memCapSet \in BOOLEAN
  /\ status \in Statuses
  /\ LPIDs \in Seq(Pids)
  /\ since \in 0..SinceCap
  /\ collecting \in BOOLEAN
  /\ proc \in [Pids -> ProcStates]
  /\ mainPc \in MainPCs /\ monPc \in MonPCs
  /\ spawned \in 0..MinProc
  /\ target \in Pids \cup {NoPid}
  /\ crashes \in 0..MaxCrashes

SupervisorUp == mainPc /= "exited"

\* Spec 3: while the supervisor runs, its list of worker pids holds each
\* of its children exactly once: the living ones and the zombies not yet
\* reaped, except the one remove_child_process has already dropped.
TrackedChildren ==
  SupervisorUp =>
    /\ IsInjective(LPIDs)
    /\ ToSet(LPIDs) = {p \in Pids : proc[p] /= "free"} \ {target}

\* The supervisor never has more than max_proc_num living children,
\* counting one that is being stopped.
AliveWithinMax ==
  SupervisorUp => Cardinality({p \in Pids : proc[p] \in Alive}) <= MaxProc

\* Infinitely often at least min_proc_num tracked workers are serving:
\* crashed workers are reaped and replaced (spec 8, scenario 3).
FloorRestored ==
  []<>(~SupervisorUp \/ Cardinality({p \in ToSet(LPIDs) : proc[p] = "running"}) >= MinProc)


\* start_service waits in new_child_process for a 'started' that no worker
\* is left to signal: every worker it spawned died while initialising.
\* Nothing spawns while the main thread waits and the monitor is not yet
\* running, so this state is permanent.
StartStuck ==
  /\ mainPc = "wait_started"
  /\ status = "starting"
  /\ \A p \in Pids : proc[p] /= "init"

\* With wait_until_completed and no memory cap, FloorRestored holds in
\* every behaviour that does not run into StartStuck: once the monitor
\* runs, it reaps crashed workers and respawns until min_proc_num tracked
\* workers serve again.
FloorRestoredUnlessStuck ==
  (waitUntilCompleted /\ ~memCapSet) =>
    []<>(~SupervisorUp \/ StartStuck
         \/ Cardinality({p \in ToSet(LPIDs) : proc[p] = "running"}) >= MinProc)

=============================================================================
