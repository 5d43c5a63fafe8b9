# TLA+ models of shmrpc / speedysvc

This directory holds TLA+ models of the shared-memory RPC framework in
`src/` and the TLC configurations that check them.  `PROJECT.json` lists the
components, the runs, the mutants that show each property can fail, the
mapping from every definition to the source lines it translates, the findings
and the hazards.

## The system

* **Hybrid lock** (spec 4.A): a named semaphore that spins on a shared
  counter, then blocks on a kernel semaphore.  Only its tests are in `src/`.
* **RPC channel, client side**
  (`src/speedysvc/client_server/shared_memory/SHMClient.py`, `SHMBase.py`).
  One connection `(port, pid, qid)` is a shared region
  `service_{port}_{pid}_{qid}` plus a client lock (1 permit at creation) and
  a server lock (0 permits).  Byte 0 of the region is a tag: `CLIENT`,
  `PENDING`, `SERVER` or `INVALID`.  `send()`:
  1. takes the client lock;
  2. writes the request, growing the region first if the frame does not fit;
  3. sets `PENDING` and unlocks the server lock;
  4. spins while the tag is `PENDING`, then takes the server lock;
  5. reconnects while the tag is `INVALID`, reads the reply on `CLIENT`, and
     fails on any other tag;
  6. always unlocks the client lock.

  A grow re-creates the region under the same name, 1.5 × twice the frame,
  copies the tag, and marks the old mapping `INVALID`.
* **RPC channel, worker side** (spec 4.D; the worker module is not in
  `src/`).  Every worker waits on the connection's server lock, handles a
  `PENDING` request, writes the reply (growing the same way), sets `CLIENT`,
  and unlocks.
* **Supervisor**
  (`src/shmrpc/service_managers/multi_process_manager/MultiProcessManager.py`).
  * The main thread runs `start_service` from `__init__`.  With
    `wait_until_completed` it spawns `min_proc_num` workers, waiting for each
    to report `started`.  It then starts the monitor thread and sleeps.  On
    `KeyboardInterrupt` it calls `stop_service`.
  * The monitor loop, while the status is `started`, reaps zombie workers,
    restores the floor, and applies the memory cap, scale-up and scale-down
    rules.  `remove_child_process` sends SIGINT, waits, then sends SIGTERM
    and calls `waitpid`.
* **SHM socket RPC** (`src/network_tools/rpc/shared_memory/`:
  `shm_socket/SHMSocket.py`, `SHMServer.py`).  An `SHMSocket` is a
  one-item queue in shared memory guarded by two semaphores: `ntc`
  ("nothing to collect", created at 1) and `rtc` ("ready to collect", 0).
  `put` takes `ntc`, writes and releases `rtc`; `get` does the reverse.
  Several `SHMServer` processes get requests from one `to_server` socket.
  Each one's `__main` thread finds the client's reply socket in its cache
  `DToClientSockets`, connecting when absent, and puts the reply.  A reaper
  thread drops cached sockets that are idle or destroyed.  The clients of
  this transport are not in `src/`.
* **mmap sockets** (`src/network_tools/mmap_sockets/Client.py`,
  `src/mmap_sockets/Server.py`).  A client takes the first free lock file
  `0..MAX_CONNECTIONS` with `flock`, maps that connection's file, and talks
  through a state word (`zero`, `data to client`, `cmd to server`) and a
  payload, all polled without locks.  One server thread per connection
  polls for a command and writes the reply.  The SIGTERM handler the
  client installs takes no arguments, so a SIGTERM ends the client with a
  TypeError.
* **Supervisor, network_tools copy**
  (`src/network_tools/service_managers/multi_process_manager/`).  The
  same role, without a start phase or status.  One monitor thread runs the
  loop.  When fewer than `min_proc_num` pids are tracked, it starts
  `new_proc` in a new thread; on load, it runs `new_proc` or
  `remove_proc` itself.  `new_proc` forks and then appends the pid.  The
  child starts its providers with `init_resources` true when its copy of
  `LPIDs` was empty.  Nothing but `remove_proc` waits on children.
* **Logger server** (`src/shmrpc/logger/std_logging/LoggerServer.py`).  The
  supervisor process runs one per service.  Workers call its handlers over
  the SHM channel, one server thread per connection.  `_write_to_log_`
  writes an entry to the buffered stdout or stderr file under that file's
  lock, sets `flush_needed`, and appends to the FIFO JSON log.  `__init__`
  starts the SHM server, sets `flush_needed = False`, and starts
  `__flush_loop`.  That function checks the flag once, flushes the three
  logs, clears the flag, sleeps and returns.
* Older copies of the channel client (`network_tools/…/SHMClient.py`) and
  of the logger, the service registry and the TCP transport are listed in
  `PROJECT.json` and not modelled.

The channel and the supervisor interact only through the worker processes:
the supervisor creates and removes the workers that serve channels.  The
SHM socket and mmap transports are independent of these and of each
other.  Within each transport, the clients and server threads that share
a buffer are composed in one module.

## Modules

### `SHMChannel` (one connection, client threads and workers)

* **State.** The region is a sequence of *generations*: `gen` is the one the
  name currently denotes.  For each generation, `tag[g]`, `size[g]` and
  `data[g]` hold byte 0, the length, and the frame after byte 0.  A frame is
  abstracted to which call's request or response it is.
* **Mappings.** `clientMap` is `self.mmap` of the shared client object.
  `tmap[t]` is thread `t`'s local `mmap`, and `wmap[w]` is the generation
  worker `w` has mapped.
* **Locks.** `clientLock` and `serverLock` are semaphore values.
* **History.** `returned` and `failures` record what `send()` returned and
  which exceptions it raised.
* **Not claimed: at-most-once execution.**  `ServerWake` tests `PENDING`
  and marks `SERVER` in one step.  That is an assumption about the worker
  loop, which is not in the repository, and spec 4.D has no `SERVER` mark.
  Once a timeout leaves a spare server-lock permit, two worker processes
  could both read `PENDING`.  So no property claims a handler runs at most
  once (hazard at `SHMClient.py:97`).

Each client action is one step of `send()`:
`Call` (encoding), `LockClient`, `LockClientTimeout`, `SendRequest`,
`SpinDone`, `SpinTimeout`, `LockServer`, `Reconnect`, `ReadResponse` and
`ProtocolError`.  `SendRequest` includes the whole of `__resize_mmap`, and
its failing assertion is one branch.  The worker actions are `ServerWake`,
`ServerSpurious` (the server lock was free but nothing is pending) and
`ServerReply`.  Constants:

* `TimeoutEnabled`: whether callers pass a timeout.
* `ReleaseAfterReply`: the worker unlocks the server lock after replying.
  That is what `send()` needs, since it takes the server lock itself once
  the tag flips.  Spec 4.C/4.D literally say the client lock; that
  reading is the mutant `ReleaseAfterReplySpec`, which breaks
  `ClientSerialised`.
* `Untimed`: no call has timed out yet.  `failures` only grows, so a
  property `Untimed => P` states `P` of every behaviour without a timeout,
  and one run covers both the timeout-free claims and those that hold
  with timeouts.

### `NTMultiProcessManager` (the network_tools supervisor)

* **State.** `proc`, `LPIDs`, `since` and `target` are as in
  `MultiProcessServer`, without init or status.  `npc[r]` and `npid[r]`
  are the position and forked pid of each `new_proc` run.  The runs are
  the floor threads (`Spawners`) and the monitor itself (`Mon`).
  `clobbered` (a ghost) collects children that were alive when a later
  child initialised the shared resources.
* **Actions.**
  * `MonitorScan` is lines 75-82: drop pids that no longer exist, then
    start a floor thread while `BelowFloor(len(LPIDs))` (line 79).  Since a
    zombie exists for psutil, nothing is ever dropped there.
  * `MonitorDecide` is the elif chain, including `remove_proc()`'s
    IndexError on an empty list, which ends the thread (`dead`).
  * `NewProcFork` and `NewProcRecord` are `new_proc`.
  * `RemoveTerm` and `RemoveReap` are `remove_proc`'s signals and its
    wait.
  * `WorkerCrash` and `WorkerExit` are the environment.

### `LoggerServer` (logger of a service)

* **State.**
  * `mainPc` is `__init__`, and `serving` says the SHM server is up.
  * `fpc` is the flush thread.  `cpc[c]` is each connection thread's
    position inside `_write_to_log_`.
  * `flushNeeded` is `self.flush_needed`.
  * `dirty[f]`, for stdout, stderr and the JSON log, says the file holds
    entries not yet flushed.
  * `stats` and `loadedOk` are the other handlers' effects.
* **Actions.**
  * Each locked critical section is one step, because the locks serialise
    it with the flush of the same file.
  * `WriteStream` is the locked write plus the flag.  `WriteFifo` is the
    JSON write outside the locks.
  * `FlushCheck` ... `FlushSleep` are the single pass of `__flush_loop`.
  * `StartServer`, `ClearFlag` and `StartFlusher` are the end of
    `__init__`.
* **Bounds.** `MaxWrites` bounds the `_write_to_log_` calls.

### `MultiProcessServer` (supervisor with its workers)

* `proc[p]` is the OS state of process id `p`: free, init, running,
  stopping or zombie.  Pids are reused once reaped.
* `LPIDs` is the supervisor's list.  `since` counts monitor periods since
  `last_proc_op_time`, and saturates once every window comparison is
  decided.
* `mainPc` and `monPc` are the two threads.  `target` is the pid that
  `remove_child_process` is stopping.
* The logger's averages are a nondeterministic `Samples` record: whether
  there is data, and whether the memory, scale-up and scale-down conditions
  hold.
* `waitUntilCompleted` and `memCapSet` (whether `max_proc_mem_bytes` is
  set) are chosen at start from the constants `WaitModes` and
  `MemCapModes`, so one run covers every mode.  `FloorRestoredUnlessStuck`
  makes its claim only for the mode it is about.
* `Interrupt` is a KeyboardInterrupt, uncaught during `__init__` or caught
  by `__main__`'s sleep loop (lines 364-375), which calls `stop_service`.
  `StopService` is that call: its assertion compares the logger client
  with a string and always fails, so the process ends with no worker
  removed.  `restart_service` has no caller and would fail the same way.
* Workers (`WorkerStarted`, `WorkerExit`, `WorkerCrash`) follow spec 4.E.
  Crashes are bounded by `MaxCrashes` and allowed in `CrashStates`.

### `SHMSocketRPC` (SHM sockets, server processes and clients)

* **State.**
  * `sock[s]`: the `ntc` and `rtc` values, the slot and the destroyed flag
    of `to_server` and of each client's reply socket.
  * `mpc[v]`, `req[v]` and `cache[v]`: each server's `__main` position,
    last request and `DToClientSockets`.
  * `rpc[v]` and `reapList[v]`: its reaper's position and the list of its
    current pass.
  * `used[v]`: sockets touched since the reaper's last pass.  Only sockets
    outside it may be judged idle, because wall-clock idleness is not
    modelled otherwise.
* **Actions.**
  * `put` and `get` are split at each semaphore operation: `ClientPutLock`,
    `ClientPutWrite`, `ClientPutSignal`, `ClientGetLock`, `ClientGetRead`,
    and the server's `ServerGet*` and `ServerPut*`.
  * `ServerGetSocket` is the whole of `__get_client_socket`.  It reconnects
    to a destroyed socket with `init_resources=False`, and that step fails
    and ends the thread (`dead`).
  * `ClientExit` is `SHMSocket.__del__` of the owning client.
  * `ServerSigint` and `ServerShutCheck` are the SIGINT handler and the
    loop test.  `ReapScan`, `ReapDel` and `ReapSleep` are the reaper.
* **Constants.** `IdleTimeouts`, `ClientExits` and `Sigints` switch the
  environment events on.
* **Refinement.** `SlotQueue` is the abstract specification: per socket, a
  FIFO of capacity one.  `SQ == INSTANCE SlotQueue WITH ...` maps each
  socket's slot and semaphores to its queue (`QueueOf`), and each actor's
  last read (`got`, `req`) to `recv`.  `SlotQueueSpec` is checked as a
  property.

### `MmapSocket` (mmap clients and server threads)

* **State.**
  * `flock[x]`: the holder of lock file `x`.
  * `files`: connections whose file a server thread has created.
  * `st[x]` and `buf[x]`: the state word and the payload.
  * `spc[x]` and `sreq[x]`: server thread `x`'s position, and the request it
    saw with the command (a ghost).
  * `cpc[c]`, `cx[c]` and `sent[c]`: each client process.
  * `disturbed` (ghost): connections a client that died used.
  * `returned` (ghost): every `send()` result, with the request it was for.
* **Client actions.**
  * `AcquireLock` is one iteration of `_acquire_lock`'s loop.
  * `OpenAndInit` is `__init__` after the lock: open the file once it
    exists, then reset the state word.
  * `SendWrite`, `SendCheck` (the assertion) and `SendSignal` are `send()`,
    and `Recv` is `__recv`.
  * `ExitHandler` is a SIGTERM or SIGABRT once the handler is installed.
    `set_exit_handler` registers `self._release_lock`, which takes no
    argument, so Python's call with `(signum, frame)` raises TypeError
    before anything is unlocked.  Nothing catches it, and the process ends
    as in `Kill`.
  * `Kill` is a death: the OS drops the process's locks.
* **Server actions.** `ServerStart`, `ServerPoll`, `ServerWrite` (lines
  43-45), `ServerCheck` (the assert at line 46) and `ServerSignal` are
  `Server.main` for each served connection `0..MAX_CONNECTIONS-1`.  The
  assert reads `amount_int` back from the shared mapping.  If a client has
  written its own request since, the assert fails and the thread dies.

## Runs

| run | cfg | expect | shows |
|---|---|---|---|
| channel | SHMChannel.cfg | pass | with caller timeouts. Until the first timeout: `NoProtocolError`, no assertion or impossible tag across grows on both sides; `UntimedResponsesMatch`, each call gets its own response; `CallsReturn`, every handed-over request is answered. Throughout: `ClientSerialised`, one thread at a time inside `send()` |
| channel_timeout | SHMChannel_timeout.cfg | violation | a timed-out call leaves its request and a server permit behind. A worker takes the old request before the next call writes; the next call then writes over it, the worker's old reply overwrites the new request, and the next call returns the old reply |
| supervisor | MultiProcessServer.cfg | pass | `TrackedChildren`: LPIDs holds each child exactly once; `AliveWithinMax`: at most `max_proc_num` alive; `FloorRestoredUnlessStuck`: with `wait_until_completed` and no memory cap, crashed workers are replaced unless `start_service` is stuck waiting for a dead worker (the case `supervisor_init_crash` shows) |
| supervisor_init_crash | MultiProcessServer_initcrash.cfg | violation | a worker dying in init hangs `start_service` |
| nt_supervisor | NTMultiProcessManager.cfg | pass | `ChildrenTracked`: every child is held by exactly one of LPIDs, an unfinished `new_proc`, or `remove_proc`. `FloorTracked`: until the monitor dies, LPIDs keeps coming back to `min_proc_num`, through the scan's floor thread alone when the logger has no load data. This is the only way back after the memory-cap branch, which comes first in the elif chain and removes at any count. |
| nt_supervisor_init | NTMultiProcessManager_init.cfg | violation | a floor thread and the monitor's own `new_proc` fork while LPIDs is empty: two children initialise the shared sockets |
| logger_flush | LoggerServer.cfg | violation | `WritesFlushed`: an entry logged before `__init__` clears `flush_needed` is never flushed, because the flag is cleared over it and the flush thread makes only one pass |
| socket_rpc | SHMSocketRPC.cfg | pass | `TypeOK`: both semaphores of every socket stay 0 or 1; `ReplyMatches`: a client reads only its own reply to its latest request, with two servers racing; `RequestsAnswered`: every request is answered |
| socket_rpc_queue | SHMSocketRPC_queue.cfg | pass | `SlotQueueSpec`: with idle reaping, exits and SIGINT, every socket refines the one-item queue |
| socket_rpc_exit | SHMSocketRPC_exit.cfg | violation | a client exiting with a queued request kills the server's `__main` thread |
| mmap_socket | MmapSocket.cfg | pass | `UndisturbedRepliesMatch`: a call on a connection no client death touched gets its own answer; `SendsReturn`: on such a connection a signalled call returns unless its client dies. After a death, a takeover client's write can fail the server's assert at `Server.py:46` and end the thread; TLC reaches that here. |
| mmap_socket_reuse | MmapSocket_reuse.cfg | violation | the next holder of a dead client's connection reads the late reply to the dead client's command |

The `channel`, `supervisor` and `socket_rpc` runs also check their module's
`TypeOK`.  `nt_supervisor` and `mmap_socket` do not: no plausible change to
the code they model makes their type invariants fail.  `PROJECT.json` records
what each violation shows ("findings"), and lists the other hazards with
the properties that cover them.  Some hazards are described there with a
note and not kept as runs: the monitor exiting at once when
`wait_until_completed=False`, the network_tools supervisor's scale-up
off-by-one and its `IndexError` on an empty `LPIDs`, the reaper racing
`__get_client_socket`, and the mmap lock file no server thread serves.
TLC reaches each of them, but every run slot is in use.  The memory cap
may drop the pool below `min_proc_num`, as spec rule 4 prescribes.
`stop_service` asserts `self.logger_client == 'started'`, which always
fails.

Every property of a passing run has a mutant in `PROJECT.json`: a
plausible bug in the mapped definition under which TLC finds that property
violated.

## Bounds and why they suffice

* **Channel:** 2 threads, 2 workers, 3 calls, 3 generations, and an initial
  size of 4.  Request lengths are {1, 4} and response lengths {1, 12}.
  * Both sides grow: a request of 4 does not fit in 4, and a response of 12
    does not fit in 6.
  * A grow by the worker can be followed by a grow by the client on the next
    call.
  * Two threads contend for the lock, and two workers race for the server
    lock.
  * Timeouts are on, so the same run explores what a timeout leaves
    behind for `ClientSerialised`.
* **Supervisor:** 3 pids, `min_proc_num`=1 and `max_proc_num`=2, so one
  worker can be stopping while two others run, and pids get reused.  The
  windows are 0 and 1 periods, and there are 2 crashes.  Both wait modes
  and both memory-cap settings are explored.
* **Logger:** 2 connection threads and 3 writes.  One write can land
  before `ClearFlag`, and another between two flush steps, while a
  second call is in progress.
* **network_tools supervisor:** 3 pids, `min_proc_num`=1 and
  `max_proc_num`=2, one floor thread besides the monitor's own `new_proc`,
  a memory cap, and 2 crashes.  The race at startup needs only one floor
  thread.  The scan waits while that thread is still busy, which bounds
  the number of threads in flight.  Three pids allow `max_proc_num`+1
  children.
* **SHM socket RPC:** 2 clients with 2 requests each.
  * `socket_rpc` has two servers.  Both may take requests from
    `to_server`, and a server's cache can lack a socket the other one
    connected to.
  * `socket_rpc_queue` has one server, with idle reaping, exits and SIGINT.
    The same events with two servers take more than five minutes.  The
    queue discipline of a socket does not depend on how many servers get
    from it: one server and two clients still share `to_server` among
    three actors.
* **mmap sockets:** 2 clients, `MAX_CONNECTIONS`=2, 2 calls each.  Every
  client can take either connection, so after a death the other client can
  take over a connection with a call in flight.  The off-by-one at the
  lock file `MAX_CONNECTIONS` needs more clients than connections.  With
  `MaxConn`=1 TLC finds the second client waiting forever for file 1; no run
  keeps that configuration.

## Fairness

* Client threads, workers and the supervisor's threads are OS-scheduled, so
  their steps are weakly fair.
* The client's `LockServer` is strongly fair.  Workers repeatedly take and
  release the server lock on spurious wakes.  Spec 4.D requires the server
  lock's waiters to be served fairly ("so long as fairness is bounded").
* In `SHMSocketRPC`, `ClientPutLock` is strongly fair: clients and servers
  contend for `to_server`'s `ntc`, which a waiter can find taken each time
  it looks.
* In `MmapSocket`, a client's `send()` itself is not fair, because whether a
  program calls it is the program's choice.  Once called, its steps are
  weakly fair, and so is each server thread's loop.
* In `LoggerServer`, the main thread, the flush thread and a write that
  has started are weakly fair.  Whether workers log at all is their
  choice, so `WriteStream` is not fair.
* Environment events are not fair: timeouts, crashes, KeyboardInterrupt, SIGINT,
  SIGTERM, client exits and deaths, and idle timeouts.

## Not modelled

* The hybrid lock's spin/block internals: planned as a module refining a
  semaphore.
* Resource registration (`new_qid`, `__del__`), codecs, exception decoding.
* Unrelated processes receiving signals for reused pids.
* The clients of the SHM socket RPC (not in `src/`): modelled from what
  the server expects of them.
* The mmap mapping's resize (the 100MB file never grows), the poll loops'
  back-off, and short writes behind `Server.main`'s amount assertion.
  `Server.py` is Python 2 code and starts `main` without its `thread_num`
  argument.  The model runs the one thread per connection that `main`
  evidently intends.
* In the network_tools supervisor: the time-series bookkeeping
  (`add_pid`, `remove_pid`), and what a forked child's providers do beyond
  choosing `init_resources`.  Whether crashed workers are eventually
  replaced depends on the load samples, which the model leaves free, so no
  liveness property is stated about live workers.  `FloorTracked` counts
  tracked pids, zombies included.
* In the logger: `FIFOJSONLog` and `dict_to_log_entry` are not in the
  repository.  A JSON write and a JSON flush are each one step, so the
  model does not see a torn interleaving inside the class.
  `get_D_method_stats` has no caller.  The network_tools logger copy has
  the same `__init__` and `__flush_loop`, without the JSON log.
* The network_tools channel client copy.  It differs from the modelled
  client in one way that matters: on `INVALID` it reconnects only the local
  `mmap` (line 83), leaving `self.mmap` on the old region.  That is the
  `SHMChannel` mutant `ReconnectLocalOnly`,
  under which `CallsReturn` fails.
* The service registry (`src/shmrpc/service.py`).  Apart from parsing,
  `__run_multi_proc_server` passes `fifo_json_log_parent` to
  `LoggerServer`, whose `__init__` has no such parameter.  So with this
  repository's logger, every first start of a service raises `TypeError`
  before a supervisor process is launched or recorded.  Because no service
  is ever recorded, the SIGINT handler's counter of waiting threads never
  has a thread to count, so its unsynchronised updates are not a hazard of
  this repository.
* The TCP transport (`NetworkServer`, `NetworkClient`).  The spec places it
  out of scope, its packers are not in the repository, and the client and
  server come from two versions with different framing.  Its server's
  short-read and closed-connection hazards are listed in `PROJECT.json`.
