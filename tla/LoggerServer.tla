---------------------------- MODULE LoggerServer ----------------------------
(***************************************************************************)
(* The per-service logger of shmrpc: class LoggerServer in                *)
(* src/shmrpc/logger/std_logging/LoggerServer.py.  The supervisor's main  *)
(* thread runs __init__, which starts the SHM server and then the flush   *)
(* thread __flush_loop.  The SHM server serves each worker connection on  *)
(* its own thread (spec 4.D (a)), so the handlers _write_to_log_,         *)
(* _update_method_stats_ and _loaded_ok_signal_ run concurrently with     *)
(* each other and with the flusher.                                       *)
(*                                                                         *)
(* A file is dirty when it holds entries written since it was last        *)
(* flushed: stdout and stderr are opened with an 8192-byte buffer, and    *)
(* the FIFO JSON log keeps its entries in memory until flush().  Each     *)
(* critical section under stdout_lock or stderr_lock is one step (the     *)
(* locks serialise it with the flusher's flush of the same file); the     *)
(* FIFO JSON log write, which is outside both locks, is a step of its own.*)
(***************************************************************************)
EXTENDS Naturals

CONSTANTS
  Conns,      \* connection threads of the logger's SHM server
  Pids,       \* worker pids that report method statistics
  MaxWrites   \* bound on _write_to_log_ calls

ASSUME MaxWrites \in Nat

Streams == {"stdout", "stderr"}   \* log_entry.writes_to
Files   == Streams \cup {"json"}   \* f_stdout, f_stderr, fifo_json_log

MainPCs  == {"start_server", "clear_flag", "start_flusher", "done"}
FlushPCs == {"off", "check", "flush_stderr", "flush_stdout", "flush_json",
             "clear", "sleep", "done"}
ConnPCs  == {"idle", "fifo"}

VARIABLES
  mainPc,       \* __init__ of the main thread
  serving,      \* self.shm_server is accepting calls
  flushNeeded,  \* self.flush_needed
  dirty,        \* dirty[f]: f holds entries not yet flushed
  fpc,          \* the __flush_loop thread
  cpc,          \* cpc[c]: connection thread c inside _write_to_log_
  writes,       \* _write_to_log_ calls so far
  stats,        \* DOMAIN of self.DMethodStats
  loadedOk      \* self.loaded_ok

vars == <<mainPc, serving, flushNeeded, dirty, fpc, cpc, writes, stats, loadedOk>>

-----------------------------------------------------------------------------
(* Main thread: __init__ *)

\* Files opened, FIFO JSON log created; self.shm_server(...) starts serving.
StartServer ==
  /\ mainPc = "start_server"
  /\ serving' = TRUE
  /\ mainPc' = "clear_flag"
  /\ UNCHANGED <<flushNeeded, dirty, fpc, cpc, writes, stats, loadedOk>>

\* self.flush_needed = False, after the server is already up.
ClearFlag ==
  /\ mainPc = "clear_flag"
  /\ flushNeeded' = FALSE
  /\ mainPc' = "start_flusher"
  /\ UNCHANGED <<serving, dirty, fpc, cpc, writes, stats, loadedOk>>

\* start_new_thread(self.__flush_loop, ())
StartFlusher ==
  /\ mainPc = "start_flusher"
  /\ fpc' = "check"
  /\ mainPc' = "done"
  /\ UNCHANGED <<serving, flushNeeded, dirty, cpc, writes, stats, loadedOk>>

-----------------------------------------------------------------------------
(* Flush thread: __flush_loop, one pass and no loop around it *)

FlushCheck ==
  /\ fpc = "check"
  /\ fpc' = IF flushNeeded THEN "flush_stderr" ELSE "sleep"
  /\ UNCHANGED <<mainPc, serving, flushNeeded, dirty, cpc, writes, stats, loadedOk>>

\* Flushing file f under its lock(s), then going on to the next step.
FlushFile(from, f, to) ==
  /\ fpc = from
  /\ dirty' = [dirty EXCEPT ![f] = FALSE]
  /\ fpc' = to
  /\ UNCHANGED <<mainPc, serving, flushNeeded, cpc, writes, stats, loadedOk>>

\* with stderr_lock: f_stderr.flush(); with stdout_lock: f_stdout.flush();
\* with stdout_lock, stderr_lock: fifo_json_log.flush()
FlushStderr == FlushFile("flush_stderr", "stderr", "flush_stdout")
FlushStdout == FlushFile("flush_stdout", "stdout", "flush_json")
FlushJson   == FlushFile("flush_json", "json", "clear")

\* self.flush_needed = False, outside every lock.
FlushClear ==
  /\ fpc = "clear"
  /\ flushNeeded' = FALSE
  /\ fpc' = "sleep"
  /\ UNCHANGED <<mainPc, serving, dirty, cpc, writes, stats, loadedOk>>

\* time.sleep(FLUSH_EVERY_SECONDS); the function returns and the thread ends.
FlushSleep ==
  /\ fpc = "sleep"
  /\ fpc' = "done"
  /\ UNCHANGED <<mainPc, serving, flushNeeded, dirty, cpc, writes, stats, loadedOk>>

-----------------------------------------------------------------------------
(* Connection threads: the logger's RPC handlers *)

\* _write_to_log_: the entry goes to stdout or stderr by its level, under
\* that stream's lock, and flush_needed is set.  (dict_to_log_entry is not
\* in the repository; its writes_to is taken to be one of the two, so the
\* "Unknown writes_to" raise is not reached.)
WriteStream(c) ==
  /\ serving /\ cpc[c] = "idle" /\ writes < MaxWrites
  /\ \E s \in Streams : dirty' = [dirty EXCEPT ![s] = TRUE]
  /\ flushNeeded' = TRUE
  /\ cpc' = [cpc EXCEPT ![c] = "fifo"]
  /\ writes' = writes + 1
  /\ UNCHANGED <<mainPc, serving, fpc, stats, loadedOk>>

\* ... then fifo_json_log.write_to_log(...), holding no lock.
WriteFifo(c) ==
  /\ cpc[c] = "fifo"
  /\ dirty' = [dirty EXCEPT !["json"] = TRUE]
  /\ cpc' = [cpc EXCEPT ![c] = "idle"]
  /\ UNCHANGED <<mainPc, serving, flushNeeded, fpc, writes, stats, loadedOk>>

\* _update_method_stats_: self.DMethodStats[pid] = DMethodStats
UpdateMethodStats(c) ==
  /\ serving /\ cpc[c] = "idle"
  /\ \E p \in Pids : stats' = stats \cup {p}
  /\ UNCHANGED <<mainPc, serving, flushNeeded, dirty, fpc, cpc, writes, loadedOk>>

\* _loaded_ok_signal_: self.loaded_ok = True
LoadedOkSignal(c) ==
  /\ serving /\ cpc[c] = "idle" /\ ~loadedOk
  /\ loadedOk' = TRUE
  /\ UNCHANGED <<mainPc, serving, flushNeeded, dirty, fpc, cpc, writes, stats>>

-----------------------------------------------------------------------------

\* Before self.shm_server(...) runs no call is served; flush_needed is
\* first read by the flusher, after __init__ has assigned it.
Init ==
  /\ mainPc = "start_server"
  /\ serving = FALSE
  /\ flushNeeded = FALSE
  /\ dirty = [f \in Files |-> FALSE]
  /\ fpc = "off"
  /\ cpc = [c \in Conns |-> "idle"]
  /\ writes = 0
  /\ stats = {}
  /\ loadedOk = FALSE

Next ==
  \/ StartServer \/ ClearFlag \/ StartFlusher
  \/ FlushCheck \/ FlushStderr \/ FlushStdout \/ FlushJson \/ FlushClear
  \/ FlushSleep
  \/ \E c \in Conns :
       WriteStream(c) \/ WriteFifo(c) \/ UpdateMethodStats(c) \/ LoadedOkSignal(c)

(***************************************************************************)
(* The main thread and the flush thread keep running (weak fairness on    *)
(* their steps).  A connection thread finishes the call it is in, but     *)
(* workers need not log at all.                                           *)
(***************************************************************************)
Fairness ==
  /\ WF_vars(StartServer) /\ WF_vars(ClearFlag) /\ WF_vars(StartFlusher)
  /\ WF_vars(FlushCheck) /\ WF_vars(FlushStderr) /\ WF_vars(FlushStdout)
  /\ WF_vars(FlushJson) /\ WF_vars(FlushClear) /\ WF_vars(FlushSleep)
  /\ \A c \in Conns : WF_vars(WriteFifo(c))

Spec == Init /\ [][Next]_vars /\ Fairness

-----------------------------------------------------------------------------
(* Properties *)

TypeOK ==
  /\ mainPc \in MainPCs /\ fpc \in FlushPCs /\ cpc \in [Conns -> ConnPCs]
  /\ serving \in BOOLEAN /\ flushNeeded \in BOOLEAN /\ loadedOk \in BOOLEAN
  /\ dirty \in [Files -> BOOLEAN]
  /\ writes \in 0..MaxWrites
  /\ stats \subseteq Pids

\* The docstring of __flush_loop: files are flushed periodically, so every
\* entry written to stdout, stderr or the FIFO JSON log eventually reaches
\* its file.
WritesFlushed == \A f \in Files : dirty[f] ~> ~dirty[f]

=============================================================================
