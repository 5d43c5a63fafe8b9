---------------------------- MODULE SHMSocketRPC ----------------------------
(***************************************************************************)
(* The SHMSocket transport of network_tools                               *)
(* (src/network_tools/rpc/shared_memory/shm_socket/SHMSocket.py and       *)
(* SHMServer.py).  An SHMSocket is a one-item queue in shared memory,     *)
(* guarded by two hybrid semaphores: ntc ("nothing to collect", created   *)
(* at 1) and rtc ("ready to collect", created at 0).  put takes ntc,      *)
(* writes the slot and releases rtc; get takes rtc, reads the slot and    *)
(* releases ntc.                                                          *)
(*                                                                         *)
(* Several SHMServer processes share the socket to_server_{port}.  Each   *)
(* runs a __main thread that gets a request, finds the reply socket       *)
(* from_server_{port}_{client_id} in its cache DToClientSockets           *)
(* (connecting to it when absent) and puts the reply; and a               *)
(* __reap_client_sockets thread that drops cached sockets that are idle   *)
(* for client_timeout seconds or destroyed.  The clients of this          *)
(* transport are not in the repository: they are modelled from the        *)
(* server's expectations (put a request tagged with the client id, then   *)
(* get the reply; on exit, SHMSocket.__del__ destroys the reply socket    *)
(* the client created).  Wall-clock idleness is a nondeterministic choice  *)
(* of the reaper, enabled by IdleTimeouts.                                 *)
(***************************************************************************)
EXTENDS Integers, FiniteSets

CONSTANTS
  Clients,             \* client ids; client c owns socket c (from_server_c)
  Servers,             \* SHMServer processes sharing to_server
  MaxReq,              \* requests per client
  IdleTimeouts,        \* a cached socket may be idle longer than client_timeout
  ClientExits,         \* a client may exit (destroying its reply socket)
  Sigints,             \* servers may receive SIGINT
  NoMsg                \* an empty slot / nothing read yet

ToServer == "to_server"
Sockets == {ToServer} \cup Clients

ASSUME
  /\ ToServer \notin Clients
  /\ MaxReq \in Nat \ {0}
  /\ {IdleTimeouts, ClientExits, Sigints} \subseteq BOOLEAN

Requests == [kind : {"req"}, from : Clients, n : 1..MaxReq]
Replies  == [kind : {"rep"}, to : Clients, n : 1..MaxReq]
Msgs     == Requests \cup Replies

VARIABLES
  sock,      \* sock[s]: the semaphores, slot and destroyed flag of socket s
  cpc,       \* cpc[c]: where client c is
  sent,      \* sent[c]: requests client c has made
  got,       \* got[c]: the last reply client c read
  mpc,       \* mpc[v]: where server v's __main thread is
  req,       \* req[v]: the request __main of server v last read
  cache,     \* cache[v]: client ids in server v's DToClientSockets
  rpc,       \* rpc[v]: where server v's reaper thread is
  reapList,  \* reapList[v]: the list L of its current pass
  used,      \* used[v]: cached sockets created or put to since its last pass
  shutMeDown \* shutMeDown[v]: self.shut_me_down of server v

vars == <<sock, cpc, sent, got, mpc, req, cache, rpc, reapList, used,
          shutMeDown>>

ClientPCs == {"idle", "put_lock", "put_write", "put_signal", "get_lock",
              "get_read", "exited"}
MainPCs   == {"get_lock", "get_read", "get_socket", "return_socket",
              "put_lock", "put_write", "put_signal", "shut_check", "exited",
              "dead"}

-----------------------------------------------------------------------------
(* SHMSocket.put and SHMSocket.get, one semaphore operation per step *)

\* Mutant: put leaves out self.ntc_mutex.lock().
NtcAcquireSkipped(s) == UNCHANGED sock

\* Mutant: the lock gives up instead of blocking (as a timed-out wait
\* would) and put goes on to write.
NtcAcquireNoBlock(s) == sock' = [sock EXCEPT ![s].ntc = IF @ > 0 THEN @ - 1 ELSE 0]

\* put: self.ntc_mutex.lock()
NtcAcquire(s) ==
  /\ sock[s].ntc >= 1
  /\ sock' = [sock EXCEPT ![s].ntc = @ - 1]

\* put: length and data are written to the mapped file.
WriteSlot(s, m) == sock' = [sock EXCEPT ![s].slot = m]

\* put: self.rtc_mutex.unlock()
RtcRelease(s) == sock' = [sock EXCEPT ![s].rtc = @ + 1]

\* get: self.rtc_mutex.lock()
RtcAcquire(s) ==
  /\ sock[s].rtc >= 1
  /\ sock' = [sock EXCEPT ![s].rtc = @ - 1]

\* Mutant: get releases the wrong semaphore.
NtcReleaseSwapped(s) == sock' = [sock EXCEPT ![s].rtc = @ + 1]

\* Mutant: get never releases ntc.
NtcReleaseMissing(s) == UNCHANGED sock

\* get: the slot has been read; self.ntc_mutex.unlock()
NtcRelease(s) == sock' = [sock EXCEPT ![s].ntc = @ + 1]

\* get_sockets_destroyed: a lock of the socket was destroyed.
Destroyed(s) == sock[s].destroyed

-----------------------------------------------------------------------------
(* Clients (modelled from what SHMServer expects of them) *)

ClientMove(c, from, to) ==
  /\ cpc[c] = from
  /\ cpc' = [cpc EXCEPT ![c] = to]

ClientRequest(c) ==
  /\ sent[c] < MaxReq
  /\ ClientMove(c, "idle", "put_lock")
  /\ sent' = [sent EXCEPT ![c] = @ + 1]
  /\ UNCHANGED <<sock, got, mpc, req, cache, rpc, reapList, used, shutMeDown>>

ClientPutLock(c) ==
  /\ ClientMove(c, "put_lock", "put_write")
  /\ NtcAcquire(ToServer)
  /\ UNCHANGED <<sent, got, mpc, req, cache, rpc, reapList, used, shutMeDown>>

ClientPutWrite(c) ==
  /\ ClientMove(c, "put_write", "put_signal")
  /\ WriteSlot(ToServer, [kind |-> "req", from |-> c, n |-> sent[c]])
  /\ UNCHANGED <<sent, got, mpc, req, cache, rpc, reapList, used, shutMeDown>>

ClientPutSignal(c) ==
  /\ ClientMove(c, "put_signal", "get_lock")
  /\ RtcRelease(ToServer)
  /\ UNCHANGED <<sent, got, mpc, req, cache, rpc, reapList, used, shutMeDown>>

ClientGetLock(c) ==
  /\ ClientMove(c, "get_lock", "get_read")
  /\ RtcAcquire(c)
  /\ UNCHANGED <<sent, got, mpc, req, cache, rpc, reapList, used, shutMeDown>>

ClientGetRead(c) ==
  /\ ClientMove(c, "get_read", "idle")
  /\ got' = [got EXCEPT ![c] = sock[c].slot]
  /\ NtcRelease(c)
  /\ UNCHANGED <<sent, mpc, req, cache, rpc, reapList, used, shutMeDown>>

\* A client exits between calls or while waiting for a reply; the
\* SHMSocket it created is destroyed by __del__ (init_resources=True).
ClientExit(c) ==
  /\ ClientExits
  /\ cpc[c] \in {"idle", "get_lock"}
  /\ cpc' = [cpc EXCEPT ![c] = "exited"]
  /\ sock' = [sock EXCEPT ![c].destroyed = TRUE]
  /\ UNCHANGED <<sent, got, mpc, req, cache, rpc, reapList, used, shutMeDown>>

-----------------------------------------------------------------------------
(* SHMServer.__main, one thread per server process *)

MainMove(v, from, to) ==
  /\ mpc[v] = from
  /\ mpc' = [mpc EXCEPT ![v] = to]

\* data = self.to_server_socket.get(timeout=None)
ServerGetLock(v) ==
  /\ MainMove(v, "get_lock", "get_read")
  /\ RtcAcquire(ToServer)
  /\ UNCHANGED <<cpc, sent, got, req, cache, rpc, reapList, used, shutMeDown>>

ServerGetRead(v) ==
  /\ MainMove(v, "get_read", "get_socket")
  /\ req' = [req EXCEPT ![v] = sock[ToServer].slot]
  /\ NtcRelease(ToServer)
  /\ UNCHANGED <<cpc, sent, got, cache, rpc, reapList, used, shutMeDown>>

\* __get_client_socket up to its return: a cached socket whose locks were
\* destroyed is deleted; an absent one is connected to with
\* init_resources=False, which raises (uncaught) when the client's shared
\* memory has been unlinked.
ServerGetSocket(v) ==
  LET c == req[v].from IN
  /\ mpc[v] = "get_socket"
  /\ IF c \in cache[v] /\ ~Destroyed(c)
       THEN /\ mpc' = [mpc EXCEPT ![v] = "return_socket"]
            /\ UNCHANGED cache
     ELSE IF Destroyed(c)
       THEN /\ mpc' = [mpc EXCEPT ![v] = "dead"]
            /\ cache' = [cache EXCEPT ![v] = @ \ {c}]
     ELSE /\ mpc' = [mpc EXCEPT ![v] = "return_socket"]
          /\ cache' = [cache EXCEPT ![v] = @ \cup {c}]
  /\ used' = [used EXCEPT ![v] = IF c \in cache'[v] \ cache[v] THEN @ \cup {c}
                                                               ELSE @]
  /\ UNCHANGED <<sock, cpc, sent, got, req, rpc, reapList, shutMeDown>>

\* return self.DToClientSockets[client_id]: KeyError (uncaught) if the
\* reaper deleted the entry since the membership tests.
ServerReturnSocket(v) ==
  /\ mpc[v] = "return_socket"
  /\ mpc' = [mpc EXCEPT ![v] = IF req[v].from \in cache[v] THEN "put_lock"
                                                            ELSE "dead"]
  /\ UNCHANGED <<sock, cpc, sent, got, req, cache, rpc, reapList, used, shutMeDown>>

\* to_client_socket.put(send_data, timeout=10): put first sets
\* last_used_time; its timeout is ignored; a destroyed lock raises, and
\* the except prints it.
ServerPutLock(v) ==
  LET c == req[v].from IN
  /\ mpc[v] = "put_lock"
  /\ \/ /\ ~Destroyed(c)
        /\ MainMove(v, "put_lock", "put_write")
        /\ NtcAcquire(c)
     \/ /\ Destroyed(c)
        /\ MainMove(v, "put_lock", "shut_check")
        /\ UNCHANGED sock
  /\ used' = [used EXCEPT ![v] = @ \cup {c}]
  /\ UNCHANGED <<cpc, sent, got, req, cache, rpc, reapList, shutMeDown>>

\* The reply to the request server v read: b'+' + result.
ReplyTo(v) == [kind |-> "rep", to |-> req[v].from, n |-> req[v].n]

ServerPutWrite(v) ==
  /\ MainMove(v, "put_write", "put_signal")
  /\ WriteSlot(req[v].from, ReplyTo(v))
  /\ UNCHANGED <<cpc, sent, got, req, cache, rpc, reapList, used, shutMeDown>>

ServerPutSignal(v) ==
  /\ MainMove(v, "put_signal", "shut_check")
  /\ RtcRelease(req[v].from)
  /\ UNCHANGED <<cpc, sent, got, req, cache, rpc, reapList, used, shutMeDown>>

\* if self.shut_me_down: raise SystemExit(...)
ServerShutCheck(v) ==
  /\ mpc[v] = "shut_check"
  /\ mpc' = [mpc EXCEPT ![v] = IF shutMeDown[v] THEN "exited" ELSE "get_lock"]
  /\ UNCHANGED <<sock, cpc, sent, got, req, cache, rpc, reapList, used, shutMeDown>>

\* __on_sigint
ServerSigint(v) ==
  /\ Sigints
  /\ ~shutMeDown[v]
  /\ shutMeDown' = [shutMeDown EXCEPT ![v] = TRUE]
  /\ UNCHANGED <<sock, cpc, sent, got, mpc, req, cache, rpc, reapList, used>>

-----------------------------------------------------------------------------
(* SHMServer.__reap_client_sockets *)

\* One pass over list(self.DToClientSockets.items()): collect the sockets
\* unused for client_timeout seconds and those destroyed.  The pass runs
\* every client_timeout/2 seconds, so a socket created or put to since
\* the previous pass is not idle; one that was not may be.
ReapScan(v) ==
  /\ rpc[v] = "scan"
  /\ used' = [used EXCEPT ![v] = {}]
  /\ \E idle \in SUBSET (cache[v] \ used[v]) :
       /\ IdleTimeouts \/ idle = {}
       /\ reapList' = [reapList EXCEPT ![v] =
                         idle \cup {c \in cache[v] : Destroyed(c)}]
  /\ rpc' = [rpc EXCEPT ![v] = "del"]
  /\ UNCHANGED <<sock, cpc, sent, got, mpc, req, cache, shutMeDown>>

\* del self.DToClientSockets[client_id]: KeyError (uncaught, the thread
\* ends) if __main deleted it since the pass.
ReapDel(v, c) ==
  /\ rpc[v] = "del"
  /\ c \in reapList[v]
  /\ reapList' = [reapList EXCEPT ![v] = @ \ {c}]
  /\ IF c \in cache[v]
       THEN cache' = [cache EXCEPT ![v] = @ \ {c}] /\ UNCHANGED rpc
       ELSE rpc' = [rpc EXCEPT ![v] = "dead"] /\ UNCHANGED cache
  /\ UNCHANGED <<sock, cpc, sent, got, mpc, req, used, shutMeDown>>

\* time.sleep(self.client_timeout/2)
ReapSleep(v) ==
  /\ rpc[v] = "del"
  /\ reapList[v] = {}
  /\ rpc' = [rpc EXCEPT ![v] = "scan"]
  /\ UNCHANGED <<sock, cpc, sent, got, mpc, req, cache, reapList, used, shutMeDown>>

-----------------------------------------------------------------------------

\* SHMSocket.__init__: ntc created at 1, rtc at 0; SHMServer.__call__
\* starts both threads with an empty cache.
\* SHMSocket(init_resources=True): fresh memory, ntc at 1 and rtc at 0.
SocketsCreated ==
  sock = [s \in Sockets |->
            [ntc |-> 1, rtc |-> 0, slot |-> NoMsg, destroyed |-> FALSE]]

\* SHMServer.__call__: an empty cache, shut_me_down unset, and the reaper
\* and __main threads started.
ServersStarted ==
  /\ mpc = [v \in Servers |-> "get_lock"]
  /\ req = [v \in Servers |-> NoMsg]
  /\ cache = [v \in Servers |-> {}]
  /\ rpc = [v \in Servers |-> "scan"]
  /\ reapList = [v \in Servers |-> {}]
  /\ used = [v \in Servers |-> {}]
  /\ shutMeDown = [v \in Servers |-> FALSE]

Init ==
  /\ SocketsCreated
  /\ cpc = [c \in Clients |-> "idle"]
  /\ sent = [c \in Clients |-> 0]
  /\ got = [c \in Clients |-> NoMsg]
  /\ ServersStarted

ClientStep(c) ==
  \/ ClientRequest(c) \/ ClientPutLock(c) \/ ClientPutWrite(c)
  \/ ClientPutSignal(c) \/ ClientGetLock(c) \/ ClientGetRead(c)
  \/ ClientExit(c)

MainStep(v) ==
  \/ ServerGetLock(v) \/ ServerGetRead(v) \/ ServerGetSocket(v)
  \/ ServerReturnSocket(v) \/ ServerPutLock(v) \/ ServerPutWrite(v)
  \/ ServerPutSignal(v) \/ ServerShutCheck(v) \/ ServerSigint(v)

ReaperStep(v) ==
  \/ ReapScan(v) \/ ReapSleep(v) \/ \E c \in Clients : ReapDel(v, c)

Next ==
  \/ \E c \in Clients : ClientStep(c)
  \/ \E v \in Servers : MainStep(v) \/ ReaperStep(v)

(***************************************************************************)
(* Threads and processes keep running: weak fairness on every step but    *)
(* the environment's (new requests, exits, SIGINT).  Clients compete for  *)
(* ntc of to_server, which is offered to each of them again and again:    *)
(* as in spec 4.D, a waiter is served if the lock is free infinitely      *)
(* often (strong fairness).                                               *)
(***************************************************************************)
Fairness ==
  /\ \A c \in Clients :
       /\ SF_vars(ClientPutLock(c)) /\ WF_vars(ClientPutWrite(c))
       /\ WF_vars(ClientPutSignal(c)) /\ WF_vars(ClientGetLock(c))
       /\ WF_vars(ClientGetRead(c))
  /\ \A v \in Servers :
       /\ WF_vars(ServerGetLock(v)) /\ WF_vars(ServerGetRead(v))
       /\ WF_vars(ServerGetSocket(v)) /\ WF_vars(ServerReturnSocket(v))
       /\ WF_vars(ServerPutLock(v)) /\ WF_vars(ServerPutWrite(v))
       /\ WF_vars(ServerPutSignal(v)) /\ WF_vars(ServerShutCheck(v))
       /\ WF_vars(ReaperStep(v))

Spec == Init /\ [][Next]_vars /\ Fairness

-----------------------------------------------------------------------------
(* Properties *)

\* Types, and both semaphores of every socket stay 0 or 1: put's lock of
\* ntc and get's lock of rtc make each put and get pair off, so no release
\* is ever doubled, across servers sharing to_server and clients.
TypeOK ==
  /\ sock \in [Sockets -> [ntc : 0..1, rtc : 0..1, slot : Msgs \cup {NoMsg},
                           destroyed : BOOLEAN]]
  /\ cpc \in [Clients -> ClientPCs]
  /\ sent \in [Clients -> 0..MaxReq]
  /\ got \in [Clients -> Replies \cup {NoMsg}]
  /\ mpc \in [Servers -> MainPCs]
  /\ req \in [Servers -> Requests \cup {NoMsg}]
  /\ cache \in [Servers -> SUBSET Clients]
  /\ rpc \in [Servers -> {"scan", "del", "dead"}]
  /\ reapList \in [Servers -> SUBSET Clients]
  /\ used \in [Servers -> SUBSET Clients]
  /\ shutMeDown \in [Servers -> BOOLEAN]

\* Once a call returns, the reply it read is the reply to its own request:
\* with several servers and several clients sharing to_server, replies
\* are neither swapped between clients nor read stale.
ReplyMatches ==
  \A c \in Clients :
    cpc[c] = "idle" /\ got[c] /= NoMsg =>
      got[c] = [kind |-> "rep", to |-> c, n |-> sent[c]]

\* Every request a client starts to put is answered: the client gets back
\* to idle (the servers keep serving).
RequestsAnswered ==
  \A c \in Clients : cpc[c] = "put_lock" ~> cpc[c] = "idle"

\* No __main thread of a server dies of an uncaught exception: the server
\* process keeps serving requests.
MainAlive ==
  \A v \in Servers : mpc[v] /= "dead"

\* The items a socket holds, seen as a queue: the slot is in the queue from
\* the release of rtc by a put until a get releases ntc.
Reading(s) ==
  IF s = ToServer THEN \E v \in Servers : mpc[v] = "get_read"
                  ELSE cpc[s] = "get_read"

QueueOf(s) == IF sock[s].rtc > 0 \/ Reading(s) THEN <<sock[s].slot>> ELSE <<>>

SQ == INSTANCE SlotQueue WITH
        Actors <- Clients \cup Servers,
        queue  <- [s \in Sockets |-> QueueOf(s)],
        recv   <- [a \in Clients \cup Servers |->
                     IF a \in Clients THEN got[a] ELSE req[a]]

\* Every SHMSocket behaves as the one-item queue of its docstring.
SlotQueueSpec == SQ!Spec

=============================================================================
