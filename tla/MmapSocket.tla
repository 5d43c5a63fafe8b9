----------------------------- MODULE MmapSocket -----------------------------
(***************************************************************************)
(* The mmap socket transport: src/network_tools/mmap_sockets/Client.py    *)
(* and src/mmap_sockets/Server.py.                                        *)
(*                                                                        *)
(* Connection x is a file PATH % x, memory-mapped by one server thread    *)
(* and by the client process that holds the exclusive lock file           *)
(* x.lock.  In the mapping, a state word (cur_state_int), a length        *)
(* (amount_int) and the data area are written by both sides without any  *)
(* lock; each side polls the state word.  A client claims the first free *)
(* lock file among 0..MAX_CONNECTIONS; the server runs one thread per     *)
(* connection in xrange(MAX_CONNECTIONS).                                 *)
(*                                                                        *)
(* The data area and its length are one payload, written in one step: a  *)
(* request carries the client and its call number; the server's reply    *)
(* records, as a ghost, which request was in the area when it saw the    *)
(* command (its reply does not depend on it: the demo server answers     *)
(* random data).  The poll loops' sleep back-off is left out.             *)
(***************************************************************************)
EXTENDS Integers, FiniteSets

CONSTANTS
  Clients,      \* client processes
  MaxConn,      \* Base.MAX_CONNECTIONS
  MaxSends,     \* send() calls per client
  Terms,        \* whether clients receive SIGTERM / SIGABRT after connecting
  Kills,        \* whether client processes die (the OS drops their locks)
  NoClient,     \* a lock file nobody holds
  Zero          \* the zeroed data area of a fresh file

Slots  == 0..MaxConn          \* lock files _acquire_lock may take
Served == 0..(MaxConn - 1)    \* connections with a server thread

Reqs    == [kind : {"req"}, c : Clients, n : 1..MaxSends]
Answer(p) == [kind |-> "resp", to |-> p]
Resps   == {Answer(p) : p \in Reqs \cup {Zero}}

VARIABLES
  flock,      \* flock[x]: the process holding lock file x
  files,      \* connections whose file a server thread has created
  st,         \* st[x]: cur_state_int of connection x
  buf,        \* buf[x]: the payload in connection x's data area
  spc,        \* spc[x]: where server thread x is
  sreq,       \* sreq[x]: ghost, the payload in the area when x saw a command
  cpc,        \* cpc[c]: where client process c is
  cx,         \* cx[c]: the lock file c holds or is trying
  sent,       \* sent[c]: send() calls c has begun
  disturbed,  \* ghost: connections used by a client that died or was signalled
  returned,   \* ghost: [req, got, undisturbed] of every send() that returned
  failures    \* exceptions raised by clients

vars == <<flock, files, st, buf, spc, sreq, cpc, cx, sent,
          disturbed, returned, failures>>

Req(c) == [kind |-> "req", c |-> c, n |-> sent[c]]

-----------------------------------------------------------------------------
(* Client (network_tools/mmap_sockets/Client.py) *)

\* _acquire_lock: try lock(lock_file, LOCK_EX|LOCK_NB) on x; on failure
\* go on with x+1, and raise 'too many connections!' past MAX_CONNECTIONS.
AcquireLock(c) ==
  LET x == cx[c] IN
  /\ cpc[c] = "acquire"
  /\ IF flock[x] = NoClient
       THEN /\ flock' = [flock EXCEPT ![x] = c]
            /\ cpc' = [cpc EXCEPT ![c] = "open"]
            /\ UNCHANGED <<cx, failures>>
     ELSE IF x + 1 > MaxConn
       THEN /\ cpc' = [cpc EXCEPT ![c] = "failed"]
            /\ failures' = failures \cup {"too_many"}
            /\ UNCHANGED <<flock, cx>>
     ELSE /\ cx' = [cx EXCEPT ![c] = x + 1]
          /\ UNCHANGED <<flock, cpc, failures>>
  /\ UNCHANGED <<files, st, buf, spc, sreq, sent, disturbed,
                 returned>>

\* __init__: os.open retries every second until the server created the
\* file; then map it and set cur_state_int to STATE_DATA_TO_CLIENT.
OpenAndInit(c) ==
  /\ cpc[c] = "open"
  /\ cx[c] \in files
  /\ st' = [st EXCEPT ![cx[c]] = "data"]
  /\ cpc' = [cpc EXCEPT ![c] = "idle"]
  /\ UNCHANGED <<flock, files, buf, spc, sreq, cx, sent, disturbed,
                 returned, failures>>

\* send, under thread_lock: write the data and amount_int.
SendWrite(c) ==
  /\ cpc[c] = "idle"
  /\ sent[c] < MaxSends
  /\ sent' = [sent EXCEPT ![c] = @ + 1]
  /\ buf' = [buf EXCEPT ![cx[c]] = [kind |-> "req", c |-> c, n |-> sent[c] + 1]]
  /\ cpc' = [cpc EXCEPT ![c] = "check"]
  /\ UNCHANGED <<flock, files, st, spc, sreq, cx, disturbed, returned,
                 failures>>

\* The two asserts that read back what was just written; an
\* AssertionError leaves send().
SendCheck(c) ==
  /\ cpc[c] = "check"
  /\ IF buf[cx[c]] = Req(c)
       THEN /\ cpc' = [cpc EXCEPT ![c] = "signal"]
            /\ UNCHANGED failures
       ELSE /\ cpc' = [cpc EXCEPT ![c] = "idle"]
            /\ failures' = failures \cup {"assert"}
  /\ UNCHANGED <<flock, files, st, buf, spc, sreq, cx, sent,
                 disturbed, returned>>

\* cur_state_int.value = STATE_CMD_TO_SERVER
SendSignal(c) ==
  /\ cpc[c] = "signal"
  /\ st' = [st EXCEPT ![cx[c]] = "cmd"]
  /\ cpc' = [cpc EXCEPT ![c] = "recv"]
  /\ UNCHANGED <<flock, files, buf, spc, sreq, cx, sent, disturbed,
                 returned, failures>>

\* __recv: poll until the state word is STATE_DATA_TO_CLIENT, then read
\* amount_int and the data (the area never outgrows the 100MB file, so
\* __resize_mmap_if_needed does nothing).
Recv(c) ==
  /\ cpc[c] = "recv"
  /\ st[cx[c]] = "data"
  /\ returned' = returned \cup {[req |-> Req(c), got |-> buf[cx[c]],
                                 undisturbed |-> cx[c] \notin disturbed]}
  /\ cpc' = [cpc EXCEPT ![c] = "idle"]
  /\ UNCHANGED <<flock, files, st, buf, spc, sreq, cx, sent,
                 disturbed, failures>>

\* Ghost: the served connection c holds, if any, is marked disturbed.
DisturbedBy(c) ==
  IF cpc[c] = "acquire" THEN disturbed ELSE disturbed \cup ({cx[c]} \cap Served)

\* set_exit_handler(self._release_lock) installs a method that takes no
\* argument as the SIGTERM/SIGABRT handler.  Python calls it with
\* (signum, frame), so the signal raises TypeError before unlock runs,
\* wherever the main thread is; nothing in the client catches it and the
\* process ends, its lock dropped by the OS.
ExitHandler(c) ==
  /\ Terms
  /\ cpc[c] \in {"idle", "check", "signal", "recv"}
  /\ cpc' = [cpc EXCEPT ![c] = "dead"]
  /\ flock' = [x \in Slots |-> IF flock[x] = c THEN NoClient ELSE flock[x]]
  /\ disturbed' = DisturbedBy(c)
  /\ UNCHANGED <<files, st, buf, spc, sreq, cx, sent, returned, failures>>

\* The process dies; the OS drops its lock.
Kill(c) ==
  /\ Kills
  /\ cpc[c] \notin {"failed", "dead"}
  /\ cpc' = [cpc EXCEPT ![c] = "dead"]
  /\ flock' = [x \in Slots |-> IF flock[x] = c THEN NoClient ELSE flock[x]]
  /\ disturbed' = DisturbedBy(c)
  /\ UNCHANGED <<files, st, buf, spc, sreq, cx, sent, returned,
                 failures>>

-----------------------------------------------------------------------------
(* Server threads (mmap_sockets/Server.py, Server.main(thread_num)) *)

\* Create the file with O_TRUNC, write zeros over it and map it: the
\* state word and the area are zero.
ServerStart(x) ==
  /\ spc[x] = "start"
  /\ files' = files \cup {x}
  /\ st' = [st EXCEPT ![x] = "zero"]
  /\ buf' = [buf EXCEPT ![x] = Zero]
  /\ spc' = [spc EXCEPT ![x] = "poll"]
  /\ UNCHANGED <<flock, sreq, cpc, cx, sent, disturbed, returned,
                 failures>>

\* Mutant: the loop reacts to any non-zero state word.
ServerPollAnyState(x) ==
  /\ spc[x] = "poll"
  /\ st[x] /= "zero"
  /\ sreq' = [sreq EXCEPT ![x] = IF buf[x] \in Reqs THEN buf[x] ELSE Zero]
  /\ spc' = [spc EXCEPT ![x] = "write"]
  /\ UNCHANGED <<flock, files, st, buf, cpc, cx, sent, disturbed,
                 returned, failures>>

\* The loop sees STATE_CMD_TO_SERVER.
ServerPoll(x) ==
  /\ spc[x] = "poll"
  /\ st[x] = "cmd"
  /\ sreq' = [sreq EXCEPT ![x] = IF buf[x] \in Reqs THEN buf[x] ELSE Zero]
  /\ spc' = [spc EXCEPT ![x] = "write"]
  /\ UNCHANGED <<flock, files, st, buf, cpc, cx, sent, disturbed,
                 returned, failures>>

\* Write the reply into the data area and amount_int.
ServerWrite(x) ==
  /\ spc[x] = "write"
  /\ buf' = [buf EXCEPT ![x] = Answer(sreq[x])]
  /\ spc' = [spc EXCEPT ![x] = "check"]
  /\ UNCHANGED <<flock, files, st, sreq, cpc, cx, sent, disturbed, returned,
                 failures>>

\* assert amount_int.value == len(data): amount_int is read back from the
\* shared mapping, so a client's send() that wrote its own amount since
\* (a request is never as long as the reply) fails it, and the
\* AssertionError ends this connection's server thread.
ServerCheck(x) ==
  /\ spc[x] = "check"
  /\ spc' = [spc EXCEPT ![x] = IF buf[x] = Answer(sreq[x]) THEN "signal"
                                                         ELSE "dead"]
  /\ UNCHANGED <<flock, files, st, buf, sreq, cpc, cx, sent, disturbed,
                 returned, failures>>

\* Mutant: the state word is never set back.
ServerSignalMissing(x) ==
  /\ spc[x] = "signal"
  /\ spc' = [spc EXCEPT ![x] = "poll"]
  /\ UNCHANGED <<flock, files, st, buf, sreq, cpc, cx, sent,
                 disturbed, returned, failures>>

\* cur_state_int.value = STATE_DATA_TO_CLIENT
ServerSignal(x) ==
  /\ spc[x] = "signal"
  /\ st' = [st EXCEPT ![x] = "data"]
  /\ spc' = [spc EXCEPT ![x] = "poll"]
  /\ UNCHANGED <<flock, files, buf, sreq, cpc, cx, sent, disturbed,
                 returned, failures>>

-----------------------------------------------------------------------------

Init ==
  /\ flock = [x \in Slots |-> NoClient]
  /\ files = {}
  /\ st = [x \in Served |-> "zero"]
  /\ buf = [x \in Served |-> Zero]
  /\ spc = [x \in Served |-> "start"]
  /\ sreq = [x \in Served |-> Zero]
  /\ cpc = [c \in Clients |-> "acquire"]
  /\ cx = [c \in Clients |-> 0]
  /\ sent = [c \in Clients |-> 0]
  /\ disturbed = {}
  /\ returned = {}
  /\ failures = {}

ClientStep(c) ==
  \/ AcquireLock(c) \/ OpenAndInit(c) \/ SendWrite(c) \/ SendCheck(c)
  \/ SendSignal(c) \/ Recv(c) \/ ExitHandler(c) \/ Kill(c)

ServerStep(x) ==
  \/ ServerStart(x) \/ ServerPoll(x) \/ ServerWrite(x) \/ ServerCheck(x)
  \/ ServerSignal(x)

Next ==
  \/ \E c \in Clients : ClientStep(c)
  \/ \E x \in Served : ServerStep(x)

(***************************************************************************)
(* Processes and threads are scheduled by the OS: each step a client or a *)
(* server thread can keep taking is eventually taken.  Starting a new     *)
(* send(), signals and deaths are the environment's and are not fair.     *)
(***************************************************************************)
Fairness ==
  /\ \A c \in Clients :
       /\ WF_vars(AcquireLock(c)) /\ WF_vars(OpenAndInit(c))
       /\ WF_vars(SendCheck(c)) /\ WF_vars(SendSignal(c)) /\ WF_vars(Recv(c))
  /\ \A x \in Served : WF_vars(ServerStep(x))

Spec == Init /\ [][Next]_vars /\ Fairness

-----------------------------------------------------------------------------
(* Properties *)

\* Every variable stays in its range: no server thread or client reaches a
\* state the code does not have.
TypeOK ==
  /\ flock \in [Slots -> Clients \cup {NoClient}]
  /\ files \subseteq Served
  /\ st \in [Served -> {"zero", "data", "cmd"}]
  /\ buf \in [Served -> Reqs \cup Resps \cup {Zero}]
  /\ spc \in [Served -> {"start", "poll", "write", "check", "signal", "dead"}]
  /\ sreq \in [Served -> Reqs \cup {Zero}]
  /\ cpc \in [Clients -> {"acquire", "open", "idle", "check", "signal",
                           "recv", "failed", "dead"}]
  /\ cx \in [Clients -> Slots]
  /\ sent \in [Clients -> 0..MaxSends]
  /\ disturbed \subseteq Served
  /\ returned \subseteq [req : Reqs, got : Reqs \cup Resps \cup {Zero},
                         undisturbed : BOOLEAN]
  /\ failures \subseteq {"assert", "too_many"}

\* send() returns the server's answer to the command it signalled, not its
\* own request read back, another client's request, or a reply the
\* server wrote for an earlier command on the same connection.
RepliesMatch ==
  \A r \in returned : r.got = Answer(r.req)

\* The same, for calls on a connection whose clients never died nor ran
\* the SIGTERM handler: with one client per connection, the state-word
\* handshake alone keeps requests and replies paired.
UndisturbedRepliesMatch ==
  \A r \in returned : r.undisturbed => r.got = Answer(r.req)

\* A client that signalled a command on a connection no client death has
\* touched eventually reads a reply (or dies itself): __recv's poll ends.
\* A death lets another client take the connection over, and its send()
\* can then land between the server's write and its assert.
SendsReturn ==
  \A c \in Clients :
    cpc[c] = "recv" /\ cx[c] \notin disturbed
      ~> cpc[c] \in {"idle", "dead"} \/ cx[c] \in disturbed

=============================================================================
