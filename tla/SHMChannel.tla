---------------------------- MODULE SHMChannel ----------------------------
(***************************************************************************)
(* One shared-memory RPC connection (port, pid, qid) of speedysvc:        *)
(* the client side is SHMClient.send with __resize_mmap and               *)
(* __reconnect_to_mmap (src/speedysvc/client_server/shared_memory/),      *)
(* run by several threads of the client process that share the           *)
(* connection object; the server side is the worker loop of spec 4.D     *)
(* (its source is not in the repository), run by several workers that    *)
(* all wait on the same named server lock.                                *)
(*                                                                         *)
(* The shared region "service_{port}_{pid}_{qid}" is re-created under the *)
(* same name on every grow, so it is modelled as a sequence of            *)
(* generations: gen is the one the name currently denotes, and every      *)
(* party keeps the generation it has mapped.  Byte 0 of a generation is   *)
(* tag[g]; the frame after it is data[g], abstracted to which call's      *)
(* request or response it holds.  The two hybrid locks are counting       *)
(* semaphores here (their spin/block internals are not modelled).                      *)
(***************************************************************************)
EXTENDS Integers, FiniteSets

CONSTANTS
  Threads,         \* client threads sharing the connection object
  Workers,         \* worker processes of the service
  MaxCalls,        \* bound on the number of send() calls
  MaxGen,          \* bound on the number of buffer generations
  InitSize,        \* initial buffer size (2048 B in the source), in units
  ReqLens,         \* encoded request lengths a call may have
  RespLens,        \* encoded response lengths a handler may produce
  TimeoutEnabled   \* whether callers pass a timeout other than -1

ASSUME
  /\ MaxCalls \in Nat \ {0}
  /\ MaxGen \in Nat
  /\ InitSize \in Nat \ {0, 1}
  /\ ReqLens \subseteq Nat \ {0} /\ RespLens \subseteq Nat \ {0}
  /\ TimeoutEnabled \in BOOLEAN

\* The handoff tag values of shared_params.
PENDING == "PENDING"
CLIENT  == "CLIENT"
SERVER  == "SERVER"
INVALID == "INVALID"
Tags == {PENDING, CLIENT, SERVER, INVALID}

Gens  == 0..MaxGen
Calls == 1..MaxCalls
NoFrame == [kind |-> "none", call |-> 0]
Frames == [kind : {"none", "req", "resp"}, call : 0..MaxCalls]

VARIABLES
  gen,         \* generation the shared-memory name currently denotes
  tag,         \* tag[g]: byte 0 of generation g
  size,        \* size[g]: length of generation g
  data,        \* data[g]: frame after byte 0 of generation g
  clientMap,   \* self.mmap of the SHMClient object (shared by threads)
  tmap,        \* tmap[t]: the local variable mmap of thread t
  wmap,        \* wmap[w]: generation worker w has mapped
  clientLock,  \* value of client_{port}_pid_{pid}_{qid}
  serverLock,  \* value of server_{port}_pid_{pid}_{qid}
  pc,          \* pc[t]: where thread t is in send()
  call,        \* call[t]: the call thread t is making
  rlen,        \* rlen[t]: its encoded request length
  wpc,         \* wpc[w]: "wait" on the server lock, or "busy"
  wcall,       \* wcall[w]: the frame worker w decoded as its request
  nextCall,    \* calls issued so far
  returned,    \* history: [call, got] for every send that returned data
  failures     \* history: exceptions raised by send()

vars == <<gen, tag, size, data, clientMap, tmap, wmap, clientLock,
          serverLock, pc, call, rlen, wpc, wcall, nextCall,
          returned, failures>>

ThreadPCs == {"idle", "lock_client", "send", "spin", "lock_server", "check"}

(***************************************************************************)
(* create_pid_mmap (SHMBase): a new region of int(min_size*1.5) bytes     *)
(* under the same name; __resize_mmap passes min_size = 2*len(request).  *)
(* Growth is required when the frame does not fit after byte 0.          *)
(***************************************************************************)
GrownSize(len) == (2 * len * 3) \div 2
NeedsGrow(len, g) == len >= size[g] - 1

\* Grow into a new generation of the region under the same name.
Grow(old, len) ==
  /\ gen' = gen + 1
  /\ size' = [size EXCEPT ![gen + 1] = GrownSize(len)]

\* Mutant: the superseded mapping is not marked INVALID.
SupersedeKeepsOld(old, new, t) == [tag EXCEPT ![new] = t]

\* Byte 0 of the new generation becomes t and that of the old one INVALID.
Supersede(old, new, t) == [tag EXCEPT ![new] = t, ![old] = INVALID]

-----------------------------------------------------------------------------
(* Client side: SHMClient.send *)

\* Encode the request outside the critical area (lines 58-74).
Call(t) ==
  /\ pc[t] = "idle"
  /\ nextCall < MaxCalls
  /\ \E len \in ReqLens :
       /\ rlen' = [rlen EXCEPT ![t] = len]
       /\ call' = [call EXCEPT ![t] = nextCall + 1]
  /\ nextCall' = nextCall + 1
  /\ pc' = [pc EXCEPT ![t] = "lock_client"]
  /\ UNCHANGED <<gen, tag, size, data, clientMap, tmap, wmap, clientLock,
                 serverLock, wpc, wcall,  returned, failures>>

\* self.client_lock.lock(timeout=timeout)
LockClient(t) ==
  /\ pc[t] = "lock_client"
  /\ clientLock >= 1
  /\ clientLock' = clientLock - 1
  /\ tmap' = [tmap EXCEPT ![t] = clientMap]
  /\ pc' = [pc EXCEPT ![t] = "send"]
  /\ UNCHANGED <<gen, tag, size, data, clientMap, wmap, serverLock, call,
                 rlen, wpc, wcall, nextCall, returned, failures>>

\* The client lock's own timeout expires; the exception leaves send()
\* before the try block, so nothing is released.
LockClientTimeout(t) ==
  /\ TimeoutEnabled
  /\ pc[t] = "lock_client"
  /\ pc' = [pc EXCEPT ![t] = "idle"]
  /\ failures' = failures \cup {"timeout"}
  /\ UNCHANGED <<gen, tag, size, data, clientMap, tmap, wmap, clientLock,
                 serverLock, call, rlen, wpc, wcall, nextCall,
                 returned>>

\* Write the request (growing the region first if it does not fit), set
\* byte 0 to PENDING and unlock the server lock (lines 84-97).
SendRequest(t) ==
  LET old == tmap[t]
      len == rlen[t]
      req == [kind |-> "req", call |-> call[t]]
  IN
  /\ pc[t] = "send"
  /\ \/ /\ ~NeedsGrow(len, old)
        /\ data' = [data EXCEPT ![old] = req]
        /\ tag' = [tag EXCEPT ![old] = PENDING]
        /\ pc' = [pc EXCEPT ![t] = "spin"]
        /\ serverLock' = serverLock + 1
        /\ UNCHANGED <<gen, size, clientMap, tmap, clientLock, failures>>
     \/ /\ NeedsGrow(len, old)
        /\ Grow(old, len)
        /\ IF tag[old] /= INVALID
             THEN \* __resize_mmap completes; old byte 0 becomes INVALID
                  /\ tag' = Supersede(old, gen + 1, PENDING)
                  /\ data' = [data EXCEPT ![gen + 1] = req]
                  /\ clientMap' = gen + 1
                  /\ tmap' = [tmap EXCEPT ![t] = gen + 1]
                  /\ pc' = [pc EXCEPT ![t] = "spin"]
                  /\ serverLock' = serverLock + 1
                  /\ UNCHANGED <<clientLock, failures>>
             ELSE \* assert mmap[0] != INVALID fails after the new
                  \* region exists; finally releases the client lock
                  /\ tag' = [tag EXCEPT ![gen + 1] = INVALID]
                  /\ data' = [data EXCEPT ![gen + 1] = NoFrame]
                  /\ pc' = [pc EXCEPT ![t] = "idle"]
                  /\ clientLock' = clientLock + 1
                  /\ failures' = failures \cup {"assert"}
                  /\ UNCHANGED <<clientMap, tmap, serverLock>>
  /\ UNCHANGED <<wmap, call, rlen, wpc, wcall, nextCall, returned>>

\* The spin loop `while mmap[0] == PENDING` ends (lines 99-126).
SpinDone(t) ==
  /\ pc[t] = "spin"
  /\ tag[tmap[t]] /= PENDING
  /\ pc' = [pc EXCEPT ![t] = "lock_server"]
  /\ UNCHANGED <<gen, tag, size, data, clientMap, tmap, wmap, clientLock,
                 serverLock, call, rlen, wpc, wcall, nextCall,
                 returned, failures>>

\* The caller's timeout elapses while byte 0 is still PENDING: raise
\* TimeoutError, and the finally block unlocks the client lock.
SpinTimeout(t) ==
  /\ TimeoutEnabled
  /\ pc[t] = "spin"
  /\ tag[tmap[t]] = PENDING
  /\ pc' = [pc EXCEPT ![t] = "idle"]
  /\ clientLock' = clientLock + 1
  /\ failures' = failures \cup {"timeout"}
  /\ UNCHANGED <<gen, tag, size, data, clientMap, tmap, wmap, serverLock,
                 call, rlen, wpc, wcall, nextCall, returned>>

\* self.server_lock.lock(timeout=-1)
LockServer(t) ==
  /\ pc[t] = "lock_server"
  /\ serverLock >= 1
  /\ serverLock' = serverLock - 1
  /\ pc' = [pc EXCEPT ![t] = "check"]
  /\ UNCHANGED <<gen, tag, size, data, clientMap, tmap, wmap, clientLock,
                 call, rlen, wpc, wcall, nextCall, returned,
                 failures>>

\* Mutant: the network_tools client's reconnect, which rebinds only the
\* local mmap and leaves self.mmap on the old region.
ReconnectLocalOnly(t) ==
  /\ pc[t] = "check"
  /\ tag[tmap[t]] = INVALID
  /\ size[gen] > size[tmap[t]]
  /\ tmap' = [tmap EXCEPT ![t] = gen]
  /\ UNCHANGED <<gen, tag, size, data, clientMap, wmap, clientLock, serverLock,
                 pc, call, rlen, wpc, wcall, nextCall, returned, failures>>

\* Byte 0 is INVALID: __reconnect_to_mmap maps the region by name again,
\* asserting that it grew.
Reconnect(t) ==
  /\ pc[t] = "check"
  /\ tag[tmap[t]] = INVALID
  /\ IF size[gen] > size[tmap[t]]
       THEN /\ tmap' = [tmap EXCEPT ![t] = gen]
            /\ clientMap' = gen
            /\ UNCHANGED <<pc, clientLock, failures>>
       ELSE /\ pc' = [pc EXCEPT ![t] = "idle"]
            /\ clientLock' = clientLock + 1
            /\ failures' = failures \cup {"assert"}
            /\ UNCHANGED <<tmap, clientMap>>
  /\ UNCHANGED <<gen, tag, size, data, wmap, serverLock, call, rlen, wpc,
                 wcall, nextCall, returned>>

\* Byte 0 is CLIENT: decode the response, unlock the client lock, return.
ReadResponse(t) ==
  /\ pc[t] = "check"
  /\ tag[tmap[t]] = CLIENT
  /\ returned' = returned \cup
       {[call |-> call[t],
         got  |-> IF data[tmap[t]].kind = "resp"
                    THEN data[tmap[t]].call ELSE 0]}
  /\ pc' = [pc EXCEPT ![t] = "idle"]
  /\ clientLock' = clientLock + 1
  /\ UNCHANGED <<gen, tag, size, data, clientMap, tmap, wmap, serverLock,
                 call, rlen, wpc, wcall, nextCall, failures>>

\* Byte 0 is SERVER or PENDING: "Should never get here!" is raised and the
\* finally block unlocks the client lock.
ProtocolError(t) ==
  /\ pc[t] = "check"
  /\ tag[tmap[t]] \in {SERVER, PENDING}
  /\ pc' = [pc EXCEPT ![t] = "idle"]
  /\ clientLock' = clientLock + 1
  /\ failures' = failures \cup {"protocol"}
  /\ UNCHANGED <<gen, tag, size, data, clientMap, tmap, wmap, serverLock,
                 call, rlen, wpc, wcall, nextCall, returned>>

-----------------------------------------------------------------------------
(* Server side: the worker loop of spec 4.D *)

\* The generation worker w reads after a wake: a stale mapping whose byte
\* 0 is INVALID is replaced by the one the name denotes.
WorkerGen(w) == IF tag[wmap[w]] = INVALID THEN gen ELSE wmap[w]

\* Mutant: the worker decodes the request from the mapping it held before
\* the wake, not from the region it remapped to.
ServerWakeStaleRead(w) ==
  LET g == WorkerGen(w) IN
  /\ wpc[w] = "wait"
  /\ serverLock >= 1
  /\ tag[g] = PENDING
  /\ serverLock' = serverLock - 1
  /\ wmap' = [wmap EXCEPT ![w] = g]
  /\ tag' = [tag EXCEPT ![g] = SERVER]
  /\ wcall' = [wcall EXCEPT ![w] = data[wmap[w]]]
  /\ wpc' = [wpc EXCEPT ![w] = "busy"]
  /\ UNCHANGED <<gen, size, data, clientMap, tmap, clientLock, pc, call,
                 rlen, nextCall, returned, failures>>

\* Take the server lock; on a PENDING request mark the buffer SERVER and
\* run the handler for the decoded request.
ServerWake(w) ==
  LET g == WorkerGen(w) IN
  /\ wpc[w] = "wait"
  /\ serverLock >= 1
  /\ tag[g] = PENDING
  /\ serverLock' = serverLock - 1
  /\ wmap' = [wmap EXCEPT ![w] = g]
  /\ tag' = [tag EXCEPT ![g] = SERVER]
  /\ wcall' = [wcall EXCEPT ![w] = data[g]]
  /\ wpc' = [wpc EXCEPT ![w] = "busy"]
  /\ UNCHANGED <<gen, size, data, clientMap, tmap, clientLock, pc, call,
                 rlen, nextCall, returned, failures>>

\* The server lock was free but no request is pending (the client has not
\* yet taken the lock back after a reply): release it and wait again.
ServerSpurious(w) ==
  LET g == WorkerGen(w) IN
  /\ wpc[w] = "wait"
  /\ serverLock >= 1
  /\ tag[g] /= PENDING
  /\ wmap' = [wmap EXCEPT ![w] = g]
  /\ UNCHANGED <<gen, tag, size, data, clientMap, tmap, clientLock,
                 serverLock, pc, call, rlen, wpc, wcall, nextCall,
                  returned, failures>>

\* Mutant: the lock spec 4.C/4.D name, the client lock, is released after
\* the reply.
ReleaseAfterReplySpec ==
  clientLock' = clientLock + 1 /\ UNCHANGED serverLock

\* After its reply the worker unlocks the server lock, which send() takes
\* once byte 0 has left PENDING (send() unlocks the client lock itself).
ReleaseAfterReply ==
  serverLock' = serverLock + 1 /\ UNCHANGED clientLock

\* Mutant: the reply is written without its status header.
ReplyFrameNoStatus(w) == [call |-> wcall[w].call]

\* The response frame for the request worker w decoded.
ReplyFrame(w) == [kind |-> "resp", call |-> wcall[w].call]

\* Write the reply (growing the region by the client's protocol when it
\* does not fit), set byte 0 to CLIENT and unlock.
ServerReply(w) ==
  LET old  == wmap[w]
      resp == ReplyFrame(w)
  IN
  /\ wpc[w] = "busy"
  /\ \E len \in RespLens :
       \/ /\ ~NeedsGrow(len, old)
          /\ tag' = [tag EXCEPT ![old] = CLIENT]
          /\ data' = [data EXCEPT ![old] = resp]
          /\ UNCHANGED <<gen, size, wmap>>
       \/ /\ NeedsGrow(len, old)
          /\ Grow(old, len)
          /\ tag' = Supersede(old, gen + 1, CLIENT)
          /\ data' = [data EXCEPT ![gen + 1] = resp]
          /\ wmap' = [wmap EXCEPT ![w] = gen + 1]
  /\ ReleaseAfterReply
  /\ wpc' = [wpc EXCEPT ![w] = "wait"]
  /\ wcall' = [wcall EXCEPT ![w] = NoFrame]
  /\ UNCHANGED <<clientMap, tmap, pc, call, rlen, nextCall,
                 returned, failures>>

-----------------------------------------------------------------------------

\* SHMResourceManager.create_client_resources: a region of the initial
\* size with byte 0 CLIENT, the client lock at 1 and the server lock at 0;
\* the workers have mapped it.
Init ==
  /\ gen = 0
  /\ tag = [g \in Gens |-> IF g = 0 THEN CLIENT ELSE INVALID]
  /\ size = [g \in Gens |-> IF g = 0 THEN InitSize ELSE 0]
  /\ data = [g \in Gens |-> NoFrame]
  /\ clientMap = 0
  /\ tmap = [t \in Threads |-> 0]
  /\ wmap = [w \in Workers |-> 0]
  /\ clientLock = 1
  /\ serverLock = 0
  /\ pc = [t \in Threads |-> "idle"]
  /\ call = [t \in Threads |-> 0]
  /\ rlen = [t \in Threads |-> CHOOSE l \in ReqLens : TRUE]
  /\ wpc = [w \in Workers |-> "wait"]
  /\ wcall = [w \in Workers |-> NoFrame]
  /\ nextCall = 0
  /\ returned = {}
  /\ failures = {}

\* Every call has been made and returned: the system is idle for good.
Finished ==
  /\ nextCall = MaxCalls
  /\ \A t \in Threads : pc[t] = "idle"
  /\ UNCHANGED vars

Next ==
  \/ \E t \in Threads :
       \/ Call(t) \/ LockClient(t) \/ LockClientTimeout(t)
       \/ SendRequest(t) \/ SpinDone(t) \/ SpinTimeout(t)
       \/ LockServer(t) \/ Reconnect(t) \/ ReadResponse(t)
       \/ ProtocolError(t)
  \/ \E w \in Workers : ServerWake(w) \/ ServerSpurious(w) \/ ServerReply(w)
  \/ Finished

(***************************************************************************)
(* Fairness.  Threads and workers are OS-scheduled and keep running, so   *)
(* every step is weakly fair.  The server lock is offered alternately to  *)
(* a client in lock_server and to workers that take and release it on a   *)
(* spurious wake; spec 4.D requires the wait to be fair ("so long as      *)
(* fairness is bounded"), which is strong fairness of the client's lock. *)
(***************************************************************************)
Fairness ==
  /\ \A t \in Threads :
       /\ WF_vars(SendRequest(t)) /\ WF_vars(SpinDone(t))
       /\ SF_vars(LockServer(t))
       /\ WF_vars(Reconnect(t)) /\ WF_vars(ReadResponse(t))
       /\ WF_vars(ProtocolError(t))
  /\ \A w \in Workers : WF_vars(ServerWake(w)) /\ WF_vars(ServerReply(w))

Spec == Init /\ [][Next]_vars /\ Fairness

-----------------------------------------------------------------------------
(* Properties *)

TypeOK ==
  /\ gen \in Gens
  /\ tag \in [Gens -> Tags]
  /\ size \in [Gens -> Nat]
  /\ data \in [Gens -> Frames]
  /\ clientMap \in Gens /\ tmap \in [Threads -> Gens]
  /\ wmap \in [Workers -> Gens]
  /\ clientLock \in Nat /\ serverLock \in Nat
  /\ pc \in [Threads -> ThreadPCs]
  /\ call \in [Threads -> 0..MaxCalls]
  /\ wpc \in [Workers -> {"wait", "busy"}]
  /\ wcall \in [Workers -> Frames]
  /\ nextCall \in 0..MaxCalls
  /\ failures \subseteq {"timeout", "assert", "protocol"}

\* Every send() that returns data returns the response to its own request
\* (spec 8: no interference, responses in request order), across grows of
\* the region by either side and wakes of several workers.
ResponseMatchesRequest ==
  \A r \in returned : r.got = r.call

\* No send() has raised TimeoutError yet.  failures only grows, so a
\* property "Untimed => P" is P over every behaviour without a timeout
\* (channel_timeout shows what a timeout leaves behind).
Untimed == "timeout" \notin failures

\* As long as no call has timed out, send() never raises one of its
\* internal errors: no "Should never get here!"/unknown state, and neither
\* assertion of __resize_mmap or __reconnect_to_mmap fails.
NoProtocolError ==
  Untimed => failures \cap {"assert", "protocol"} = {}

\* As long as no call has timed out, every response returned is the one to
\* its own request.
UntimedResponsesMatch ==
  Untimed => ResponseMatchesRequest

\* The client lock serialises send() calls of one connection: at most one
\* thread is between taking it and releasing it.
ClientSerialised ==
  Cardinality({t \in Threads :
                 pc[t] \in {"send", "spin", "lock_server", "check"}}) <= 1

\* Every request that was handed to the server is eventually answered
\* (the thread leaves send()), unless some call has timed out.
CallsReturn ==
  \A t \in Threads : pc[t] = "spin" ~> (pc[t] = "idle" \/ ~Untimed)

=============================================================================
