----------------------------- MODULE SlotQueue -----------------------------
(***************************************************************************)
(* What an SHMSocket promises (src/network_tools/rpc/shared_memory/       *)
(* shm_socket/SHMSocket.py, its docstring: "Put an item into the          *)
(* (single-item) queue", "Get/pop an item from the (single-item) queue"): *)
(* each named socket is a FIFO of capacity one shared by any number of    *)
(* putting and getting actors.  A put waits while the queue is full, a    *)
(* get while it is empty; every item put is got exactly once, by one     *)
(* actor, which receives exactly that item.                               *)
(***************************************************************************)
EXTENDS Sequences

CONSTANTS
  Sockets,   \* socket names
  Actors,    \* processes or threads that call get
  Msgs,      \* items that may be put
  NoMsg      \* what an actor has got before its first get

VARIABLES
  queue,     \* queue[s]: the items in socket s, at most one
  recv       \* recv[a]: the last item actor a got

Init ==
  /\ queue = [s \in Sockets |-> <<>>]
  /\ recv = [a \in Actors |-> NoMsg]

Put(s, m) ==
  /\ queue[s] = <<>>
  /\ queue' = [queue EXCEPT ![s] = <<m>>]
  /\ UNCHANGED recv

Get(a, s) ==
  /\ queue[s] /= <<>>
  /\ recv' = [recv EXCEPT ![a] = Head(queue[s])]
  /\ queue' = [queue EXCEPT ![s] = <<>>]

Next ==
  \/ \E s \in Sockets, m \in Msgs : Put(s, m)
  \/ \E a \in Actors, s \in Sockets : Get(a, s)

Spec == Init /\ [][Next]_<<queue, recv>>

=============================================================================
