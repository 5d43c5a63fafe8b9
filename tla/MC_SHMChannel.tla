--------------------------- MODULE MC_SHMChannel ---------------------------
(* Model-checking instance of SHMChannel: two client threads on one       *)
(* connection, two workers, three calls, request and response lengths     *)
(* that force a grow by the client and by the server.                     *)
EXTENDS SHMChannel, TLC

MCThreads == {"t1", "t2"}
MCWorkers == {"w1", "w2"}



=============================================================================
