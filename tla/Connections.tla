---------------------------- MODULE Connections ----------------------------
(***************************************************************************)
(* What Server promises to the rest of the program and to the peers: a     *)
(* descriptor stands for one connection at a time, a new connection starts *)
(* with nothing to send, replies go to connections ServerState has a       *)
(* client for and are sent a part at a time, and whatever is unsent goes   *)
(* with the connection.  There is no poll, no vector and no kernel here.   *)
(***************************************************************************)
EXTENDS Integers

CONSTANTS
  Fd,           \* descriptors
  NoBuffer,     \* a descriptor without a connection
  MaxQueue,     \* bound: replies a connection may have waiting
  OutOfMemory   \* may a connection be left without a client

VARIABLES
  queue,   \* the number of replies that wait to be sent, per descriptor
  served   \* the connections with a client

vars == <<queue, served>>

IsUp(f) == queue[f] # NoBuffer

Open(f) ==
  /\ ~IsUp(f)
  /\ queue' = [queue EXCEPT ![f] = 0]
  /\ \/ served' = served \cup {f}
     \/ OutOfMemory /\ served' = served

(* The replies of some commands: more for those in `to', and for nobody    *)
(* else.                                                                   *)
Reply(to) ==
  /\ to \subseteq served
  /\ queue' \in [Fd -> (0..MaxQueue) \cup {NoBuffer}]
  /\ \A f \in Fd : IF f \in to THEN IsUp(f) /\ queue'[f] \in queue[f]..MaxQueue
                               ELSE queue'[f] = queue[f]
  /\ UNCHANGED served

(* Some bytes are sent: they may be less than one reply.                   *)
Deliver(f) ==
  /\ IsUp(f)
  /\ \E left \in 0 .. queue[f] : queue' = [queue EXCEPT ![f] = left]
  /\ UNCHANGED served

Close(f) ==
  /\ IsUp(f)
  /\ queue' = [queue EXCEPT ![f] = NoBuffer]
  /\ served' = served \ {f}

Init ==
  /\ queue = [f \in Fd |-> NoBuffer]
  /\ served = {}

Next ==
  \/ \E f \in Fd : Open(f) \/ Deliver(f) \/ Close(f)
  \/ \E to \in SUBSET Fd : Reply(to)

Spec == Init /\ [][Next]_vars
=============================================================================
