----------------------------- MODULE IRCServer -----------------------------
(***************************************************************************)
(* The whole program as its one thread runs it: Server calls the command   *)
(* core for every complete message, and queues the replies of the result   *)
(* once the handler has returned.  ServerLoop says in which order poll     *)
(* serves the connections; here any order may come.  Nothing of Server     *)
(* happens while a handler walks through its list.                         *)
(***************************************************************************)
EXTENDS IRCSafety

CONSTANTS
  NoBuffer,   \* _sendBuffers without an entry for the descriptor
  MaxQueue    \* bound: replies in a send buffer

ASSUME QueueAssumption == MaxQueue \in Nat \ {0} /\ NoBuffer \notin Nat

VARIABLE queue   \* _sendBuffers: the number of replies in an entry

servervars == <<vars, queue>>

IsUp(f) == queue[f] # NoBuffer

-----------------------------------------------------------------------------
(* acceptNewClient.  addNewClient may report that it has no memory for a   *)
(* Client.  Nobody reads the report: the connection stays without one.     *)
Accept(f) ==
  /\ job = NoJob /\ ~IsUp(f)
  /\ \/ \E a \in Addr : AddNewClient(f, a)
     \/ OutOfMemory /\ UNCHANGED vars
  /\ queue' = [queue EXCEPT ![f] = 0]

(* _sendBuffers[fd] += reply.  The brackets make an entry for a descriptor *)
(* that has none.                                                          *)
Longer(q, replies) ==
  LET sum == (IF q = NoBuffer THEN 0 ELSE q) + Len(replies)
  IN  IF replies = <<>> THEN q ELSE IF sum > MaxQueue THEN MaxQueue ELSE sum

(* The end of processMessage: once the handler has returned, every reply   *)
(* of its result is queued.                                                *)
QueueResponses ==
  queue' = [f \in Fd |-> IF job' = NoJob THEN Longer(queue[f], result'[f])
                                         ELSE queue[f]]

(* A message of a connection without a client is dropped by every handler. *)
ProcessMessage(f) == IsUp(f) /\ Dispatch(f) /\ QueueResponses

HandlerGoesOn == Turn /\ QueueResponses

(* sendData: the kernel takes some bytes, maybe less than one reply.       *)
SendData(f) ==
  /\ job = NoJob /\ IsUp(f)
  /\ \E left \in 0 .. queue[f] : queue' = [queue EXCEPT ![f] = left]
  /\ UNCHANGED vars

(* disconnectClient.                                                       *)
Disconnect(f) ==
  /\ job = NoJob /\ IsUp(f)
  /\ \/ RemoveClient(f)
     \/ clientsByFd[f] = NULL /\ UNCHANGED vars
  /\ queue' = [queue EXCEPT ![f] = NoBuffer]

-----------------------------------------------------------------------------
ServerInit == Init /\ queue = [f \in Fd |-> NoBuffer]

ServerNext ==
  \/ \E f \in Fd : Accept(f) \/ ProcessMessage(f) \/ SendData(f) \/ Disconnect(f)
  \/ HandlerGoesOn

ServerSpec == ServerInit /\ [][ServerNext]_servervars

(* A handler runs until it returns: nothing in it waits.                   *)
FairServer == ServerSpec /\ WF_servervars(HandlerGoesOn)

-----------------------------------------------------------------------------
(* The connections ServerState has a client for.                           *)
Clients == {f \in Fd : clientsByFd[f] # NULL}

Conn == INSTANCE Connections WITH served <- Clients

(* The command core keeps the promise Server makes to the peers, in the    *)
(* abstract form the poll loop is shown to keep as well: whatever lists,   *)
(* kicks, renames and disconnects a channel has seen, every reply goes to a*)
(* connection that is there and has a client.  One more, and an entry of   *)
(* _sendBuffers would be left for whoever gets that descriptor next.       *)
ServesConnections == Conn!Spec

(* A line that nobody can interrupt does not hold up the server for ever:  *)
(* every handler comes to its end, whatever it skips, refuses or repeats.  *)
EveryHandlerReturns == job # NoJob ~> job = NoJob
=============================================================================
