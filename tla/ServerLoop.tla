----------------------------- MODULE ServerLoop -----------------------------
(***************************************************************************)
(* Server: the poll loop of one thread, its pollfd vector, its buffers and *)
(* the sockets the kernel keeps for it, on the Linux build.  An action of  *)
(* the loop runs from one system call to the next; the peers act at any    *)
(* moment in between.                                                      *)
(*                                                                         *)
(* The commands inside a chunk of input are the business of IRCCore: here  *)
(* they leave replies in the buffers of some connected clients.  No handler*)
(* asks for a disconnect, so processMessage never closes a connection.     *)
(***************************************************************************)
EXTENDS Integers, Sequences, FiniteSets, SequencesExt

CONSTANTS
  Fd,          \* descriptors accept may return
  Listener,    \* _serverFd
  NoBuffer,    \* a std::map without an entry for the descriptor
  Closed,      \* a descriptor the process has not open
  MaxInbox,    \* bound: chunks a peer has sent and recv has not returned
  MaxQueue,    \* bound: replies in a send buffer
  MaxBacklog,  \* bound: connections that wait for accept
  Spurious,    \* may recv and send answer EAGAIN to a descriptor poll reported
  OutOfMemory  \* may the allocation of a Client fail

ASSUME LoopAssumption ==
  /\ Listener \notin Fd
  /\ {MaxInbox, MaxQueue, MaxBacklog} \subseteq Nat \ {0}
  /\ NoBuffer \notin Nat
  /\ {Spurious, OutOfMemory} \subseteq BOOLEAN

VARIABLES
  pollfds,      \* _pollfds: the descriptors, in order
  wantsOut,     \* those whose events hold POLLOUT
  revents,      \* what the last poll reported for each of them
  recvBuffers,  \* _recvBuffers: the descriptors that have an entry
  sendBuffers,  \* _sendBuffers: the replies in an entry
  clients,      \* the descriptors ServerState has a Client for
  running,      \* g_server_running
  loop,         \* where ircLoop is: [at, i, clientFd]
  sock,         \* the kernel's side of each descriptor
  backlog       \* connections the kernel has completed, not yet accepted

tables == <<pollfds, wantsOut, recvBuffers, sendBuffers, clients>>
vars   == <<tables, revents, running, loop, sock, backlog>>

-----------------------------------------------------------------------------
(* The kernel.  A peer is up, has closed its side, has reset the connection*)
(* or has reset it after closing: the next send then raises SIGPIPE.       *)
Socket == [peer: {"up", "closed", "reset", "broken"}, inbox: 0..MaxInbox,
           room: BOOLEAN]
Fresh  == [peer |-> "up", inbox |-> 0, room |-> TRUE]

ASSUME ClosedAssumption == Closed \notin Socket

IsOpen(f)    == sock[f] # Closed
IsReset(f)   == sock[f].peer \in {"reset", "broken"}
Readable(f)  == sock[f].inbox > 0 \/ sock[f].peer # "up"
Writable(f)  == sock[f].room \/ IsReset(f)

(* What poll reports for a descriptor of the vector.                       *)
Events(f) ==
  IF f = Listener THEN {e \in {"IN"} : backlog > 0}
  ELSE IF ~IsOpen(f) THEN {"ERR"}
  ELSE {e \in {"IN"} : Readable(f)}
         \cup {e \in {"OUT"} : f \in wantsOut /\ Writable(f)}
         \cup {e \in {"ERR"} : IsReset(f)}

-----------------------------------------------------------------------------
(* Moving on in ircLoop.                                                   *)
Ended    == loop.at \in {"stopped", "killed"}
GoTo(at) == loop' = [loop EXCEPT !.at = at]

(* The top of the loop body, for the entry at index i; the local clientFd  *)
(* of the body is unset there.                                             *)
InBody       == loop.at = "in" /\ loop.i <= Len(pollfds)
Entry        == pollfds[loop.i]
GoOn(i)      == loop' = [at |-> "in", i |-> i, clientFd |-> Listener]
SameIndex    == GoOn(loop.i)
BadNextIndex == GoOn(loop.i + 2)
NextIndex    == GoOn(loop.i + 1)
HandleOut(f) == loop' = [loop EXCEPT !.at = "out", !.clientFd = f]

(* Nobody reads the report on f any more before poll overwrites it.        *)
UsedUp(f) == [revents EXCEPT ![f] = {}]

BadDropped(f) == [sendBuffers EXCEPT ![f] = 0]
Dropped(f)    == [sendBuffers EXCEPT ![f] = NoBuffer]

(* disconnectClient, also for a descriptor it has already disconnected.    *)
DisconnectClient(f) ==
  /\ sock' = [sock EXCEPT ![f] = Closed]
  /\ recvBuffers' = recvBuffers \ {f}
  /\ sendBuffers' = Dropped(f)
  /\ clients' = clients \ {f}
  /\ pollfds' = RemoveFirst(pollfds, f)
  /\ wantsOut' = wantsOut \ {f}
  /\ revents' = UsedUp(f)

-----------------------------------------------------------------------------
(* ircLoop.                                                                *)

BadKeepGoing == TRUE
KeepGoing    == running

While ==
  /\ loop.at = "while"
  /\ GoTo(IF KeepGoing THEN "poll" ELSE "stopped")
  /\ UNCHANGED <<tables, revents, running, sock, backlog>>

(* poll returns once there is something to report.                         *)
Poll ==
  /\ loop.at = "poll"
  /\ \E k \in 1..Len(pollfds) : Events(pollfds[k]) # {}
  /\ revents' = [f \in Fd \cup {Listener} |->
                   IF \E k \in 1..Len(pollfds) : pollfds[k] = f
                     THEN Events(f) ELSE {}]
  /\ GoOn(1)
  /\ UNCHANGED <<tables, running, sock, backlog>>

EndOfRound ==
  /\ loop.at = "in" /\ loop.i > Len(pollfds)
  /\ loop' = [loop EXCEPT !.at = "while", !.i = 1]
  /\ UNCHANGED <<tables, revents, running, sock, backlog>>

NoInput ==
  /\ InBody /\ "IN" \notin revents[Entry]
  /\ HandleOut(Entry)
  /\ UNCHANGED <<tables, revents, running, sock, backlog>>

(* addNewClient may report that it has no memory for a Client.  Nobody     *)
(* reads the report: the connection stays, without a client.               *)
AddNewClient(f) ==
  \/ clients' = clients \cup {f}
  \/ OutOfMemory /\ UNCHANGED clients

(* acceptNewClient.  Without a free descriptor accept fails and nothing    *)
(* happens; without a connection it would block.                           *)
BadNewEvents == {"IN"}
NewEvents    == {}

AcceptNewClient ==
  /\ InBody /\ Entry = Listener /\ "IN" \in revents[Listener] /\ backlog > 0
  /\ \/ \E f \in Fd :
          /\ ~IsOpen(f)
          /\ sock' = [sock EXCEPT ![f] = Fresh]
          /\ backlog' = backlog - 1
          /\ pollfds' = Append(pollfds, f)
          /\ revents' = [revents EXCEPT ![f] = NewEvents]
          /\ recvBuffers' = recvBuffers \cup {f}
          /\ sendBuffers' = [sendBuffers EXCEPT ![f] = 0]
          /\ AddNewClient(f)
     \/ /\ \A f \in Fd : IsOpen(f)
        /\ UNCHANGED <<sock, backlog, pollfds, revents, recvBuffers, sendBuffers,
                       clients>>
  /\ HandleOut(Listener)
  /\ UNCHANGED <<wantsOut, running>>

(* queueResponse for the replies of the commands of a chunk: at least one  *)
(* for every client in `to', up to the bound.                              *)
BadQueueFirst(to) == wantsOut \cup {pollfds[k] : k \in {j \in {1} : to # {}}}
BadQueueFlag(to) == wantsOut \cup {f \in to : sendBuffers[f] > 0}
QueueFlag(to)    == wantsOut \cup to
QueueResponses(to) ==
  /\ sendBuffers' = [f \in Fd |->
       IF f \in to /\ sendBuffers[f] < MaxQueue THEN sendBuffers[f] + 1
                                                 ELSE sendBuffers[f]]
  /\ wantsOut' = QueueFlag(to)
  /\ UNCHANGED <<pollfds, recvBuffers, clients>>

(* The clients the commands of a connection may make replies for.  Every   *)
(* handler drops the command of a connection without a client.             *)
Audience(f) == IF f \in clients THEN clients ELSE {}

(* receiveData: a chunk, or the end of the connection, or an error.        *)
AtEnd(f) == sock[f].inbox = 0 /\ sock[f].peer # "up"

ReceiveData ==
  /\ InBody /\ Entry # Listener /\ "IN" \in revents[Entry]
  /\ \/ /\ sock[Entry].inbox > 0
        /\ sock' = [sock EXCEPT ![Entry].inbox = @ - 1]
        /\ \E to \in SUBSET Audience(Entry) : QueueResponses(to)
        /\ HandleOut(Entry)
        /\ UNCHANGED revents
     \/ AtEnd(Entry) /\ DisconnectClient(Entry) /\ SameIndex
     \/ Spurious /\ DisconnectClient(Entry) /\ SameIndex
  /\ UNCHANGED <<running, backlog>>

NoOutput ==
  /\ loop.at = "out" /\ "OUT" \notin revents[loop.clientFd]
  /\ GoTo("err")
  /\ UNCHANGED <<tables, revents, running, sock, backlog>>

(* sendData, when the kernel takes some bytes.  It takes all of them unless*)
(* its buffer fills up; `left' counts the replies that are not wholly sent,*)
(* so it may be as many as before.                                         *)
BadStillWaiting(f, left) == wantsOut
BadRestForgotten(f, left) == wantsOut \ {f}
StillWaiting(f, left) == IF left = 0 THEN wantsOut \ {f} ELSE wantsOut

SendData ==
  /\ loop.at = "out" /\ "OUT" \in revents[loop.clientFd]
  /\ LET f == loop.clientFd
     IN  /\ sock[f].room /\ ~IsReset(f)
         /\ \E left \in 0 .. sendBuffers[f], room \in BOOLEAN :
              /\ left > 0 => ~room
              /\ sendBuffers' = [sendBuffers EXCEPT ![f] = left]
              /\ sock' = [sock EXCEPT ![f].room = room]
              /\ wantsOut' = StillWaiting(f, left)
  /\ GoTo("err")
  /\ UNCHANGED <<pollfds, recvBuffers, clients, revents, running, backlog>>

(* sendData, when send fails: the client is disconnected, but ircLoop's    *)
(* `disconnected' stays false.                                             *)
BadSendFails(f) == sock[f].peer = "reset" \/ sendBuffers[f] > 0
SendFails(f)    == sock[f].peer = "reset" \/ Spurious

SendError ==
  /\ loop.at = "out" /\ "OUT" \in revents[loop.clientFd]
  /\ SendFails(loop.clientFd)
  /\ DisconnectClient(loop.clientFd)
  /\ GoTo("err")
  /\ UNCHANGED <<running, backlog>>

(* A send to a peer that has closed and reset raises SIGPIPE, which nobody *)
(* handles: the process ends, and the kernel closes its descriptors.       *)
SendKills ==
  /\ loop.at = "out" /\ "OUT" \in revents[loop.clientFd]
  /\ sock[loop.clientFd].peer = "broken"
  /\ GoTo("killed")
  /\ UNCHANGED <<tables, revents, running, sock, backlog>>

(* The test for POLLERR | POLLHUP | POLLNVAL reads the entry at i again.   *)
(* After a failed send that is the next client's, or lies behind the end of*)
(* the vector, where the read may find anything.                           *)
ErrorReported ==
  IF loop.i <= Len(pollfds) THEN {"ERR" \in revents[Entry]} ELSE BOOLEAN

CheckError ==
  /\ loop.at = "err"
  /\ \/ TRUE \in ErrorReported /\ DisconnectClient(loop.clientFd) /\ SameIndex
     \/ /\ FALSE \in ErrorReported /\ NextIndex
        /\ revents' = IF loop.i > Len(pollfds) THEN revents ELSE UsedUp(Entry)
        /\ UNCHANGED <<tables, sock>>
  /\ UNCHANGED <<running, backlog>>

Server ==
  \/ While \/ Poll \/ EndOfRound \/ NoInput \/ AcceptNewClient \/ ReceiveData
  \/ NoOutput \/ SendData \/ SendError \/ SendKills \/ CheckError

-----------------------------------------------------------------------------
(* The world: peers, and the signal of the terminal.                       *)

Unchanged == UNCHANGED <<tables, revents>>

Connect ==
  /\ ~Ended /\ backlog < MaxBacklog
  /\ backlog' = backlog + 1
  /\ Unchanged /\ UNCHANGED <<running, loop, sock>>

(* Something happens to the socket of a connection.                        *)
Peer(f, new) ==
  /\ ~Ended /\ sock' = [sock EXCEPT ![f] = new]
  /\ Unchanged /\ UNCHANGED <<running, loop, backlog>>

PeerSends(f) ==
  /\ IsOpen(f) /\ sock[f].peer = "up" /\ sock[f].inbox < MaxInbox
  /\ Peer(f, [sock[f] EXCEPT !.inbox = @ + 1])
PeerReads(f) ==
  /\ IsOpen(f) /\ sock[f].peer \in {"up", "closed"} /\ ~sock[f].room
  /\ Peer(f, [sock[f] EXCEPT !.room = TRUE])
PeerCloses(f) ==
  /\ IsOpen(f) /\ sock[f].peer = "up"
  /\ Peer(f, [sock[f] EXCEPT !.peer = "closed"])
PeerResets(f) ==
  /\ IsOpen(f) /\ sock[f].peer \in {"up", "closed"}
  /\ Peer(f, [sock[f] EXCEPT !.peer = IF @ = "up" THEN "reset" ELSE "broken"])

(* SIGINT or SIGQUIT.  In poll it makes the call fail, which throws out of *)
(* ircLoop; just before poll it only sets the flag.                        *)
Signal ==
  /\ ~Ended /\ running
  /\ running' = FALSE
  /\ \/ UNCHANGED loop
     \/ loop.at = "poll" /\ GoTo("stopped")
  /\ Unchanged /\ UNCHANGED <<sock, backlog>>

World ==
  \/ Connect \/ Signal
  \/ \E f \in Fd : PeerSends(f) \/ PeerReads(f) \/ PeerCloses(f) \/ PeerResets(f)

-----------------------------------------------------------------------------
(* setupSocket.                                                            *)
Init ==
  /\ pollfds = <<Listener>>
  /\ wantsOut = {}
  /\ revents = [f \in Fd \cup {Listener} |-> {}]
  /\ recvBuffers = {}
  /\ sendBuffers = [f \in Fd |-> NoBuffer]
  /\ clients = {}
  /\ running = TRUE
  /\ loop = [at |-> "while", i |-> 1, clientFd |-> Listener]
  /\ sock = [f \in Fd |-> Closed]
  /\ backlog = 0

Next == Server \/ World

Spec == Init /\ [][Next]_vars

(* The thread runs as long as it can.                                      *)
FairSpec == Spec /\ WF_vars(Server)

(* ... and a peer that is up reads what it is sent, sooner or later.       *)
ReadingSpec == FairSpec /\ \A f \in Fd :
  WF_vars(sock[f] # Closed /\ sock[f].peer = "up" /\ PeerReads(f))
=============================================================================
