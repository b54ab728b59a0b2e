--------------------------- MODULE LoopProperties ---------------------------
(***************************************************************************)
(* What the poll loop promises: its tables agree at every system call, it  *)
(* never makes a call that would block or fail for nothing, and everybody  *)
(* is served.                                                              *)
(***************************************************************************)
EXTENDS ServerLoop

Conn == INSTANCE Connections WITH queue <- sendBuffers, served <- clients

Listed     == {pollfds[k] : k \in 1..Len(pollfds)}
Waiting(f) == sendBuffers[f] \notin {NoBuffer, 0}
Pending    == \E k \in 1..Len(pollfds) : Events(pollfds[k]) # {}

(* Every variable has its type.                                            *)
TypeOK ==
  /\ pollfds \in Seq(Fd \cup {Listener})
  /\ wantsOut \subseteq Fd /\ recvBuffers \subseteq Fd /\ clients \subseteq Fd
  /\ revents \in [Fd \cup {Listener} -> SUBSET {"IN", "OUT", "ERR"}]
  /\ sendBuffers \in [Fd -> (0..MaxQueue) \cup {NoBuffer}]
  /\ running \in BOOLEAN
  /\ loop \in [at: {"while", "poll", "in", "out", "err", "stopped", "killed"},
               i: Nat \ {0}, clientFd: Fd \cup {Listener}]
  /\ sock \in [Fd -> Socket \cup {Closed}]
  /\ backlog \in 0..MaxBacklog

(* The pollfd vector, the two buffer maps and the kernel know the same     *)
(* connections, and the vector lists none twice, whatever order accepts,   *)
(* closes, failed sends and second disconnects came in.  ServerState knows *)
(* no other ones, and lacks one only if it had no memory for its client.   *)
ListedOnce ==
  \A j, k \in 1..Len(pollfds) : pollfds[j] = pollfds[k] => j = k
SocketsAgree ==
  /\ ListedOnce
  /\ Listed = recvBuffers \cup {Listener}
  /\ {f \in Fd : sendBuffers[f] # NoBuffer} = recvBuffers
  /\ {f \in Fd : IsOpen(f)} = recvBuffers
  /\ clients \subseteq recvBuffers
  /\ ~OutOfMemory => clients = recvBuffers

(* The loop, with its vector, its walk and its late and repeated           *)
(* disconnects, is a table of connections as Connections describes it: no  *)
(* reply outlives its connection or reaches the next one on the same       *)
(* descriptor, and a connection without a client is never sent anything.   *)
ImplementsConnections == Conn!Spec

(* docs/interface.md 8.6: exactly the descriptors with unsent data are     *)
(* watched for writing.  A missing flag strands replies, a useless one     *)
(* makes poll return at once for ever.                                     *)
PollOutExact == wantsOut = {f \in recvBuffers : Waiting(f)}

(* What poll reported is still true when the loop acts on it, although     *)
(* entries have moved in the vector and descriptors have been reused since:*)
(* accept and recv find something, and send has something to send.  On     *)
(* Linux the listening socket blocks, so an accept for nothing would hang. *)
NoBlindCall ==
  /\ InBody /\ "IN" \in revents[Entry] =>
       IF Entry = Listener THEN backlog > 0 ELSE Readable(Entry)
  /\ loop.at = "out" /\ "OUT" \in revents[loop.clientFd] =>
       Writable(loop.clientFd) /\ Waiting(loop.clientFd)

(* docs/design.md 4: an EAGAIN is not the end of a connection.  A client   *)
(* whose peer has neither closed nor reset is not disconnected.            *)
HealthyKept ==
  [][\A f \in recvBuffers : sock[f].peer = "up" => IsOpen(f)']_vars

-----------------------------------------------------------------------------
(* Liveness.                                                               *)

(* A connection whose peer has closed or reset it is cleaned up, however   *)
(* often the loop skips an entry after a failed send.                      *)
DeadPeersGo ==
  \A f \in Fd : (IsOpen(f) /\ sock[f].peer # "up") ~> (~IsOpen(f) \/ Ended)

(* What a peer sends is read.                                              *)
InputRead ==
  \A f \in Fd : (IsOpen(f) /\ sock[f].inbox = MaxInbox) ~>
                  (~IsOpen(f) \/ sock[f].inbox < MaxInbox \/ Ended)

(* A client with replies waiting is sent some, again and again, as long as *)
(* its peer reads.                                                         *)
SendsTo(f) == SendData /\ loop.clientFd = f
RepliesServed ==
  \A f \in Fd : <>[](Waiting(f) /\ ~Ended) => []<><<SendsTo(f)>>_vars

(* A signal ends the server, at the latest after the next event.           *)
StopsAtNextEvent == (~running /\ Pending) ~> Ended

-----------------------------------------------------------------------------
(* Statements of the design document.                                      *)

(* docs/design.md 11: when a client disconnects the server keeps running.  *)
NeverKilled == loop.at # "killed"

(* docs/design.md 10.2: deletions in the loop do not break its index.  The *)
(* entry the error test reads is that of the client being handled.         *)
IndexStillMine ==
  loop.at = "err" => loop.i <= Len(pollfds) /\ Entry = loop.clientFd
=============================================================================
