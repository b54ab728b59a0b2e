-------------------------- MODULE ServerLoopProofs --------------------------
(***************************************************************************)
(* Proofs about the poll loop.  What the tables promise is not inductive:  *)
(* the loop acts on reports that are as old as its round, at an index that *)
(* a disconnect shifts.  Handling says which entry the loop is at, and     *)
(* Trusted that the reports it has still to read are true.                 *)
(***************************************************************************)
EXTENDS LoopProperties, SequenceTheorems, TLAPS

(* The entry at the index is that of the client being handled, until a     *)
(* failed send has disconnected it.                                        *)
Here == loop.i <= Len(pollfds) /\ Entry = loop.clientFd

Handling ==
  /\ loop.at = "out" => Here
  /\ loop.at = "err" => Here \/ loop.clientFd \in Fd \ recvBuffers

(* A report is read three times, at "in", "out" and "err".  Input of the   *)
(* client being handled has been read, and at "err" its output sent.       *)
TrueInput(f)  == IF f = Listener THEN backlog > 0 ELSE Readable(f)
TrueOutput(f) == f # Listener /\ Writable(f) /\ Waiting(f)
TrueError(f)  == f # Listener /\ IsReset(f)

TrustedAt(k) ==
  LET f == pollfds[k]
  IN  /\ "IN" \in revents[f] /\ (loop.at = "in" \/ f # loop.clientFd) => TrueInput(f)
      /\ "OUT" \in revents[f] /\ (loop.at # "err" \/ f # loop.clientFd) => TrueOutput(f)
      /\ "ERR" \in revents[f] => TrueError(f)

Walking == loop.at \in {"in", "out", "err"}
Trusted == Walking => \A k \in loop.i .. Len(pollfds) : TrustedAt(k)

LoopInv == TypeOK /\ SocketsAgree /\ PollOutExact /\ Handling /\ Trusted

-----------------------------------------------------------------------------
(* Removal from a vector that lists nothing twice: the entry is gone, the  *)
(* others are still there, and none has moved to the right.                *)
LEMMA Removal ==
  ASSUME NEW S, NEW s \in Seq(S), NEW e, NEW t, t = RemoveFirst(s, e),
         \A j, k \in 1..Len(s) : s[j] = s[k] => j = k
  PROVE  /\ t \in Seq(S)
         /\ Len(t) <= Len(s)
         /\ \A j, k \in 1..Len(t) : t[j] = t[k] => j = k
         /\ \A k \in 1..Len(t) : t[k] # e /\ \E m \in k..Len(s) : t[k] = s[m]
         /\ \A m \in 1..Len(s) : s[m] # e => \E k \in 1..Len(t) : t[k] = s[m]
  <1>1. CASE ~\E k \in 1..Len(s) : s[k] = e
    BY <1>1 DEF RemoveFirst
  <1>2. CASE \E k \in 1..Len(s) : s[k] = e
    <2>1. PICK p \in 1..Len(s) : s[p] = e
      BY <1>2
    <2>2. SelectInSeq(s, LAMBDA v : v = e) = p
      <3>1. {i \in 1..Len(s) : s[i] = e} = {p}
        BY <2>1
      <3>2. Min({p}) = p
        BY DEF Min
      <3> QED
        BY <3>1, <3>2 DEF SelectInSeq
    <2> DEFINE left == SubSeq(s, 1, p - 1)
               right == SubSeq(s, p + 1, Len(s))
    <2>3. t = left \o right
      BY <1>2, <2>2 DEF RemoveFirst, RemoveAt
    <2>4. /\ left \in Seq(S) /\ Len(left) = p - 1
          /\ \A k \in 1..p - 1 : left[k] = s[k]
      <3>1. \A i \in 1..p - 1 : s[i] \in S
        BY ElementOfSeq
      <3> QED
        BY <2>1, <3>1, SubSeqProperties
    <2>5. /\ right \in Seq(S) /\ Len(right) = Len(s) - p
          /\ \A k \in 1 .. Len(s) - p : right[k] = s[p + k]
      <3>1. \A i \in p + 1..Len(s) : s[i] \in S
        BY ElementOfSeq
      <3> QED
        BY <2>1, <3>1, SubSeqProperties
    <2> HIDE DEF left, right
    <2>6. /\ t \in Seq(S) /\ Len(t) = Len(s) - 1
          /\ \A k \in 1..p - 1 : t[k] = s[k]
          /\ \A k \in p .. Len(s) - 1 : t[k] = s[k + 1]
      <3>1. /\ t \in Seq(S) /\ Len(t) = (p - 1) + (Len(s) - p)
            /\ \A k \in 1 .. (p - 1) + (Len(s) - p) :
                 t[k] = IF k <= p - 1 THEN left[k] ELSE right[k - (p - 1)]
        <4>1. left \in Seq(S) /\ right \in Seq(S)
          BY <2>4, <2>5
        <4>2. /\ t \in Seq(S) /\ Len(t) = Len(left) + Len(right)
              /\ \A k \in 1 .. Len(left) + Len(right) :
                   t[k] = IF k <= Len(left) THEN left[k] ELSE right[k - Len(left)]
          BY <2>3, <4>1, ConcatProperties
        <4> QED
          BY <2>4, <2>5, <4>2
      <3>2. Len(s) \in Nat
        OBVIOUS
      <3>3. ASSUME NEW k \in 1..p - 1 PROVE t[k] = s[k]
        <4>1. k <= p - 1 /\ k \in 1 .. (p - 1) + (Len(s) - p)
          BY <3>2
        <4> QED
          BY <2>4, <3>1, <4>1
      <3>4. ASSUME NEW k \in p .. Len(s) - 1 PROVE t[k] = s[k + 1]
        <4>1. k - (p - 1) \in 1 .. Len(s) - p /\ p + (k - (p - 1)) = k + 1
          BY <3>2
        <4>2. t[k] = right[k - (p - 1)]
          BY <3>1, <3>2
        <4> QED
          BY <2>5, <4>1, <4>2
      <3> QED
        BY <3>1, <3>2, <3>3, <3>4
    <2>7. \A k \in 1..Len(t) : t[k] = s[IF k < p THEN k ELSE k + 1]
      BY <2>1, <2>6
    <2>8. \A m \in 1..Len(s) : s[m] # e =>
            \E k \in 1..Len(t) : t[k] = s[m]
      <3> SUFFICES ASSUME NEW m \in 1..Len(s), s[m] # e
                   PROVE  \E k \in 1..Len(t) : t[k] = s[m]
        OBVIOUS
      <3>1. m # p
        BY <2>1
      <3>2. CASE m < p
        BY <2>6, <3>2
      <3>3. CASE m > p
        <4>1. m - 1 \in 1..Len(t) /\ t[m - 1] = s[m]
          BY <2>6, <3>3
        <4> QED
          BY <4>1
      <3> QED
        BY <3>1, <3>2, <3>3
    <2>9. \A k \in 1..Len(t) : t[k] # e /\ \E m \in k..Len(s) : t[k] = s[m]
      <3> SUFFICES ASSUME NEW k \in 1..Len(t)
                   PROVE  t[k] # e /\ \E m \in k..Len(s) : t[k] = s[m]
        OBVIOUS
      <3>1. PICK m \in k..Len(s) : m # p /\ m \in 1..Len(s) /\ t[k] = s[m]
        BY <2>1, <2>6, <2>7
      <3> QED
        BY <2>1, <3>1
    <2>10. \A j, k \in 1..Len(t) : t[j] = t[k] => j = k
      <3> SUFFICES ASSUME NEW j \in 1..Len(t), NEW k \in 1..Len(t), t[j] = t[k]
                   PROVE  j = k
        OBVIOUS
      <3> DEFINE at(n) == IF n < p THEN n ELSE n + 1
      <3>1. at(j) \in 1..Len(s) /\ at(k) \in 1..Len(s)
        BY <2>1, <2>6
      <3>2. at(j) = at(k)
        BY <2>7, <3>1
      <3> QED
        BY <2>1, <2>6, <3>2
    <2>11. t \in Seq(S) /\ Len(t) <= Len(s)
      BY <2>6
    <2> QED
      BY <2>8, <2>9, <2>10, <2>11
  <1> QED
    BY <1>1, <1>2

-----------------------------------------------------------------------------
(* What the tables say of an entry of the vector.                          *)
LEMMA Entries ==
  ASSUME TypeOK, SocketsAgree
  PROVE  /\ Len(pollfds) \in Nat
         /\ \A k \in 1..Len(pollfds) : pollfds[k] \in recvBuffers \cup {Listener}
         /\ \A f \in recvBuffers :
              /\ f \in Fd /\ f # Listener
              /\ \E k \in 1..Len(pollfds) : pollfds[k] = f
              /\ sock[f] \in Socket /\ IsOpen(f)
              /\ sendBuffers[f] \in 0..MaxQueue
         /\ \A f \in Fd \ recvBuffers :
              /\ sock[f] = Closed /\ sendBuffers[f] = NoBuffer
              /\ f \notin clients
              /\ \A k \in 1..Len(pollfds) : pollfds[k] # f
  <1>1. Len(pollfds) \in Nat
    BY DEF TypeOK
  <1>2. \A k \in 1..Len(pollfds) : pollfds[k] \in recvBuffers \cup {Listener}
    BY DEF SocketsAgree, Listed
  <1>3. ASSUME NEW f \in recvBuffers
        PROVE  /\ f \in Fd /\ f # Listener
               /\ \E k \in 1..Len(pollfds) : pollfds[k] = f
               /\ sock[f] \in Socket /\ IsOpen(f)
               /\ sendBuffers[f] \in 0..MaxQueue
    <2>1. f \in Fd /\ f # Listener
      BY LoopAssumption DEF TypeOK
    <2>2. \E k \in 1..Len(pollfds) : pollfds[k] = f
      BY DEF SocketsAgree, Listed
    <2>3. IsOpen(f) /\ sendBuffers[f] # NoBuffer
      BY DEF SocketsAgree
    <2>4. sock[f] \in Socket /\ sendBuffers[f] \in 0..MaxQueue
      BY <2>1, <2>3 DEF IsOpen, TypeOK
    <2> QED
      BY <2>1, <2>2, <2>3, <2>4
  <1>4. ASSUME NEW f \in Fd \ recvBuffers
        PROVE  /\ sock[f] = Closed /\ sendBuffers[f] = NoBuffer
               /\ f \notin clients
               /\ \A k \in 1..Len(pollfds) : pollfds[k] # f
    <2>1. ~IsOpen(f) /\ sendBuffers[f] = NoBuffer /\ f \notin clients
      BY DEF SocketsAgree
    <2> QED
      BY <1>2, <2>1, LoopAssumption DEF IsOpen
  <1> QED
    BY <1>1, <1>2, <1>3, <1>4

(* A step that moves no table and opens or closes no socket.               *)
LEMMA SameTables ==
  ASSUME SocketsAgree, PollOutExact, UNCHANGED tables,
         \A f \in Fd : IsOpen(f)' <=> IsOpen(f)
  PROVE  SocketsAgree' /\ PollOutExact'
  BY DEF SocketsAgree, PollOutExact, tables, Listed, ListedOnce, Waiting

(* disconnectClient, of a connection or of one that is gone already.       *)
LEMMA Disconnected ==
  ASSUME TypeOK, SocketsAgree, PollOutExact, NEW f \in Fd, DisconnectClient(f)
  PROVE  /\ pollfds' \in Seq(Fd \cup {Listener})
         /\ wantsOut' \subseteq Fd /\ recvBuffers' \subseteq Fd /\ clients' \subseteq Fd
         /\ sendBuffers' \in [Fd -> (0..MaxQueue) \cup {NoBuffer}]
         /\ sock' \in [Fd -> Socket \cup {Closed}]
         /\ revents' \in [Fd \cup {Listener} -> SUBSET {"IN", "OUT", "ERR"}]
         /\ SocketsAgree' /\ PollOutExact'
         /\ f \notin recvBuffers'
         /\ Len(pollfds') <= Len(pollfds)
         /\ \A k \in 1..Len(pollfds') :
              pollfds'[k] # f /\ \E m \in k..Len(pollfds) : pollfds'[k] = pollfds[m]
  <1>1. /\ sock' = [sock EXCEPT ![f] = Closed]
        /\ recvBuffers' = recvBuffers \ {f}
        /\ sendBuffers' = [sendBuffers EXCEPT ![f] = NoBuffer]
        /\ clients' = clients \ {f}
        /\ pollfds' = RemoveFirst(pollfds, f)
        /\ wantsOut' = wantsOut \ {f}
        /\ revents' = [revents EXCEPT ![f] = {}]
    BY DEF DisconnectClient, Dropped, UsedUp
  <1>2. pollfds \in Seq(Fd \cup {Listener}) /\ ListedOnce
    BY DEF TypeOK, SocketsAgree
  <1>3. /\ pollfds' \in Seq(Fd \cup {Listener})
        /\ Len(pollfds') <= Len(pollfds)
        /\ ListedOnce'
        /\ \A k \in 1..Len(pollfds') :
             pollfds'[k] # f /\ \E m \in k..Len(pollfds) : pollfds'[k] = pollfds[m]
        /\ \A m \in 1..Len(pollfds) : pollfds[m] # f =>
             \E k \in 1..Len(pollfds') : pollfds'[k] = pollfds[m]
    <2>1. \A j, k \in 1..Len(pollfds) : pollfds[j] = pollfds[k] => j = k
      BY <1>2 DEF ListedOnce
    <2> QED
      BY <1>1, <1>2, <2>1, Removal DEF ListedOnce
  <1>4. Listed' = Listed \ {f}
    <2>1. ASSUME NEW k \in 1..Len(pollfds') PROVE pollfds'[k] \in Listed \ {f}
      <3>1. PICK m \in k..Len(pollfds) : pollfds'[k] = pollfds[m]
        BY <1>3
      <3>2. m \in 1..Len(pollfds)
        BY <1>2
      <3> QED
        BY <1>3, <3>1, <3>2 DEF Listed
    <2>2. ASSUME NEW m \in 1..Len(pollfds), pollfds[m] # f PROVE pollfds[m] \in Listed'
      <3>1. PICK k \in 1..Len(pollfds') : pollfds'[k] = pollfds[m]
        BY <1>3, <2>2
      <3> QED
        BY <3>1 DEF Listed
    <2>3. Listed' \subseteq Listed \ {f}
      BY <2>1 DEF Listed
    <2>4. Listed \ {f} \subseteq Listed'
      BY <2>2 DEF Listed
    <2> QED
      BY <2>3, <2>4
  <1>5. /\ wantsOut' \subseteq Fd /\ recvBuffers' \subseteq Fd /\ clients' \subseteq Fd
        /\ sendBuffers' \in [Fd -> (0..MaxQueue) \cup {NoBuffer}]
        /\ sock' \in [Fd -> Socket \cup {Closed}]
        /\ revents' \in [Fd \cup {Listener} -> SUBSET {"IN", "OUT", "ERR"}]
    BY <1>1 DEF TypeOK
  <1>6. \A g \in Fd : /\ sendBuffers'[g] = IF g = f THEN NoBuffer ELSE sendBuffers[g]
                      /\ sock'[g] = IF g = f THEN Closed ELSE sock[g]
    BY <1>1 DEF TypeOK
  <1>7. SocketsAgree'
    <2>1. Listed' = recvBuffers' \cup {Listener}
      BY <1>1, <1>4, LoopAssumption DEF SocketsAgree
    <2>2. {g \in Fd : sendBuffers'[g] # NoBuffer} = recvBuffers'
      BY <1>1, <1>6 DEF SocketsAgree
    <2>3. {g \in Fd : IsOpen(g)'} = recvBuffers'
      BY <1>1, <1>6 DEF SocketsAgree, IsOpen
    <2>4. clients' \subseteq recvBuffers' /\ (~OutOfMemory => clients' = recvBuffers')
      BY <1>1 DEF SocketsAgree
    <2> QED
      BY <1>3, <2>1, <2>2, <2>3, <2>4 DEF SocketsAgree
  <1>8. PollOutExact'
    BY <1>1, <1>6 DEF PollOutExact, Waiting, TypeOK
  <1> QED
    BY <1>1, <1>3, <1>5, <1>7, <1>8

-----------------------------------------------------------------------------
(* Where a step leaves the loop.                                           *)
Places == {"while", "poll", "in", "out", "err", "stopped", "killed"}
Loops  == [at: Places, i: Nat \ {0}, clientFd: Fd \cup {Listener}]

LEMMA LoopMoves ==
  ASSUME TypeOK
  PROVE  /\ loop.i \in Nat \ {0} /\ loop.clientFd \in Fd \cup {Listener}
         /\ \A at \in Places : GoTo(at) =>
              /\ loop'.at = at /\ loop'.i = loop.i /\ loop'.clientFd = loop.clientFd
              /\ loop' \in Loops
         /\ \A i \in Nat \ {0} : GoOn(i) =>
              /\ loop'.at = "in" /\ loop'.i = i
              /\ loop' \in Loops
         /\ \A f \in Fd \cup {Listener} : HandleOut(f) =>
              /\ loop'.at = "out" /\ loop'.i = loop.i /\ loop'.clientFd = f
              /\ loop' \in Loops
  <1>1. loop \in Loops /\ Listener \in Fd \cup {Listener}
    BY DEF TypeOK, Loops, Places
  <1>2. ASSUME NEW at \in Places, GoTo(at)
        PROVE  /\ loop'.at = at /\ loop'.i = loop.i /\ loop'.clientFd = loop.clientFd
               /\ loop' \in Loops
    BY <1>1, <1>2 DEF GoTo, Loops
  <1>3. ASSUME NEW i \in Nat \ {0}, GoOn(i)
        PROVE  loop'.at = "in" /\ loop'.i = i /\ loop' \in Loops
    <2>1. "in" \in Places
      BY DEF Places
    <2> QED
      BY <1>1, <1>3, <2>1 DEF GoOn, Loops
  <1>4. ASSUME NEW f \in Fd \cup {Listener}, HandleOut(f)
        PROVE  /\ loop'.at = "out" /\ loop'.i = loop.i /\ loop'.clientFd = f
               /\ loop' \in Loops
    <2>1. "out" \in Places
      BY DEF Places
    <2> QED
      BY <1>1, <1>4, <2>1 DEF HandleOut, Loops
  <1>5. loop.i \in Nat \ {0} /\ loop.clientFd \in Fd \cup {Listener}
    BY <1>1 DEF Loops
  <1> QED
    BY <1>2, <1>3, <1>4, <1>5

(* A report is true when it is made.                                       *)
LEMMA EventsTrue ==
  ASSUME TypeOK, SocketsAgree, PollOutExact, NEW k \in 1..Len(pollfds)
  PROVE  /\ "IN" \in Events(pollfds[k]) => TrueInput(pollfds[k])
         /\ "OUT" \in Events(pollfds[k]) => TrueOutput(pollfds[k])
         /\ "ERR" \in Events(pollfds[k]) => TrueError(pollfds[k])
         /\ Events(pollfds[k]) \subseteq {"IN", "OUT", "ERR"}
  <1> SUFFICES ASSUME NEW f, f = pollfds[k]
               PROVE  /\ "IN" \in Events(f) => TrueInput(f)
                      /\ "OUT" \in Events(f) => TrueOutput(f)
                      /\ "ERR" \in Events(f) => TrueError(f)
                      /\ Events(f) \subseteq {"IN", "OUT", "ERR"}
    OBVIOUS
  <1>1. f \in recvBuffers \cup {Listener}
    BY Entries
  <1>2. CASE f = Listener
    BY <1>2 DEF Events, TrueInput
  <1>3. CASE f \in recvBuffers
    <2>1. f # Listener /\ IsOpen(f)
      BY <1>3, Entries
    <2>2. Events(f) = {e \in {"IN"} : Readable(f)}
                        \cup {e \in {"OUT"} : f \in wantsOut /\ Writable(f)}
                        \cup {e \in {"ERR"} : IsReset(f)}
      BY <2>1 DEF Events
    <2>3. f \in wantsOut => Waiting(f)
      BY DEF PollOutExact
    <2> QED
      BY <2>1, <2>2, <2>3 DEF TrueInput, TrueOutput, TrueError
  <1> QED
    BY <1>1, <1>2, <1>3

LEMMA PollKeeps ==
  ASSUME LoopInv, Poll
  PROVE  LoopInv'
  <1>1. TypeOK /\ SocketsAgree /\ PollOutExact
    BY DEF LoopInv
  <1>2. /\ loop'.at = "in" /\ loop'.i = 1
        /\ loop' \in Loops
    BY <1>1, LoopMoves DEF Poll
  <1>3. /\ UNCHANGED <<tables, running, sock, backlog>>
        /\ revents' = [f \in Fd \cup {Listener} |->
                         IF \E k \in 1..Len(pollfds) : pollfds[k] = f
                           THEN Events(f) ELSE {}]
    BY DEF Poll
  <1>4. SocketsAgree' /\ PollOutExact'
    BY <1>1, <1>3, SameTables DEF IsOpen
  <1>5. \A k \in 1..Len(pollfds) :
          pollfds[k] \in Fd \cup {Listener} /\ revents'[pollfds[k]] = Events(pollfds[k])
    BY <1>1, <1>3, Entries
  <1>6. revents' \in [Fd \cup {Listener} -> SUBSET {"IN", "OUT", "ERR"}]
    BY <1>1, <1>3, EventsTrue
  <1>7. TypeOK'
    BY <1>1, <1>2, <1>3, <1>6 DEF TypeOK, tables, Loops, Places
  <1>8. Handling'
    BY <1>2 DEF Handling
  <1>9. Trusted'
    <2> SUFFICES ASSUME NEW k \in 1..Len(pollfds) PROVE TrustedAt(k)'
      BY <1>2, <1>3 DEF Trusted, tables
    <2> QED
      BY <1>1, <1>3, <1>5, EventsTrue
         DEF TrustedAt, TrueInput, TrueOutput, TrueError, Readable, Writable, IsReset,
             Waiting, tables
  <1> QED
    BY <1>4, <1>7, <1>8, <1>9 DEF LoopInv

(* The steps that only move the loop, or set the flag.                     *)
LEMMA MovesKeep ==
  ASSUME LoopInv, While \/ EndOfRound \/ NoInput \/ NoOutput \/ SendKills \/ Signal
  PROVE  LoopInv'
  <1>1. /\ TypeOK /\ SocketsAgree /\ PollOutExact /\ Handling /\ Trusted
        /\ UNCHANGED <<tables, revents, sock, backlog>>
    BY DEF LoopInv, While, EndOfRound, NoInput, NoOutput, SendKills, Signal, Unchanged
  <1>2. SocketsAgree' /\ PollOutExact'
    BY <1>1, SameTables DEF IsOpen
  <1>3. ASSUME loop' \in Loops,
               running' \in BOOLEAN
        PROVE  TypeOK'
    BY <1>1, <1>3 DEF TypeOK, tables, Loops, Places
  <1>4. ASSUME loop'.at \notin {"in", "out", "err"} PROVE Handling' /\ Trusted'
    BY <1>4 DEF Handling, Trusted, Walking
  <1>5. running \in BOOLEAN
    BY <1>1 DEF TypeOK
  <1>6. CASE While \/ SendKills
    <2>1. /\ GoTo("poll") \/ GoTo("stopped") \/ GoTo("killed")
          /\ running' = running
      BY <1>6 DEF While, SendKills
    <2>2. {"poll", "stopped", "killed"} \subseteq Places
      BY DEF Places
    <2>3. /\ loop'.at \in {"poll", "stopped", "killed"}
          /\ loop' \in Loops
      BY <1>1, <2>1, <2>2, LoopMoves
    <2> QED
      BY <1>2, <1>3, <1>4, <1>5, <2>1, <2>3 DEF LoopInv
  <1>7. CASE EndOfRound
    <2>1. /\ loop' = [loop EXCEPT !.at = "while", !.i = 1]
          /\ running' = running
      BY <1>7 DEF EndOfRound
    <2>2. /\ loop'.at = "while"
          /\ loop' \in Loops
      <3>1. loop \in Loops /\ "while" \in Places
        BY <1>1 DEF TypeOK, Loops, Places
      <3>2. loop' = [at |-> "while", i |-> 1, clientFd |-> loop.clientFd]
        BY <2>1, <3>1 DEF Loops
      <3> QED
        BY <3>1, <3>2 DEF Loops
    <2> QED
      BY <1>2, <1>3, <1>4, <1>5, <2>1, <2>2 DEF LoopInv
  <1>8. CASE NoInput
    <2>1. InBody /\ "IN" \notin revents[Entry] /\ HandleOut(Entry) /\ running' = running
      BY <1>8 DEF NoInput
    <2>2. Entry \in Fd \cup {Listener} /\ loop.i \in 1..Len(pollfds)
      BY <1>1, <2>1, LoopMoves DEF InBody, Entry, TypeOK
    <2>3. /\ loop'.at = "out" /\ loop'.i = loop.i /\ loop'.clientFd = Entry
          /\ loop' \in Loops
      BY <1>1, <2>1, <2>2, LoopMoves
    <2>4. Handling'
      BY <1>1, <2>2, <2>3 DEF Handling, Here, Entry, tables
    <2>5. Trusted'
      BY <1>1, <2>1, <2>3 DEF Trusted, Walking, TrustedAt, InBody, TrueInput,
         TrueOutput, TrueError, Readable, Writable, IsReset, Waiting, tables
    <2> QED
      BY <1>2, <1>3, <1>5, <2>1, <2>3, <2>4, <2>5 DEF LoopInv
  <1>9. CASE NoOutput
    <2>1. /\ loop.at = "out" /\ "OUT" \notin revents[loop.clientFd]
          /\ GoTo("err") /\ running' = running
      BY <1>9 DEF NoOutput
    <2>2. /\ loop'.at = "err" /\ loop'.i = loop.i /\ loop'.clientFd = loop.clientFd
          /\ loop' \in Loops
      BY <1>1, <2>1, LoopMoves DEF Places
    <2>3. Handling'
      BY <1>1, <2>1, <2>2 DEF Handling, Here, Entry, tables
    <2>4. Trusted'
      BY <1>1, <2>1, <2>2 DEF Trusted, Walking, TrustedAt, TrueInput,
         TrueOutput, TrueError, Readable, Writable, IsReset, Waiting, tables
    <2> QED
      BY <1>2, <1>3, <1>5, <2>1, <2>2, <2>3, <2>4 DEF LoopInv
  <1>10. CASE Signal
    <2>1. running' = FALSE /\ (loop' = loop \/ GoTo("stopped"))
      BY <1>10 DEF Signal
    <2>2. CASE loop' = loop
      <3>1. Handling' /\ Trusted'
        BY <1>1, <2>2 DEF Handling, Here, Entry, Trusted, Walking, TrustedAt,
           TrueInput, TrueOutput, TrueError, Readable, Writable, IsReset, Waiting, tables
      <3>2. TypeOK'
        BY <1>1, <1>3, <2>1, <2>2 DEF TypeOK, Loops, Places
      <3> QED
        BY <1>2, <3>1, <3>2 DEF LoopInv
    <2>3. CASE GoTo("stopped")
      <3>1. /\ loop'.at = "stopped"
            /\ loop' \in Loops
        BY <1>1, <2>3, LoopMoves DEF Places
      <3> QED
        BY <1>2, <1>3, <1>4, <2>1, <3>1 DEF LoopInv
    <2> QED
      BY <2>1, <2>2, <2>3
  <1> QED
    BY <1>6, <1>7, <1>8, <1>9, <1>10

-----------------------------------------------------------------------------
(* The steps of the peers: what was true of a connection stays true.       *)
LEMMA PeersKeepTrust ==
  ASSUME LoopInv, UNCHANGED <<tables, revents, running, loop>>,
         backlog' \in backlog..MaxBacklog, sock' \in [Fd -> Socket \cup {Closed}],
         \A f \in Fd : /\ IsOpen(f)' <=> IsOpen(f)
                       /\ IsOpen(f) /\ Readable(f) => Readable(f)'
                       /\ IsOpen(f) /\ Writable(f) => Writable(f)'
                       /\ IsOpen(f) /\ IsReset(f) => IsReset(f)'
  PROVE  LoopInv'
  <1>1. TypeOK /\ SocketsAgree /\ PollOutExact /\ Handling /\ Trusted
    BY DEF LoopInv
  <1>2. SocketsAgree' /\ PollOutExact'
    BY <1>1, SameTables
  <1>3. backlog' \in 0..MaxBacklog /\ backlog \in Nat /\ backlog' \in Nat
    BY <1>1, LoopAssumption DEF TypeOK
  <1>4. TypeOK'
    BY <1>1, <1>3 DEF TypeOK, tables
  <1>5. Handling'
    BY <1>1 DEF Handling, Here, Entry, tables
  <1>6. ASSUME NEW k \in 1..Len(pollfds), TrustedAt(k) PROVE TrustedAt(k)'
    <2>1. PICK g \in recvBuffers \cup {Listener} : g = pollfds[k]
      BY <1>1, Entries
    <2>2. CASE g = Listener
      BY <1>3, <1>6, <2>1, <2>2
         DEF TrustedAt, TrueInput, TrueOutput, TrueError, tables
    <2>3. CASE g \in recvBuffers
      <3>1. g \in Fd /\ IsOpen(g) /\ g # Listener
        BY <1>1, <2>3, Entries
      <3>2. /\ TrueInput(g) => TrueInput(g)'
            /\ TrueOutput(g) => TrueOutput(g)'
            /\ TrueError(g) => TrueError(g)'
        BY <3>1 DEF TrueInput, TrueOutput, TrueError, Waiting, tables
      <3> HIDE DEF tables
      <3>3. pollfds' = pollfds /\ revents' = revents /\ loop' = loop
        BY DEF tables
      <3> QED
        BY <1>6, <2>1, <3>2, <3>3 DEF TrustedAt
    <2> QED
      BY <2>2, <2>3
  <1>7. Trusted'
    <2>1. loop.i \in Nat \ {0} /\ Len(pollfds) \in Nat /\ UNCHANGED <<loop, pollfds>>
      BY <1>1, LoopMoves, Entries DEF tables
    <2> QED
      BY <1>1, <1>6, <2>1 DEF Trusted, Walking
  <1> QED
    BY <1>2, <1>4, <1>5, <1>7 DEF LoopInv

LEMMA PeersKeep ==
  ASSUME LoopInv,
         \/ Connect
         \/ \E f \in Fd : PeerSends(f) \/ PeerReads(f) \/ PeerCloses(f) \/ PeerResets(f)
  PROVE  LoopInv'
  <1>1. TypeOK
    BY DEF LoopInv
  <1>2. CASE Connect
    <2>1. backlog \in 0..MaxBacklog /\ backlog < MaxBacklog /\ backlog' = backlog + 1
      BY <1>1, <1>2 DEF Connect, TypeOK
    <2>2. backlog' \in backlog..MaxBacklog
      BY <2>1, LoopAssumption
    <2>3. UNCHANGED <<tables, revents, running, loop>> /\ sock' = sock
      BY <1>2 DEF Connect, Unchanged
    <2>4. sock' \in [Fd -> Socket \cup {Closed}]
      BY <1>1, <2>3 DEF TypeOK
    <2> QED
      BY <2>2, <2>3, <2>4, PeersKeepTrust DEF IsOpen, Readable, Writable, IsReset
  <1>3. ASSUME NEW f \in Fd,
               PeerSends(f) \/ PeerReads(f) \/ PeerCloses(f) \/ PeerResets(f)
        PROVE  LoopInv'
    <2>1. PICK new : Peer(f, new) /\ IsOpen(f)
                     /\ \/ /\ new = [sock[f] EXCEPT !.inbox = @ + 1]
                           /\ sock[f].inbox < MaxInbox
                        \/ new = [sock[f] EXCEPT !.room = TRUE]
                        \/ new = [sock[f] EXCEPT !.peer = "closed"] /\ sock[f].peer = "up"
                        \/ \E p \in {"reset", "broken"} :
                             new = [sock[f] EXCEPT !.peer = p]
      BY <1>3 DEF PeerSends, PeerReads, PeerCloses, PeerResets
    <2>2. sock[f] \in [peer: {"up", "closed", "reset", "broken"}, inbox: 0..MaxInbox,
                       room: BOOLEAN]
      BY <1>1, <2>1 DEF TypeOK, IsOpen, Socket
    <2>3. MaxInbox \in Nat
      BY LoopAssumption
    <2>4. /\ new \in [peer: {"up", "closed", "reset", "broken"}, inbox: 0..MaxInbox,
                       room: BOOLEAN]
          /\ sock[f].inbox > 0 \/ sock[f].peer # "up" => new.inbox > 0 \/ new.peer # "up"
          /\ sock[f].peer \in {"reset", "broken"} => new.peer \in {"reset", "broken"}
          /\ sock[f].room => new.room
      <3>1. CASE new = [sock[f] EXCEPT !.inbox = @ + 1] /\ sock[f].inbox < MaxInbox
        BY <2>2, <2>3, <3>1
      <3>2. CASE new = [sock[f] EXCEPT !.room = TRUE]
        BY <2>2, <3>2
      <3>3. CASE new = [sock[f] EXCEPT !.peer = "closed"] /\ sock[f].peer = "up"
        BY <2>2, <3>3
      <3>4. CASE \E p \in {"reset", "broken"} : new = [sock[f] EXCEPT !.peer = p]
        BY <2>2, <3>4
      <3> QED
        BY <2>1, <3>1, <3>2, <3>3, <3>4
    <2>5. /\ UNCHANGED <<tables, revents, running, loop>> /\ backlog' = backlog
          /\ sock' = [sock EXCEPT ![f] = new]
      BY <2>1 DEF Peer, Unchanged
    <2>6. sock' \in [Fd -> Socket \cup {Closed}]
      BY <1>1, <2>4, <2>5 DEF TypeOK, Socket
    <2>7. \A g \in Fd : sock'[g] = IF g = f THEN new ELSE sock[g]
      BY <1>1, <2>5 DEF TypeOK
    <2>8. new # Closed
      BY <2>4, ClosedAssumption DEF Socket
    <2>9. backlog' \in backlog..MaxBacklog
      BY <1>1, <2>5, LoopAssumption DEF TypeOK
    <2>10. \A g \in Fd : /\ IsOpen(g)' <=> IsOpen(g)
                         /\ IsOpen(g) /\ Readable(g) => Readable(g)'
                         /\ IsOpen(g) /\ Writable(g) => Writable(g)'
                         /\ IsOpen(g) /\ IsReset(g) => IsReset(g)'
      BY <2>1, <2>4, <2>7, <2>8 DEF IsOpen, Readable, Writable, IsReset
    <2> QED
      BY <2>5, <2>6, <2>9, <2>10, PeersKeepTrust
  <1> QED
    BY <1>2, <1>3

-----------------------------------------------------------------------------
(* A disconnect moves entries, and the reports on them move along.  The    *)
(* loop has read all it will read of the client it disconnects.            *)
LEMMA DisconnectKeepsTrust ==
  ASSUME LoopInv, NEW f \in Fd, DisconnectClient(f), Walking,
         backlog' = backlog, loop'.i = loop.i, loop.at = "in" \/ f = loop.clientFd
  PROVE  Trusted'
  <1>1. TypeOK /\ SocketsAgree /\ PollOutExact /\ Trusted
    BY DEF LoopInv
  <1>2. \A k \in 1..Len(pollfds') :
          pollfds'[k] # f /\ \E m \in k..Len(pollfds) : pollfds'[k] = pollfds[m]
    BY <1>1, Disconnected
  <1>3. /\ \A g \in Fd : g # f => sock'[g] = sock[g] /\ sendBuffers'[g] = sendBuffers[g]
        /\ \A g \in Fd \cup {Listener} : g # f => revents'[g] = revents[g]
    BY <1>1 DEF DisconnectClient, Dropped, UsedUp, TypeOK
  <1>4. loop.i \in Nat \ {0} /\ Len(pollfds) \in Nat
    BY <1>1, LoopMoves, Entries
  <1>5. Len(pollfds') \in Nat
    BY <1>1, Disconnected
  <1> SUFFICES ASSUME NEW k \in loop.i .. Len(pollfds') PROVE TrustedAt(k)'
    BY DEF Trusted
  <1>6. k \in 1..Len(pollfds')
    BY <1>4, <1>5
  <1>7. PICK m \in k..Len(pollfds) : pollfds'[k] = pollfds[m]
    BY <1>2, <1>6
  <1>8. m \in loop.i .. Len(pollfds) /\ m \in 1..Len(pollfds)
    BY <1>4, <1>5, <1>7
  <1>9. PICK g \in recvBuffers \cup {Listener} : g = pollfds[m] /\ g # f
    BY <1>1, <1>2, <1>6, <1>7, <1>8, Entries
  <1>10. /\ "IN" \in revents[g] => TrueInput(g)
         /\ "OUT" \in revents[g] => TrueOutput(g)
         /\ "ERR" \in revents[g] => TrueError(g)
    BY <1>1, <1>8, <1>9 DEF Trusted, TrustedAt
  <1>11. g \in Fd \cup {Listener} /\ revents'[g] = revents[g]
    BY <1>1, <1>3, <1>9 DEF TypeOK
  <1>12. g # Listener => sock'[g] = sock[g] /\ sendBuffers'[g] = sendBuffers[g]
    BY <1>3, <1>9, <1>11
  <1>13. /\ TrueInput(g) => TrueInput(g)'
         /\ TrueOutput(g) => TrueOutput(g)'
         /\ TrueError(g) => TrueError(g)'
    BY <1>12 DEF TrueInput, TrueOutput, TrueError, Readable, Writable, IsReset, Waiting
  <1> QED
    BY <1>7, <1>9, <1>10, <1>11, <1>13 DEF TrustedAt

-----------------------------------------------------------------------------
(* The steps at an entry.                                                  *)

LEMMA SendErrorKeeps ==
  ASSUME LoopInv, SendError
  PROVE  LoopInv'
  <1>1. TypeOK /\ SocketsAgree /\ PollOutExact /\ Handling /\ Trusted
    BY DEF LoopInv
  <1> DEFINE f == loop.clientFd
  <1>2. /\ loop.at = "out" /\ "OUT" \in revents[f] /\ DisconnectClient(f)
        /\ GoTo("err") /\ running' = running /\ backlog' = backlog
    BY DEF SendError
  <1>3. loop'.at = "err" /\ loop'.i = loop.i /\ loop'.clientFd = f /\ loop' \in Loops
    BY <1>1, <1>2, LoopMoves DEF Places
  <1>4. f \in Fd
    <2>1. loop.i \in 1..Len(pollfds) /\ pollfds[loop.i] = f
      BY <1>1, <1>2, LoopMoves, Entries DEF Handling, Here, Entry
    <2>2. TrustedAt(loop.i)
      BY <1>1, <1>2, <2>1 DEF Trusted, Walking
    <2>3. f # Listener
      BY <1>2, <2>1, <2>2 DEF TrustedAt, TrueOutput
    <2> QED
      BY <1>1, <2>3, LoopMoves
  <1>5. /\ TypeOK' /\ SocketsAgree' /\ PollOutExact' /\ f \notin recvBuffers'
    BY <1>1, <1>2, <1>3, <1>4, Disconnected DEF TypeOK, Loops, Places
  <1>6. Handling'
    BY <1>3, <1>4, <1>5 DEF Handling
  <1>7. Trusted'
    BY <1>2, <1>3, <1>4, DisconnectKeepsTrust DEF Walking
  <1> QED
    BY <1>5, <1>6, <1>7 DEF LoopInv

LEMMA CheckErrorKeeps ==
  ASSUME LoopInv, CheckError
  PROVE  LoopInv'
  <1>1. TypeOK /\ SocketsAgree /\ PollOutExact /\ Handling /\ Trusted
    BY DEF LoopInv
  <1> DEFINE f == loop.clientFd
  <1>2. loop.at = "err" /\ running' = running /\ backlog' = backlog
    BY DEF CheckError
  <1>3. loop.i \in Nat \ {0} /\ f \in Fd \cup {Listener} /\ Len(pollfds) \in Nat
    BY <1>1, LoopMoves, Entries
  <1>4. CASE TRUE \in ErrorReported /\ DisconnectClient(f) /\ SameIndex
    <2>1. loop'.at = "in" /\ loop'.i = loop.i /\ loop' \in Loops
      BY <1>1, <1>3, <1>4, LoopMoves DEF SameIndex
    <2>2. f \in Fd
      <3>1. CASE Here
        <4>1. loop.i \in 1..Len(pollfds) /\ pollfds[loop.i] = f
          BY <1>3, <3>1 DEF Here, Entry
        <4>2. ErrorReported = {"ERR" \in revents[Entry]}
          BY <3>1 DEF Here, ErrorReported
        <4>3. "ERR" \in revents[f]
          <5>1. TRUE = ("ERR" \in revents[Entry])
            BY <1>4, <4>2, Zenon
          <5> QED
            BY <3>1, <5>1 DEF Here
        <4>4. TrustedAt(loop.i)
          BY <1>1, <1>2, <4>1 DEF Trusted, Walking
        <4> QED
          BY <1>3, <4>1, <4>3, <4>4 DEF TrustedAt, TrueError
      <3>2. CASE f \in Fd \ recvBuffers
        BY <3>2
      <3> QED
        BY <1>1, <1>2, <3>1, <3>2 DEF Handling
    <2>3. /\ TypeOK' /\ SocketsAgree' /\ PollOutExact'
      BY <1>1, <1>2, <1>4, <2>1, <2>2, Disconnected DEF TypeOK, Loops, Places
    <2>4. Handling'
      BY <2>1 DEF Handling
    <2>5. Trusted'
      BY <1>2, <1>4, <2>1, <2>2, DisconnectKeepsTrust DEF Walking
    <2> QED
      BY <2>3, <2>4, <2>5 DEF LoopInv
  <1>5. CASE /\ NextIndex
             /\ revents' = IF loop.i > Len(pollfds) THEN revents ELSE UsedUp(Entry)
             /\ UNCHANGED <<tables, sock>>
    <2>1. loop'.at = "in" /\ loop'.i = loop.i + 1 /\ loop' \in Loops
      BY <1>1, <1>3, <1>5, LoopMoves DEF NextIndex
    <2>2. SocketsAgree' /\ PollOutExact'
      BY <1>1, <1>5, SameTables DEF IsOpen
    <2>3. ASSUME loop.i <= Len(pollfds) PROVE Entry \in Fd \cup {Listener}
      BY <1>1, <1>3, <2>3, Entries DEF Entry, TypeOK
    <2>4. revents' \in [Fd \cup {Listener} -> SUBSET {"IN", "OUT", "ERR"}]
      BY <1>1, <1>3, <1>5, <2>3 DEF TypeOK, UsedUp
    <2>5. TypeOK'
      BY <1>1, <1>2, <1>5, <2>1, <2>4 DEF TypeOK, tables, Loops, Places
    <2>6. Handling'
      BY <2>1 DEF Handling
    <2>7. ASSUME NEW k \in loop.i + 1 .. Len(pollfds) PROVE TrustedAt(k)'
      <3>1. k \in loop.i .. Len(pollfds) /\ k \in 1..Len(pollfds)
            /\ loop.i \in 1..Len(pollfds) /\ loop.i # k
        BY <1>3
      <3>2. PICK g \in recvBuffers \cup {Listener} : g = pollfds[k]
        BY <1>1, <3>1, Entries
      <3>3. g # pollfds[loop.i]
        BY <1>1, <3>1, <3>2 DEF SocketsAgree, ListedOnce
      <3>4. g # f
        BY <1>1, <1>2, <3>2, <3>3, LoopAssumption DEF Handling, Here, Entry
      <3>5. revents'[g] = revents[g]
        BY <1>1, <1>3, <1>5, <3>1, <3>2, <3>3 DEF UsedUp, Entry, TypeOK
      <3>6. TrustedAt(k)
        BY <1>1, <1>2, <3>1 DEF Trusted, Walking
      <3>7. /\ TrueInput(g) => TrueInput(g)'
            /\ TrueOutput(g) => TrueOutput(g)'
            /\ TrueError(g) => TrueError(g)'
        BY <1>2, <1>5 DEF TrueInput, TrueOutput, TrueError, Readable, Writable,
           IsReset, Waiting, tables
      <3>8. pollfds'[k] = g
        BY <1>5, <3>2 DEF tables
      <3> QED
        BY <3>2, <3>4, <3>5, <3>6, <3>7, <3>8 DEF TrustedAt
    <2>8. Trusted'
      BY <1>5, <2>1, <2>7 DEF Trusted, tables
    <2> QED
      BY <2>2, <2>5, <2>6, <2>8 DEF LoopInv
  <1> QED
    BY <1>4, <1>5 DEF CheckError

LEMMA SendKeeps ==
  ASSUME LoopInv, SendData
  PROVE  LoopInv'
  <1>1. TypeOK /\ SocketsAgree /\ PollOutExact /\ Handling /\ Trusted
    BY DEF LoopInv
  <1>2. PICK f \in Fd \cup {Listener} : f = loop.clientFd
    BY <1>1, LoopMoves
  <1>3. /\ loop.at = "out" /\ "OUT" \in revents[f] /\ sock[f].room /\ ~IsReset(f)
        /\ GoTo("err") /\ UNCHANGED <<pollfds, recvBuffers, clients, revents, running, backlog>>
    BY <1>2 DEF SendData
  <1>4. PICK left \in 0 .. sendBuffers[f], room \in BOOLEAN :
          /\ sendBuffers' = [sendBuffers EXCEPT ![f] = left]
          /\ sock' = [sock EXCEPT ![f].room = room]
          /\ wantsOut' = StillWaiting(f, left)
    BY <1>2 DEF SendData
  <1>5. loop'.at = "err" /\ loop'.i = loop.i /\ loop'.clientFd = f /\ loop' \in Loops
    BY <1>1, <1>2, <1>3, LoopMoves DEF Places
  <1>6. loop.i \in 1..Len(pollfds) /\ pollfds[loop.i] = f
    BY <1>1, <1>2, <1>3, LoopMoves, Entries DEF Handling, Here, Entry
  <1>7. TrueOutput(f)
    BY <1>1, <1>3, <1>6 DEF Trusted, Walking, TrustedAt
  <1>8. f \in recvBuffers /\ f \in Fd /\ f # Listener
    BY <1>1, <1>6, <1>7, Entries DEF TrueOutput
  <1>9. sendBuffers[f] \in 1..MaxQueue /\ left \in 0..MaxQueue
    BY <1>1, <1>4, <1>7, <1>8, Entries, LoopAssumption
       DEF TrueOutput, Waiting
  <1>10. /\ \A g \in Fd : sendBuffers'[g] = IF g = f THEN left ELSE sendBuffers[g]
         /\ sendBuffers' \in [Fd -> (0..MaxQueue) \cup {NoBuffer}]
    BY <1>1, <1>4, <1>9 DEF TypeOK
  <1>11. sock[f] \in [peer: {"up", "closed", "reset", "broken"}, inbox: 0..MaxInbox,
                      room: BOOLEAN]
    BY <1>1, <1>8, Entries DEF Socket
  <1>12. PICK new : new = [sock[f] EXCEPT !.room = room]
    OBVIOUS
  <1>13. /\ new \in [peer: {"up", "closed", "reset", "broken"}, inbox: 0..MaxInbox,
                      room: BOOLEAN]
         /\ new.peer = sock[f].peer /\ new.inbox = sock[f].inbox
    BY <1>11, <1>12
  <1>14. sock' = [sock EXCEPT ![f] = new]
    BY <1>1, <1>4, <1>12 DEF TypeOK
  <1>15. /\ \A g \in Fd : sock'[g] = IF g = f THEN new ELSE sock[g]
         /\ sock' \in [Fd -> Socket \cup {Closed}]
    BY <1>1, <1>13, <1>14 DEF TypeOK, Socket
  <1>16. \A g \in Fd : IsOpen(g)' <=> IsOpen(g)
    BY <1>1, <1>8, <1>13, <1>15, ClosedAssumption, Entries DEF IsOpen, Socket
  <1>17. wantsOut' = IF left = 0 THEN wantsOut \ {f} ELSE wantsOut
    BY <1>4 DEF StillWaiting
  <1>18. TypeOK'
    BY <1>1, <1>3, <1>5, <1>10, <1>15, <1>17 DEF TypeOK, Loops, Places
  <1>19. NoBuffer \notin Nat
    BY LoopAssumption
  <1>20. SocketsAgree'
    <2>1. {g \in Fd : sendBuffers'[g] # NoBuffer} = {g \in Fd : sendBuffers[g] # NoBuffer}
      BY <1>9, <1>10, <1>19, LoopAssumption
    <2>2. {g \in Fd : IsOpen(g)'} = {g \in Fd : IsOpen(g)}
      BY <1>16
    <2> QED
      BY <1>1, <1>3, <2>1, <2>2 DEF SocketsAgree, ListedOnce, Listed
  <1>21. PollOutExact'
    <2>1. f \in wantsOut
      BY <1>1, <1>7, <1>8 DEF PollOutExact, TrueOutput
    <2>2. recvBuffers \subseteq Fd /\ recvBuffers' = recvBuffers
      BY <1>1, <1>3 DEF TypeOK
    <2>3. Waiting(f)' <=> left # 0
      BY <1>8, <1>9, <1>10, <1>19, LoopAssumption DEF Waiting
    <2>4. \A g \in Fd : g # f => (Waiting(g)' <=> Waiting(g))
      BY <1>10 DEF Waiting
    <2> QED
      BY <1>1, <1>8, <1>17, <2>1, <2>2, <2>3, <2>4 DEF PollOutExact
  <1>22. Handling'
    BY <1>3, <1>5, <1>6 DEF Handling, Here, Entry
  <1>23. ASSUME NEW k \in loop.i .. Len(pollfds) PROVE TrustedAt(k)'
    <2>1. k \in 1..Len(pollfds)
      BY <1>6
    <2>2. PICK g \in recvBuffers \cup {Listener} : g = pollfds[k]
      BY <1>1, <2>1, Entries
    <2>3. TrustedAt(k)
      BY <1>1, <1>3 DEF Trusted, Walking
    <2>4. pollfds'[k] = g /\ revents' = revents
      BY <1>3, <2>2
    <2>5. CASE g = f
      <3>1. "ERR" \notin revents[g]
        BY <1>3, <2>2, <2>3, <2>5 DEF TrustedAt, TrueError
      <3> QED
        BY <1>5, <2>4, <2>5, <3>1 DEF TrustedAt
    <2>6. CASE g # f
      <3>1. g # Listener => g \in Fd /\ sock'[g] = sock[g] /\ sendBuffers'[g] = sendBuffers[g]
        BY <1>1, <1>10, <1>15, <2>6 DEF TypeOK
      <3>2. /\ TrueInput(g) => TrueInput(g)'
            /\ TrueOutput(g) => TrueOutput(g)'
            /\ TrueError(g) => TrueError(g)'
        BY <1>3, <3>1 DEF TrueInput, TrueOutput, TrueError, Readable, Writable, IsReset, Waiting
      <3> QED
        BY <1>2, <2>2, <2>3, <2>4, <2>6, <3>2 DEF TrustedAt
    <2> QED
      BY <2>5, <2>6
  <1>24. Trusted'
    BY <1>3, <1>5, <1>23 DEF Trusted
  <1> QED
    BY <1>18, <1>20, <1>21, <1>22, <1>24 DEF LoopInv

LEMMA ReceiveKeeps ==
  ASSUME LoopInv, ReceiveData
  PROVE  LoopInv'
  <1>1. TypeOK /\ SocketsAgree /\ PollOutExact /\ Handling /\ Trusted
    BY DEF LoopInv
  <1>2. /\ loop.at = "in" /\ loop.i \in 1..Len(pollfds) /\ Entry # Listener
        /\ running' = running /\ backlog' = backlog
    BY <1>1, LoopMoves, Entries DEF ReceiveData, InBody
  <1>3. PICK f \in recvBuffers : f = Entry /\ f = pollfds[loop.i]
    BY <1>1, <1>2, Entries DEF Entry
  <1>4. f \in Fd /\ f # Listener
    BY <1>1, <1>3, Entries
  <1>5. CASE DisconnectClient(f) /\ SameIndex
    <2>1. loop'.at = "in" /\ loop'.i = loop.i /\ loop' \in Loops
      BY <1>1, <1>5, LoopMoves DEF SameIndex
    <2>2. /\ TypeOK' /\ SocketsAgree' /\ PollOutExact'
      BY <1>1, <1>2, <1>4, <1>5, <2>1, Disconnected DEF TypeOK, Loops, Places
    <2>3. Handling'
      BY <2>1 DEF Handling
    <2>4. Trusted'
      BY <1>2, <1>4, <1>5, <2>1, DisconnectKeepsTrust DEF Walking
    <2> QED
      BY <2>2, <2>3, <2>4 DEF LoopInv
  <1>6. ASSUME sock[f].inbox > 0, sock' = [sock EXCEPT ![f].inbox = @ - 1],
               NEW to \in SUBSET Audience(f), QueueResponses(to), HandleOut(f),
               revents' = revents
        PROVE  LoopInv'
    <2>1. loop'.at = "out" /\ loop'.i = loop.i /\ loop'.clientFd = f /\ loop' \in Loops
      BY <1>1, <1>4, <1>6, LoopMoves
    <2>2. to \subseteq clients /\ clients \subseteq recvBuffers /\ recvBuffers \subseteq Fd
      BY <1>1, <1>6 DEF Audience, SocketsAgree, TypeOK
    <2>3. /\ UNCHANGED <<pollfds, recvBuffers, clients>> /\ wantsOut' = wantsOut \cup to
          /\ sendBuffers' = [g \in Fd |->
               IF g \in to /\ sendBuffers[g] < MaxQueue THEN sendBuffers[g] + 1
                                                         ELSE sendBuffers[g]]
      BY <1>6 DEF QueueResponses, QueueFlag
    <2>4. MaxQueue \in Nat \ {0} /\ NoBuffer \notin Nat
      BY LoopAssumption
    <2>5. \A g \in recvBuffers : sendBuffers[g] \in 0..MaxQueue
      BY <1>1, Entries
    <2>6. \A g \in recvBuffers :
            /\ sendBuffers'[g] \in 0..MaxQueue
            /\ Waiting(g)' <=> Waiting(g) \/ g \in to
      BY <2>2, <2>3, <2>4, <2>5 DEF Waiting
    <2>7. \A g \in Fd \ recvBuffers : sendBuffers'[g] = sendBuffers[g]
      BY <2>2, <2>3
    <2>8. sendBuffers' \in [Fd -> (0..MaxQueue) \cup {NoBuffer}]
      <3>1. sendBuffers' = [g \in Fd |-> sendBuffers'[g]]
        BY <2>3
      <3>2. \A g \in Fd : sendBuffers'[g] \in (0..MaxQueue) \cup {NoBuffer}
        BY <1>1, <2>6, <2>7 DEF TypeOK
      <3> QED
        BY <3>1, <3>2
    <2>9. sock[f] \in [peer: {"up", "closed", "reset", "broken"}, inbox: 0..MaxInbox,
                       room: BOOLEAN]
      BY <1>1, <1>3, Entries DEF Socket
    <2>10. PICK new : new = [sock[f] EXCEPT !.inbox = @ - 1]
      OBVIOUS
    <2>11. /\ new \in [peer: {"up", "closed", "reset", "broken"}, inbox: 0..MaxInbox,
                        room: BOOLEAN]
           /\ new.peer = sock[f].peer /\ new.room = sock[f].room
      BY <1>6, <2>9, <2>10, LoopAssumption
    <2>12. /\ \A g \in Fd : sock'[g] = IF g = f THEN new ELSE sock[g]
           /\ sock' \in [Fd -> Socket \cup {Closed}]
      BY <1>1, <1>4, <1>6, <2>10, <2>11 DEF TypeOK, Socket
    <2>13. \A g \in Fd : IsOpen(g)' <=> IsOpen(g)
      BY <1>1, <1>3, <2>11, <2>12, ClosedAssumption, Entries DEF IsOpen, Socket
    <2>14. TypeOK'
      BY <1>1, <1>2, <1>6, <2>1, <2>2, <2>3, <2>8, <2>12 DEF TypeOK, Loops, Places
    <2>15. SocketsAgree'
      <3>1. {g \in Fd : sendBuffers'[g] # NoBuffer} = {g \in Fd : sendBuffers[g] # NoBuffer}
        BY <2>4, <2>5, <2>6, <2>7
      <3>2. {g \in Fd : IsOpen(g)'} = {g \in Fd : IsOpen(g)}
        BY <2>13
      <3> QED
        BY <1>1, <2>3, <3>1, <3>2 DEF SocketsAgree, ListedOnce, Listed
    <2>16. PollOutExact'
      BY <1>1, <2>2, <2>3, <2>6 DEF PollOutExact
    <2>17. Handling'
      BY <1>2, <1>3, <2>1, <2>3 DEF Handling, Here, Entry
    <2>18. ASSUME NEW k \in loop.i .. Len(pollfds) PROVE TrustedAt(k)'
      <3>1. k \in 1..Len(pollfds)
        BY <1>2
      <3>2. PICK g \in recvBuffers \cup {Listener} : g = pollfds[k]
        BY <1>1, <3>1, Entries
      <3>3. TrustedAt(k)
        BY <1>1, <1>2 DEF Trusted, Walking
      <3>4. pollfds'[k] = g /\ g \in Fd \cup {Listener}
        BY <2>2, <2>3, <3>2
      <3>5. /\ TrueOutput(g) => TrueOutput(g)'
            /\ TrueError(g) => TrueError(g)'
        BY <2>2, <2>6, <2>11, <2>12, <3>2
           DEF TrueOutput, TrueError, Writable, IsReset
      <3>6. g # f => (TrueInput(g) => TrueInput(g)')
        BY <1>2, <2>12, <3>4 DEF TrueInput, Readable
      <3> QED
        BY <1>2, <1>6, <2>1, <3>2, <3>3, <3>4, <3>5, <3>6 DEF TrustedAt
    <2>19. Trusted'
      BY <2>1, <2>3, <2>18 DEF Trusted
    <2> QED
      BY <2>14, <2>15, <2>16, <2>17, <2>19 DEF LoopInv
  <1> QED
    BY <1>3, <1>5, <1>6 DEF ReceiveData

LEMMA AcceptKeeps ==
  ASSUME LoopInv, AcceptNewClient
  PROVE  LoopInv'
  <1>1. TypeOK /\ SocketsAgree /\ PollOutExact /\ Handling /\ Trusted
    BY DEF LoopInv
  <1>2. /\ loop.at = "in" /\ loop.i \in 1..Len(pollfds) /\ pollfds[loop.i] = Listener
        /\ HandleOut(Listener) /\ wantsOut' = wantsOut /\ running' = running
        /\ backlog > 0
    BY <1>1, LoopMoves, Entries DEF AcceptNewClient, InBody, Entry
  <1>3. /\ loop'.at = "out" /\ loop'.i = loop.i /\ loop'.clientFd = Listener
        /\ loop' \in Loops
    BY <1>1, <1>2, LoopMoves
  <1>4. \A k \in loop.i .. Len(pollfds) : TrustedAt(k) /\ k \in 1..Len(pollfds)
    BY <1>1, <1>2 DEF Trusted, Walking
  <1>5. CASE UNCHANGED <<sock, backlog, pollfds, revents, recvBuffers, sendBuffers, clients>>
    <2>1. TypeOK'
      BY <1>1, <1>2, <1>3, <1>5 DEF TypeOK, Loops, Places
    <2>2. SocketsAgree' /\ PollOutExact'
      BY <1>1, <1>2, <1>5, SameTables DEF IsOpen, tables
    <2>3. Handling'
      BY <1>2, <1>3, <1>5 DEF Handling, Here, Entry
    <2>4. Trusted'
      BY <1>2, <1>3, <1>4, <1>5 DEF Trusted, TrustedAt, TrueInput, TrueOutput, TrueError,
         Readable, Writable, IsReset, Waiting
    <2> QED
      BY <2>1, <2>2, <2>3, <2>4 DEF LoopInv
  <1>6. ASSUME NEW f \in Fd, ~IsOpen(f), sock' = [sock EXCEPT ![f] = Fresh],
               backlog' = backlog - 1, pollfds' = Append(pollfds, f),
               revents' = [revents EXCEPT ![f] = {}],
               recvBuffers' = recvBuffers \cup {f},
               sendBuffers' = [sendBuffers EXCEPT ![f] = 0], AddNewClient(f)
        PROVE  LoopInv'
    <2>1. f \notin recvBuffers /\ f # Listener /\ \A k \in 1..Len(pollfds) : pollfds[k] # f
      BY <1>1, <1>6, LoopAssumption, Entries DEF SocketsAgree
    <2>2. Fresh \in Socket /\ Fresh # Closed
      <3>1. MaxInbox \in Nat
        BY LoopAssumption
      <3>2. Fresh \in Socket
        BY <3>1 DEF Fresh, Socket
      <3> QED
        BY <3>2, ClosedAssumption
    <2>3. /\ \A g \in Fd : /\ sock'[g] = IF g = f THEN Fresh ELSE sock[g]
                           /\ sendBuffers'[g] = IF g = f THEN 0 ELSE sendBuffers[g]
          /\ \A g \in Fd \cup {Listener} :
               revents'[g] = IF g = f THEN {} ELSE revents[g]
          /\ sock' \in [Fd -> Socket \cup {Closed}]
      BY <1>1, <1>6, <2>2 DEF TypeOK
    <2>4. /\ sendBuffers' \in [Fd -> (0..MaxQueue) \cup {NoBuffer}]
          /\ revents' \in [Fd \cup {Listener} -> SUBSET {"IN", "OUT", "ERR"}]
      BY <1>1, <1>6, LoopAssumption DEF TypeOK
    <2>5. Len(pollfds) \in Nat /\ pollfds \in Seq(Fd \cup {Listener})
      BY <1>1 DEF TypeOK
    <2>6. /\ pollfds' \in Seq(Fd \cup {Listener}) /\ Len(pollfds') = Len(pollfds) + 1
          /\ \A k \in 1..Len(pollfds) : pollfds'[k] = pollfds[k]
          /\ pollfds'[Len(pollfds) + 1] = f
      BY <1>6, <2>5
    <2>7. clients' \subseteq clients \cup {f} /\ clients \subseteq clients'
          /\ (~OutOfMemory => clients' = clients \cup {f})
      BY <1>6 DEF AddNewClient
    <2>8. backlog' \in 0..MaxBacklog
      BY <1>1, <1>2, <1>6, LoopAssumption DEF TypeOK
    <2>9. TypeOK'
      BY <1>1, <1>2, <1>3, <1>6, <2>3, <2>4, <2>6, <2>7, <2>8 DEF TypeOK, Loops, Places
    <2>10. Listed' = Listed \cup {f}
      <3>1. \A k \in 1..Len(pollfds') : k \in 1..Len(pollfds) \/ k = Len(pollfds) + 1
        BY <2>5, <2>6
      <3>2. \A k \in 1..Len(pollfds) : k \in 1..Len(pollfds')
        BY <2>5, <2>6
      <3>3. Len(pollfds) + 1 \in 1..Len(pollfds')
        BY <2>5, <2>6
      <3> QED
        BY <2>6, <3>1, <3>2, <3>3 DEF Listed
    <2>11. ListedOnce'
      <3> SUFFICES ASSUME NEW j \in 1..Len(pollfds'), NEW k \in 1..Len(pollfds'),
                          pollfds'[j] = pollfds'[k]
                   PROVE  j = k
        BY DEF ListedOnce
      <3>1. /\ j \in 1..Len(pollfds) \/ j = Len(pollfds) + 1
            /\ k \in 1..Len(pollfds) \/ k = Len(pollfds) + 1
        BY <2>5, <2>6
      <3> QED
        BY <1>1, <2>1, <2>6, <3>1 DEF SocketsAgree, ListedOnce
    <2>12. SocketsAgree'
      <3>1. {g \in Fd : sendBuffers'[g] # NoBuffer} = recvBuffers'
        BY <1>1, <1>6, <2>3, LoopAssumption DEF SocketsAgree
      <3>2. {g \in Fd : IsOpen(g)'} = recvBuffers'
        BY <1>1, <1>6, <2>2, <2>3 DEF SocketsAgree, IsOpen
      <3> QED
        BY <1>1, <1>6, <2>7, <2>10, <2>11, <3>1, <3>2 DEF SocketsAgree
    <2>13. PollOutExact'
      BY <1>1, <1>2, <1>6, <2>1, <2>3 DEF PollOutExact, Waiting, TypeOK
    <2>14. Handling'
      BY <1>2, <1>3, <2>5, <2>6 DEF Handling, Here, Entry
    <2>15. ASSUME NEW k \in loop.i .. Len(pollfds') PROVE TrustedAt(k)'
      <3>1. CASE k = Len(pollfds) + 1
        BY <1>6, <2>3, <2>6, <3>1 DEF TrustedAt
      <3>2. CASE k \in loop.i .. Len(pollfds)
        <4>1. k \in 1..Len(pollfds) /\ TrustedAt(k)
          BY <1>4, <3>2
        <4>2. PICK g \in recvBuffers \cup {Listener} : g = pollfds[k]
          BY <1>1, <4>1, Entries
        <4>3. /\ pollfds'[k] = g /\ g # f /\ revents'[g] = revents[g]
              /\ g # Listener => sock'[g] = sock[g] /\ sendBuffers'[g] = sendBuffers[g]
          BY <1>1, <2>1, <2>3, <2>6, <4>1, <4>2 DEF TypeOK
        <4>4. /\ g # Listener => (TrueInput(g) => TrueInput(g)')
              /\ TrueOutput(g) => TrueOutput(g)'
              /\ TrueError(g) => TrueError(g)'
          BY <4>3 DEF TrueInput, TrueOutput, TrueError, Readable, Writable, IsReset, Waiting
        <4> QED
          BY <1>2, <1>3, <4>1, <4>2, <4>3, <4>4 DEF TrustedAt
      <3> QED
        BY <1>2, <2>5, <2>6, <3>1, <3>2
    <2>16. Trusted'
      BY <1>3, <2>15 DEF Trusted
    <2> QED
      BY <2>9, <2>12, <2>13, <2>14, <2>16 DEF LoopInv
  <1> QED
    BY <1>5, <1>6 DEF AcceptNewClient, NewEvents

LEMMA LoopInit ==
  ASSUME Init
  PROVE  LoopInv
  <1>1. MaxBacklog \in Nat /\ MaxQueue \in Nat
    BY LoopAssumption
  <1>2. loop \in Loops /\ loop.at = "while"
    BY DEF Init, Loops, Places
  <1>3. pollfds \in Seq(Fd \cup {Listener}) /\ Len(pollfds) = 1 /\ pollfds[1] = Listener
    BY DEF Init
  <1>4. TypeOK
    BY <1>1, <1>2, <1>3 DEF Init, TypeOK, Loops, Places
  <1>5. SocketsAgree
    <2>1. Listed = {Listener} /\ ListedOnce
      BY <1>3 DEF Listed, ListedOnce
    <2> QED
      BY <2>1 DEF Init, SocketsAgree, IsOpen
  <1>6. PollOutExact /\ Handling /\ Trusted
    BY <1>2 DEF Init, PollOutExact, Handling, Trusted, Walking
  <1> QED
    BY <1>4, <1>5, <1>6 DEF LoopInv

LEMMA LoopStep ==
  ASSUME LoopInv, [Next]_vars
  PROVE  LoopInv'
  <1>1. CASE UNCHANGED vars
    BY <1>1 DEF vars, tables, LoopInv, TypeOK, SocketsAgree, ListedOnce, Listed, IsOpen,
       PollOutExact, Waiting, Handling, Here, Entry, Trusted, Walking, TrustedAt,
       TrueInput, TrueOutput, TrueError, Readable, Writable, IsReset
  <1>2. CASE Server
    BY <1>2, PollKeeps, MovesKeep, AcceptKeeps, ReceiveKeeps, SendKeeps, SendErrorKeeps,
       CheckErrorKeeps DEF Server
  <1>3. CASE World
    BY <1>3, PeersKeep, MovesKeep DEF World
  <1> QED
    BY <1>1, <1>2, <1>3 DEF Next

-----------------------------------------------------------------------------
(* What the tables promise.                                                *)

LEMMA LoopInvariant == Spec => []LoopInv
  BY LoopInit, LoopStep, PTL DEF Spec

(* Every variable of the poll loop has its type, for every number of       *)
(* descriptors and every bound (Server's members and ircLoop's locals).    *)
THEOREM LoopTypeCorrect == Spec => []TypeOK
  BY LoopInvariant, PTL DEF LoopInv

(* _pollfds lists every connection once, and _recvBuffers, _sendBuffers and*)
(* the kernel know the same connections; ServerState knows no other        *)
(* (acceptNewClient, receiveData, sendData and disconnectClient).          *)
THEOREM LoopTablesAgree == Spec => []SocketsAgree
  BY LoopInvariant, PTL DEF LoopInv

(* POLLOUT is asked for exactly while there is something to send           *)
(* (queueResponse, sendData, enablePollOut and disablePollOut).            *)
THEOREM LoopPollOutExact == Spec => []PollOutExact
  BY LoopInvariant, PTL DEF LoopInv

(* accept, recv and send are called only when they have something to do,   *)
(* however many entries and descriptors have changed since poll reported   *)
(* (ircLoop's walk over _pollfds).                                         *)
THEOREM LoopNeverBlind == Spec => []NoBlindCall
  <1>1. LoopInv => NoBlindCall
    <2> SUFFICES ASSUME LoopInv PROVE NoBlindCall
      OBVIOUS
    <2>1. TypeOK /\ SocketsAgree /\ Handling /\ Trusted
      BY DEF LoopInv
    <2>2. loop.i \in Nat \ {0} /\ Len(pollfds) \in Nat
      BY <2>1, LoopMoves, Entries
    <2>3. ASSUME InBody, "IN" \in revents[Entry]
          PROVE  IF Entry = Listener THEN backlog > 0 ELSE Readable(Entry)
      <3>1. TrustedAt(loop.i)
        BY <2>1, <2>2, <2>3 DEF InBody, Trusted, Walking
      <3> QED
        BY <2>3, <3>1 DEF InBody, Entry, TrustedAt, TrueInput
    <2>4. ASSUME loop.at = "out", "OUT" \in revents[loop.clientFd]
          PROVE  Writable(loop.clientFd) /\ Waiting(loop.clientFd)
      <3>1. Here /\ TrustedAt(loop.i)
        BY <2>1, <2>2, <2>4 DEF Handling, Here, Trusted, Walking
      <3> QED
        BY <2>4, <3>1 DEF Here, Entry, TrustedAt, TrueOutput
    <2> QED
      BY <2>3, <2>4 DEF NoBlindCall
  <1> QED
    BY <1>1, LoopInvariant, PTL

-----------------------------------------------------------------------------
(* The loop implements Connections.                                        *)

(* A disconnect closes the connection, or repeats an earlier one.          *)
LEMMA DisconnectCloses ==
  ASSUME LoopInv, NEW f \in Fd, DisconnectClient(f)
  PROVE  Conn!Next \/ UNCHANGED Conn!vars
  <1>1. TypeOK /\ SocketsAgree
    BY DEF LoopInv
  <1>2. /\ sendBuffers' = [sendBuffers EXCEPT ![f] = NoBuffer]
        /\ clients' = clients \ {f}
    BY DEF DisconnectClient, Dropped
  <1>3. CASE f \in recvBuffers
    <2>1. Conn!Close(f)
      BY <1>1, <1>2, <1>3 DEF Conn!Close, Conn!IsUp, SocketsAgree
    <2> QED
      BY <2>1 DEF Conn!Next
  <1>4. CASE f \notin recvBuffers
    <2>1. sendBuffers[f] = NoBuffer /\ f \notin clients
      BY <1>1, <1>4, Entries
    <2>2. sendBuffers' = sendBuffers /\ clients' = clients
      BY <1>1, <1>2, <2>1 DEF TypeOK
    <2> QED
      BY <2>2 DEF Conn!vars
  <1> QED
    BY <1>3, <1>4

LEMMA LoopRefines ==
  ASSUME LoopInv, LoopInv', [Next]_vars
  PROVE  [Conn!Next]_(Conn!vars)
  <1>1. TypeOK /\ SocketsAgree /\ Handling /\ Trusted /\ TypeOK' /\ SocketsAgree'
    BY DEF LoopInv
  <1>2. CASE UNCHANGED <<sendBuffers, clients>>
    BY <1>2 DEF Conn!vars
  <1>3. ASSUME NEW f \in Fd \cup {Listener}, DisconnectClient(f)
        PROVE  Conn!Next \/ UNCHANGED Conn!vars
    <2>1. CASE f \in Fd
      BY <1>3, <2>1, DisconnectCloses
    <2>2. CASE f = Listener
      <3>1. sendBuffers' = sendBuffers /\ clients' = clients
        BY <1>1, <1>3, <2>2, LoopAssumption DEF DisconnectClient, Dropped, TypeOK
      <3> QED
        BY <3>1 DEF Conn!vars
    <2> QED
      BY <2>1, <2>2
  <1>4. CASE AcceptNewClient
    <2>1. ASSUME NEW f \in Fd, ~IsOpen(f), sendBuffers' = [sendBuffers EXCEPT ![f] = 0],
                 AddNewClient(f)
          PROVE  Conn!Next
      <3>1. sendBuffers[f] = NoBuffer
        BY <1>1, <2>1 DEF SocketsAgree
      <3>2. Conn!Open(f)
        BY <2>1, <3>1 DEF AddNewClient, Conn!Open, Conn!IsUp
      <3> QED
        BY <3>2 DEF Conn!Next
    <2> QED
      BY <1>2, <1>4, <2>1 DEF AcceptNewClient
  <1>5. CASE ReceiveData
    <2>1. Entry \in Fd \cup {Listener}
      BY <1>1, <1>5, LoopMoves, Entries DEF ReceiveData, InBody, Entry, TypeOK
    <2>2. ASSUME NEW to \in SUBSET Audience(Entry), QueueResponses(to)
          PROVE  Conn!Next
      <3>1. to \subseteq clients /\ clients \subseteq recvBuffers /\ recvBuffers \subseteq Fd
        BY <1>1, <2>2 DEF Audience, SocketsAgree, TypeOK
      <3>2. /\ clients' = clients
            /\ sendBuffers' = [g \in Fd |->
                 IF g \in to /\ sendBuffers[g] < MaxQueue THEN sendBuffers[g] + 1
                                                           ELSE sendBuffers[g]]
        BY <2>2 DEF QueueResponses
      <3>3. MaxQueue \in Nat /\ NoBuffer \notin Nat
        BY LoopAssumption
      <3>4. \A g \in Fd : IF g \in to THEN /\ sendBuffers[g] # NoBuffer
                                           /\ sendBuffers'[g] \in sendBuffers[g]..MaxQueue
                                    ELSE sendBuffers'[g] = sendBuffers[g]
        <4>1. \A g \in to : sendBuffers[g] \in 0..MaxQueue
          BY <1>1, <3>1, Entries
        <4> QED
          BY <3>1, <3>2, <3>3, <4>1
      <3>5. sendBuffers' \in [Fd -> (0..MaxQueue) \cup {NoBuffer}]
        BY <1>1 DEF TypeOK
      <3>6. Conn!Reply(to)
        BY <3>1, <3>2, <3>4, <3>5 DEF Conn!Reply, Conn!IsUp
      <3>7. to \in SUBSET Fd
        BY <3>1
      <3> QED
        BY <3>6, <3>7 DEF Conn!Next
    <2> QED
      BY <1>3, <1>5, <2>1, <2>2 DEF ReceiveData
  <1>6. CASE SendData
    <2>1. PICK f \in Fd \cup {Listener} : f = loop.clientFd
      BY <1>1, LoopMoves
    <2>2. loop.at = "out" /\ "OUT" \in revents[f] /\ clients' = clients
      BY <1>6, <2>1 DEF SendData
    <2>3. PICK left \in 0 .. sendBuffers[f] :
            sendBuffers' = [sendBuffers EXCEPT ![f] = left]
      BY <1>6, <2>1 DEF SendData
    <2>4. loop.i \in 1..Len(pollfds) /\ pollfds[loop.i] = f
      BY <1>1, <2>1, <2>2, LoopMoves, Entries DEF Handling, Here, Entry
    <2>5. TrueOutput(f)
      BY <1>1, <2>2, <2>4 DEF Trusted, Walking, TrustedAt
    <2>6. f \in recvBuffers /\ f \in Fd
      BY <1>1, <2>4, <2>5, Entries DEF TrueOutput
    <2>7. sendBuffers[f] \in 1..MaxQueue
      BY <1>1, <2>5, <2>6, Entries, LoopAssumption DEF TrueOutput, Waiting
    <2>8. left \in 0 .. sendBuffers[f] /\ sendBuffers[f] # NoBuffer
      BY <1>1, <2>3, <2>6, <2>7 DEF SocketsAgree
    <2>9. Conn!Deliver(f)
      BY <2>2, <2>3, <2>8 DEF Conn!Deliver, Conn!IsUp
    <2> QED
      BY <2>6, <2>9 DEF Conn!Next
  <1>7. CASE SendError \/ CheckError
    <2>1. loop.clientFd \in Fd \cup {Listener}
      BY <1>1, LoopMoves
    <2> QED
      BY <1>2, <1>3, <1>7, <2>1 DEF SendError, CheckError, tables
  <1>8. CASE \/ While \/ Poll \/ EndOfRound \/ NoInput \/ NoOutput \/ SendKills
             \/ World \/ UNCHANGED vars
    BY <1>2, <1>8 DEF While, Poll, EndOfRound, NoInput, NoOutput, SendKills, World,
       Connect, Signal, PeerSends, PeerReads, PeerCloses, PeerResets, Peer, Unchanged,
       vars, tables
  <1> QED
    BY <1>4, <1>5, <1>6, <1>7, <1>8 DEF Next, Server

(* The loop is a table of connections, for every number of descriptors and *)
(* every order of reports, accepts, failed sends and second disconnects: no*)
(* reply outlives its connection or reaches the next on its descriptor     *)
(* (ircLoop with acceptNewClient, receiveData, sendData, disconnectClient).*)
THEOREM LoopImplementsConnections == Spec => ImplementsConnections
  <1>1. Init => Conn!Init
    BY DEF Init, Conn!Init
  <1>2. LoopInv /\ LoopInv' /\ [Next]_vars => [Conn!Next]_(Conn!vars)
    BY LoopRefines
  <1> QED
    BY <1>1, <1>2, LoopInvariant, PTL DEF Spec, ImplementsConnections, Conn!Spec

-----------------------------------------------------------------------------
(* Without an EAGAIN for a descriptor poll reported, a disconnect hits only*)
(* connections whose peer has gone.                                        *)
LEMMA HealthyStep ==
  ASSUME ~Spurious, LoopInv, LoopInv', [Next]_vars, NEW f \in recvBuffers,
         sock[f].peer = "up"
  PROVE  IsOpen(f)'
  <1>1. TypeOK /\ SocketsAgree /\ Handling /\ Trusted /\ SocketsAgree' /\ TypeOK'
    BY DEF LoopInv
  <1>2. f \in Fd /\ f # Listener /\ IsOpen(f)
    BY <1>1, Entries
  <1>3. f \in recvBuffers' => IsOpen(f)'
    BY <1>1 DEF SocketsAgree
  <1>4. ASSUME NEW g \in Fd \cup {Listener}, g # f, DisconnectClient(g)
        PROVE  f \in recvBuffers'
    BY <1>4 DEF DisconnectClient
  <1>5. CASE recvBuffers \subseteq recvBuffers'
    BY <1>3, <1>5
  <1>6. CASE ReceiveData
    <2>1. Entry \in Fd \cup {Listener}
      BY <1>1, <1>6, LoopMoves, Entries DEF ReceiveData, InBody, Entry, TypeOK
    <2>2. CASE AtEnd(Entry) /\ DisconnectClient(Entry)
      BY <1>3, <1>4, <2>1, <2>2 DEF AtEnd
    <2>3. CASE \E to \in SUBSET Audience(Entry) : QueueResponses(to)
      BY <1>5, <2>3 DEF QueueResponses
    <2> QED
      BY <1>6, <2>2, <2>3 DEF ReceiveData
  <1>7. CASE SendError
    <2>1. loop.clientFd \in Fd \cup {Listener}
      BY <1>1, LoopMoves
    <2>2. sock[loop.clientFd].peer = "reset" /\ DisconnectClient(loop.clientFd)
      BY <1>7 DEF SendError, SendFails
    <2> QED
      BY <1>3, <1>4, <2>1, <2>2
  <1>8. CASE CheckError
    <2>1. loop.i \in Nat \ {0} /\ loop.clientFd \in Fd \cup {Listener}
          /\ Len(pollfds) \in Nat
      BY <1>1, LoopMoves, Entries
    <2>2. CASE UNCHANGED tables
      BY <1>5, <2>2 DEF tables
    <2>3. CASE TRUE \in ErrorReported /\ DisconnectClient(loop.clientFd)
      <3>1. CASE Here
        <4>1. ErrorReported = {"ERR" \in revents[Entry]}
          BY <3>1 DEF Here, ErrorReported
        <4>2. TRUE = ("ERR" \in revents[Entry])
          BY <2>3, <4>1, Zenon
        <4>3. "ERR" \in revents[loop.clientFd]
          BY <3>1, <4>2 DEF Here
        <4>4. TrustedAt(loop.i)
          BY <1>1, <1>8, <2>1, <3>1 DEF Trusted, Walking, CheckError, Here
        <4>5. IsReset(loop.clientFd)
          BY <3>1, <4>3, <4>4 DEF TrustedAt, TrueError, Here, Entry
        <4> QED
          BY <1>3, <1>4, <2>1, <2>3, <4>5 DEF IsReset
      <3>2. CASE loop.clientFd \in Fd \ recvBuffers
        BY <1>3, <1>4, <2>3, <3>2
      <3> QED
        BY <1>1, <1>8, <3>1, <3>2 DEF CheckError, Handling
    <2> QED
      BY <1>8, <2>2, <2>3 DEF CheckError
  <1>9. CASE \/ While \/ Poll \/ EndOfRound \/ NoInput \/ NoOutput \/ SendKills
             \/ SendData \/ AcceptNewClient \/ World \/ UNCHANGED vars
    BY <1>5, <1>9 DEF While, Poll, EndOfRound, NoInput, NoOutput, SendKills, SendData,
       AcceptNewClient, World, Connect, Signal, PeerSends, PeerReads, PeerCloses,
       PeerResets, Peer, Unchanged, vars, tables
  <1> QED
    BY <1>6, <1>7, <1>8, <1>9 DEF Next, Server

(* As long as recv and send do not answer EAGAIN to a descriptor poll has  *)
(* reported, no client is disconnected whose peer is there: neither the    *)
(* entry skipped after a failed send nor the error test that then reads    *)
(* another client's entry hits an innocent one (ircLoop, disconnectClient).*)
THEOREM LoopKeepsHealthy ==
  ASSUME ~Spurious
  PROVE  Spec => HealthyKept
  <1>1. LoopInv /\ LoopInv' /\ [Next]_vars
          => [\A f \in recvBuffers : sock[f].peer = "up" => IsOpen(f)']_vars
    BY HealthyStep
  <1> QED
    BY <1>1, LoopInvariant, PTL DEF Spec, HealthyKept
=============================================================================
