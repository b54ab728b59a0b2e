------------------------------ MODULE LineInput ------------------------------
(***************************************************************************)
(* receiveData on one connection: recv returns the bytes of the peer in    *)
(* chunks cut anywhere, and the loop hands every complete line to          *)
(* processMessage, which parses it.                                        *)
(***************************************************************************)
EXTENDS Parser

CONSTANTS
  Chunks,    \* what one recv may return
  MaxChunks  \* bound: chunks received

ASSUME ChunksAssumption ==
  Chunks \subseteq Seq(UNION {Range(chunk) : chunk \in Chunks})

VARIABLES
  sent,        \* the chunks received so far
  recvBuffer,  \* _recvBuffers[clientFd]
  lines,       \* the lines given to processMessage
  dispatched   \* the messages given to the dispatcher

vars == <<sent, recvBuffer, lines, dispatched>>

Control == "ctl"   \* a byte below 0x20 other than CR and LF

(* s without the characters in chars.                                      *)
Without(s, chars) ==
  FlattenSeq([k \in DOMAIN s |-> IF s[k] \in chars THEN <<>> ELSE <<s[k]>>])

Printable(chunk) == Without(chunk, {Control})

BadWithoutCR(line) == Without(line, {"\r"})
WithoutCR(line) ==
  IF line # <<>> /\ Last(line) = "\r" THEN Front(line) ELSE line

(* Where the first line of the buffer ends, 0 when there is none.          *)
LineEnd(buffer) == SelectInSeq(buffer, LAMBDA c : c = "\n")
HasLine == LineEnd(recvBuffer) # 0

Receive(chunk) ==
  /\ ~HasLine
  /\ recvBuffer' = recvBuffer \o Printable(chunk)
  /\ sent' = Append(sent, chunk)
  /\ UNCHANGED <<lines, dispatched>>

(* One round of the loop, with processMessage.                             *)
TakeLine ==
  /\ HasLine
  /\ LET pos  == LineEnd(recvBuffer)
         line == WithoutCR(SubSeq(recvBuffer, 1, pos - 1))
         msg  == Parse(line)
     IN  /\ recvBuffer' = SubSeq(recvBuffer, pos + 1, Len(recvBuffer))
         /\ lines' = Append(lines, line)
         /\ dispatched' = IF msg.command = <<>> THEN dispatched
                                                ELSE Append(dispatched, msg)
  /\ UNCHANGED sent

Init ==
  /\ sent = <<>>
  /\ recvBuffer = <<>>
  /\ lines = <<>>
  /\ dispatched = <<>>

Next ==
  \/ \E chunk \in Chunks : Len(sent) < MaxChunks /\ Receive(chunk)
  \/ TakeLine

Spec == Init /\ [][Next]_vars

-----------------------------------------------------------------------------
(* The lines of a whole stream: what stands between two line feeds, without*)
(* control characters and without one final carriage return.               *)
Stream == FlattenSeq(sent)

LineFeeds == {k \in DOMAIN Stream : Stream[k] = "\n"} \cup {0}
NextFeed(k) == CHOOSE j \in LineFeeds :
                 j > k /\ \A i \in LineFeeds : i > k => i >= j
Nth(n) == CHOOSE k \in LineFeeds :
            Cardinality({j \in LineFeeds : j < k}) = n - 1
Between(from, to) == Printable(SubSeq(Stream, from + 1, to - 1))

(* However the stream was cut into chunks, and wherever the cuts fell in a *)
(* line or between CR and LF, processMessage has seen the lines of the     *)
(* stream, each once and in order, and the buffer holds the unfinished one.*)
AsIfWhole ==
  ~HasLine =>
    /\ Len(lines) = Cardinality(LineFeeds) - 1
    /\ \A n \in DOMAIN lines :
         \E body \in {lines[n], Append(lines[n], "\r")} :
           /\ body = Between(Nth(n), NextFeed(Nth(n)))
           /\ body = lines[n] => body = <<>> \/ Last(body) # "\r"
    /\ recvBuffer = Between(Nth(Len(lines) + 1), Len(Stream) + 1)

(* What a message says does not depend on how its line was written: sent   *)
(* again in the form of a server, with a prefix, single spaces and a colon *)
(* before the last parameter, it parses to the same message.               *)
Before(params) ==
  FlattenSeq([k \in DOMAIN params |->
    IF k = Len(params) THEN <<" ", ":">> \o params[k] ELSE <<" ">> \o params[k]])
Render(m) == <<":", " ">> \o m.command \o Before(m.params)

Reparses == \A k \in DOMAIN dispatched :
              Parse(Render(dispatched[k])) = dispatched[k]

(* The parser drops nothing but a prefix, spaces and colons, and whatever  *)
(* follows the last parameter it has room for.                             *)
Essence(s) == ToUpper(Without(s, {" ", ":"}))

NothingLost == \A k \in DOMAIN lines :
  LET m    == Parse(lines[k])
      kept == Essence(m.command \o FlattenSeq(m.params))
      all  == Essence(lines[k])
  IN  m # NoMessage /\ lines[k][1] # ":" =>
        /\ IsPrefix(kept, all)
        /\ Len(m.params) < MaxParams => kept = all
=============================================================================
