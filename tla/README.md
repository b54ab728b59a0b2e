# Verification of ircserv

TLA+ models of this IRC server, their TLC configurations and TLAPS proofs.
Paths are relative to the repository; `Server.cpp` stands for
`src/src/Server.cpp`, `handleJoin.cpp` for `src/src/handleJoin.cpp`, and so on.

    tlc -workers 2 -config membership.cfg MCCore     model-check a run
    tlapm IRCCoreProofs.tla                          check the proofs

## The system

One process, one thread, one `poll` loop. The parts and how they meet:

| part | state | operations |
|---|---|---|
| `Server` (`Server.cpp`, `main.cpp`) | `_pollfds`, `_recvBuffers`, `_sendBuffers`, `g_server_running` | `ircLoop`, `acceptNewClient`, `receiveData`, `sendData`, `queueResponse`, `disconnectClient`, the signal handler |
| receive buffer and `Parser` | the unfinished line of each connection | cut the stream into lines, parse a line into a `Message` |
| `CommandDispatcher` and the handlers | none of its own; a `CommandResult` per command | PASS, NICK, USER, JOIN, KICK, INVITE, TOPIC, MODE, PRIVMSG, PING, CAP |
| `ServerState` | `_clientsByFd`, `_clientsByNick`, `_channels` | `addNewClient`, `removeClient`, `updateNickname`, `removeChannelIfEmpty` |
| `Client` | names, accepted password, registered flag | setters, `tryRegister` |
| `Channel`, `ChannelModes` | members, operators, invited clients as raw pointers; topic, key, limit, flags | add, remove, set, unset |
| `ReplyBuilder`, `Banner` | none | text only |

`Server` reads a chunk, hands every complete line to `Parser::parse`, the
message to `CommandDispatcher::dispatch`, and puts the replies it returns into
the send buffers of whichever descriptors they are for. `dispatch` works on
`ServerState`, which owns the `Client` objects; channels refer to clients by
pointer and own nothing. `disconnectClient` tells `ServerState` to forget the
client: the only path on which a `Client` is deleted.

What is hard here, and what makes each part correct:

* **ServerState and channels.** A `Client*` sits in two maps and in three sets
  of every channel. Deleting a client must clear them all, since the allocator
  may give the address to the next client, which would inherit its rights. The
  nickname table is kept by three different paths (NICK, disconnect,
  registration) and must stay exact.
* **Command loops.** JOIN, KICK, PRIVMSG and MODE walk a list and each turn
  sees what the earlier turns did: a KICK list can remove the kicker or the
  whole channel, a MODE line can take away the right it was started with.
* **Registration.** Three commands in any order, each repeatable, one welcome.
* **The loop.** Descriptors are closed, reused and moved in the vector while it
  is walked; a report of `poll` is used later than it was made; peers close,
  reset and fill up between any two system calls; a send may be partial.
* **Line framing.** A chunk ends anywhere, also between CR and LF.

The hazards, at their lines and with the properties that watch them, are in
`PROJECT.json`.

## Modules

| module | what it is |
|---|---|
| `IRCNames` | the data: sockets, addresses, nicknames, channels, words; the assumptions on them |
| `Client`, `Channel` | the two classes as records and operators on them |
| `IRCCore` | state machine of `ServerState` and all command handlers |
| `IRCSafety` | its type invariant, invariants and step properties |
| `Chat` | what the command core is to its users: sessions, rooms, no pointers |
| `IRCRefinement` | the mapping from `IRCCore` to `Chat` |
| `MemberViews` | `IRCCore` with what each client has been told of each channel |
| `ModeAnnouncements` | `IRCCore` with the channel as it was before the MODE line in progress |
| `ServerLoop` | state machine of `Server`, the kernel's sockets and the peers |
| `LoopProperties` | what the loop promises |
| `Connections` | what `Server` promises to the rest: a table of connections with replies to send |
| `IRCServer` | `IRCCore` and the send buffers of `Server` composed |
| `Parser` | `Parser::parse` as operators |
| `LineInput` | `receiveData`'s framing as a state machine over a chunked stream |
| `ReplyBuilder` | the lines the server sends, as operators |
| `Relay` | what a receiver makes of a relayed command |
| `IRCCoreProofs`, `IRCWelcomeProofs`, `IRCViewsProofs`, `IRCModesProofs`, `IRCRefinementProofs`, `IRCServerProofs` | the theorems about the command core and what is composed with it |
| `ServerLoopProofs` | the theorems about the poll loop |
| `WireProofs` | the theorems about framing, parsing and reply text |
| `MCCore`, `MCModes`, `MCViews`, `MCServer`, `MCLoop`, `MCLineInput` | finite instances for TLC |

    Parser <- LineInput <- Relay -> ReplyBuilder
    IRCNames <- Client, Channel <- IRCCore <- IRCSafety <- IRCRefinement -> Chat
                                                        <- MemberViews
                                                        <- ModeAnnouncements
                                                        <- IRCServer -> Connections
                                     ServerLoop <- LoopProperties -> Connections

### IRCCore

`client` is the heap: the `Client` object at each address, `NULL` where nothing
is allocated; `AddNewClient` picks any free address, so addresses are reused in
every possible way. A handler without a loop is one action. A handler with a
loop is a `Handle...` action for the checks before the loop and a `...Step`
action per turn; `job` is the handler in progress, and every other action waits
until it is done, as the single thread does. Refusals are tested in the order of
the code (`PassReply`, `KickReply`, `Barred`, ...). `result` holds the replies
of the last command per descriptor, each reduced to its numeric or its command:
that is enough to say who hears of what. `001` stands for the four welcome
lines and `353` for the names list with its end. A MODE line collects its
announcement in `job.finalModes` and `job.finalParams` as the handler does
(`Announced`). With `OutOfMemory`, `ensureChannel` may fail and the JOIN turn is
skipped without an answer.

Abstracted: a nickname that passes the character rules is a member of `Nick`;
every other word is refused. A target that
begins with `#` and is no valid channel name is left out: it behaves like a
channel that does not exist. `Atoi` is a constant function, so every result of
`atoi` is covered. Channel names are members of `Chan` or words that are no
channel name. Real names, message texts and kick reasons are left out.

### Chat and IRCRefinement

`Chat` is the specification a user could read: sessions with a unique name,
rooms that are entered by policy and governed by operators. A session asks
(`request`): to enter rooms, each with the key it offers, to put members out of
a room, or to change the modes of a room it governs. Nobody else is heard until
the request is answered to its end. A room lets in whom its policy lets in
(`LetsIn`: the invitation, the key and the limit, where they are asked for), a
member is put out only by who governs the room at that moment, and nobody is
turned away without a reason (`Decline`). A session that ends takes its
memberships, ranks and invitations with it.

`IRCRefinement` maps the heap and the tables to it: the session of a socket is
read through `_clientsByFd`, and every set of pointers becomes the set of
sockets whose clients they point to (`FdsOf`). So a stale pointer, an entry that
outlives its client or an address handed to the next client shows as a right
`Chat` does not give. `RequestBar` is what the handler in progress has still to
do, each channel of JOIN paired with the key that stands at its place in the
key list: every turn of JOIN and KICK answers exactly one entry, so a turn that
skips an entry, takes the key of another channel, forgets a check or refuses
without one is no step of `Chat`.

### MemberViews and ModeAnnouncements

Both add one history variable to `IRCCore`. `view` is what each client can know
of the members of a channel from the replies it was sent: the names list on its
own JOIN, then each JOIN and KICK. The server tells nobody of a lost connection,
so pictures do go stale; what the properties say is that they never miss a
member, that no command makes them staler, and that a turn which changes the
members tells, by what that very turn adds to the result (`New`), everybody who
is or was in the channel. `before` is the channel when the
MODE line began; `Replayed` reads the announcement as a client does, sign by
sign with its parameters, on `before`, and must arrive at the channel as it is.

### ServerLoop, LoopProperties, Connections

An action runs from one system call to the next. `loop` says where `ircLoop`
is and at which index; `sock` is the kernel's side of each descriptor: whether
the peer is up, has closed, has reset, or has reset after closing (`broken`,
when a send raises SIGPIPE), how many chunks wait, and whether there is room to
send. Peers (`Connect`, `PeerSends`, `PeerReads`, `PeerCloses`, `PeerResets`)
and the signal act between any two steps. The commands in a chunk are reduced to
their effect here: replies for some connected clients. When a failed send has
erased the entry of the loop, the error test reads the entry that moved there,
or anything when it lies behind the end of the vector (`ErrorReported`).
The model is of the Linux build: sockets block, `recv` and `send` use
`MSG_DONTWAIT`. With `Spurious` the two may fail with EAGAIN on a descriptor
`poll` reported ready. With `OutOfMemory` `addNewClient` may fail; the code
ignores that, and the connection stays without a client, mute.

`Connections` is what is left when poll, vector and kernel are taken away: a
descriptor stands for one connection at a time, replies go to connections with
a client, are sent in parts, and go with the connection. Only how many replies
are not wholly sent is followed, not which.
`ImplementsConnections` shows it of the loop, `ServesConnections` of the command
core: the two meet there.

### IRCServer

`_sendBuffers` next to the command core. `ProcessMessage` dispatches a message,
`HandlerGoesOn` continues a handler, and when it returns every reply of its
result is appended to the buffer of its descriptor, with `operator[]`: an entry
that is not there is made. `Accept`, `SendData` and `Disconnect` wait until the
handler is done. The order in which poll serves connections is left to
`ServerLoop`; here any order may come.

### Parser, LineInput, ReplyBuilder, Relay

`Parse` is the tokenizer with its positions. `LineInput` receives arbitrary
chunks, drops control characters, cuts lines and parses each. `AsIfWhole`
compares with a definition over the whole stream, `Reparses` and `NothingLost`
with what a client meant: rendering a parsed message and parsing it again gives
the same message, and nothing but prefix, spaces, colons and surplus parameters
disappears. `ReplyBuilder` has an operator for each builder, with its prefix,
separators and colon; a fixed word is one character. `Relay` sends what a client
wrote through the builders and has the receiver read it with the same rules.

## Runs

| run | question | bounds |
|---|---|---|
| `membership` | tables and registration stay exact while clients come, rename and go; no dangling pointer, ranks, empty channels, invitations, limits; the core implements `Chat` | 3 sockets, 3 addresses, 3 names, 1 channel, kick lists of 2 names, +i +l -k -o, an unknown mode, PRIVMSG |
| `modes` | every mode both ways, missing, empty, useless and surplus parameters; limits stay non-negative; the operator check does not go stale; the announcement replays | 2 clients, 1 channel, 8 mode strings, 7 parameter lists |
| `lists` | who hears of JOIN and KICK, and what each member can know; keys let in whom they should: the core implements `Chat` | 2 clients, 2 channels, each with +k, join lists of 2 with aligned, short and shifted keys, kick lists of 2, failing allocations |
| `server` | replies only to connections with a client; every handler returns | 2 sockets, 2 clients, 2 names, 1 channel, buffers of 2 replies, failing allocations |
| `wire` | framing and parsing of a chunked stream; what is relayed reads back as sent | 6 chunks of 1 to 4 characters, `MaxParams` 3 |
| `loop_tables` | vector, buffers, `ServerState` and kernel agree; POLLOUT is exact; no blind call; the loop implements `Connections` | 2 descriptors, 2 chunks, 2 replies, EAGAIN and failing allocations |
| `loop_service` | healthy clients stay, dead ones go, input is read, replies are served, a signal stops the server | 2 descriptors, 1 chunk, 1 reply |
| `same_nick`, `empty_key`, `sigpipe`, `stale_index`, `eagain` | statements of documents and tests the code contradicts (below) | as above |

Why the bounds are enough. Two clients compete for one name or address, and a
third one is needed for a bystander to be hit: three. Kick lists of two names
hold every combination of kicker, other, absent and repeated name. `Chat` is
checked twice, because the bounds would be too much for one run: in `membership`
invitation, limit and kicks with a bystander, in `lists` the keys of two
channels, where a key can be missing, right, or right only for the other channel
of the list; the theorem has all policies together. A pair of descriptors lets
one be erased in front of, behind or at the index, and be reused in the same
round. One reply in the buffer of a client that cannot be sent, one being sent
and an empty buffer are the cases of `sendData`. A send may be partial, and then
the number of replies that are not wholly sent may stay what it was. In `server`
a descriptor that is closed and used again by the next client is the case that
matters, and two descriptors with a channel between them give it a sender and a
receiver. Six chunks make lines with a prefix, a command, two parameters and a
trailing, or several short lines; `MaxParams` 3 puts the limit within reach and
leaves room for KICK and MODE. Sockets, addresses and names (and descriptors in
`loop_tables`) are interchangeable, so the runs without liveness use symmetry;
`loop_service` and `server` do not. In the runs of the loop and in `server`
bounds are caps in guards: `MaxInbox` on what a peer may have in flight,
`MaxQueue` on replies; a reply beyond `MaxQueue` is merged with one that is
already queued.

`CHECK_DEADLOCK FALSE` is set for the loop, which ends after a signal, and for
`wire`, whose stream ends.

## Fairness

`FairServer` asks that a handler in progress goes on (`HandlerGoesOn`): nothing
in a handler waits for anything, and the one thread does nothing else meanwhile.
It does not ask that commands arrive. For the loop, `FairSpec` asks that the
thread goes on when it can (one thread, no locks, weak fairness of all of
`Server` together), and `ReadingSpec` adds that a peer that is up reads what it
is sent sooner or later: without it no server can promise delivery, and with it
nothing is assumed of peers that have closed or of new connections. Nothing in
the loop has fairness of its own: that every descriptor gets its turn follows
from the walk through the vector.

## What is proved

Every safety property that a passing run checks is a theorem, and so are the
refinements. All theorems hold for any sets of sockets, addresses, nicknames,
channels and lists, any bounds and any `Atoi`, and those about the wire for any
chunks; they assume only the named assumptions the modules state of their
constants: addresses are finitely many, `NULL` and the other markers are none of
the data (no word, number, session, room or request either), bounds are
positive, the listening socket is no connection, a closed descriptor is no
socket, only the last parameter of a MODE line can be empty
(`EmptyLastAssumption`, which the parser gives), a chunk is a sequence
(`ChunksAssumption`), and a message has room for the two parameters of a PONG
(`RelayAssumption`; the code has room for 15).

**`IRCCoreProofs`.** `TypeCorrect`, `SocketTable`, `NickTable`, `Registration`,
`ChannelPointers`, `Ranks`, `ChannelsInhabited`, `ModeAuthority` are the
invariants of the runs; `NamesNotStolen`, `InvitationsRevoked`,
`RanksNotInherited`, `LimitKept` the step properties.

The invariant is built in layers. `Base` holds the types, `FdTableExact` and
`JobOK`, and is inductive alone (`BaseInvariant`). `JobOK` is what makes it so:
the handler in progress belongs to a connected and registered client, and the
channel a MODE line has looked up once still exists at each turn; without it a
turn could not be shown to work on a client or a channel at all. On top of it
`NickTableExact`, `RegistrationExact`, `ChannelsOK` and `ModeAuthorityHolds` are
each inductive relative to `Base`, and together they are `CoreInv`
(`CoreInvariant`). `ChannelsOK` is stronger than the three invariants it gives:
it says of each channel that members are live and registered, operators are
members, invited clients are live, and nobody is missing. "Live" has to be part
of it, since a dangling member would become a registered member as soon as its
address is allocated again. The step properties follow from `Base` and a step
lemma each.

**`IRCWelcomeProofs`.** `WelcomeExact`: a client hears the welcome in the step
that registers it, and in no other. A handler collects its replies over many
steps, so `Base` is strengthened by what has been collected so far: `WelcomeInv`
says that the result of a handler in progress holds no welcome for anybody. It
rests on the lemmas `RequestResult` and `TurnAdds` of `IRCCoreProofs`, which say
the same of each request and of each turn.

**`IRCViewsProofs`.** `AllChangesAnnounced`, `PicturesComplete`,
`PicturesDecay`. Of all the steps only the turns of JOIN and KICK need a close
look, and each has two outcomes: it changes one channel by one member and adds,
in that turn, a JOIN or KICK for exactly the sockets of those who were or are in
it (`Enters`, `Expels`), or it changes no members and adds nothing of the kind
(`Calm`). `AllChangesAnnounced` looks only at what a turn adds: a line of an
earlier turn of the list, for another channel or another member, does not count.
`Audience` turns the sockets a broadcast goes to into the clients it is meant
for; it needs the tables to be inverse to each other, so `CoreInv` is part of
`ViewInv`. With the outcomes as lemmas the pictures are followed turn by turn,
each as one operator on sets of addresses.

**`IRCModesProofs`.** `AnnouncementsReplay`: whoever reads the announcement of a
MODE line on the channel as it was before has the channel as it is, after every
turn. A reader goes through the announcement from its start while the handler
appends at its end, so the invariant `LineInv` has the whole reading, as a
function from the positions of the announcement to what the reader holds there.
A turn that announces a change adds a position, and a parameter it announces is
put at the end of what every earlier position has still to take. The hazard is a
reader that runs out of parameters: only an announced empty key does that, and
an empty parameter is the last of its line, so nothing can follow it. The sign
the reader has in mind is the one `job.lastSign` stands for: that is why the
handler may leave a repeated sign out.

**`IRCRefinementProofs`.** `CoreImplementsChat`: every step of the command core
is a step of `Chat` or none. Under `CoreInv` sockets and live clients correspond
one to one, so sets of pointers and sets of sockets can be exchanged
(`FdsFacts`, `FdsAlone`) and have the same size, which the member limit needs
(`FdsCount`). The list of JOIN and its keys are consumed in step (`DoorsFacts`),
and what is left after a turn is the rest of the request (`AskedNow`,
`AnswersOne`). The checks of JOIN agree with the policy of the room in both
directions (`PolicyExact`), since `Chat` lets nobody in against it and turns
nobody away without it. KICK finds by name the member `Chat` means
(`MemberNamed`): that needs the nickname table to be exact and members to be
registered. Then each action is matched with the step of `Chat` it makes.

**`IRCServerProofs`.** `ServerServesConnections`: the composed program
implements `Connections`. `ServerInv` adds two facts to `CoreInv`: `Carried`, a
descriptor with a client has a buffer, and `Answerable`, every reply of the
result so far is for a descriptor that has a client. The second one is the
point: it has to hold after every turn of every handler, since the replies are
queued only when the handler has returned.

**`ServerLoopProofs`.** `LoopTypeCorrect`, `LoopTablesAgree`,
`LoopPollOutExact`, `LoopNeverBlind`, `LoopImplementsConnections`, and
`LoopKeepsHealthy` for the case without spurious readiness. The tables alone are
not inductive, since the loop acts on reports as old as its round, at an index
that disconnects shift. `LoopInv` adds `Handling`, which says that the loop is
at the entry of the client it handles or has just disconnected that client, and
`Trusted`, which says that each report the loop has still to read, at or behind
the index, is true. `Removal` is the lemma on the vector: erasing an entry moves
no other one to the right, so a report that was ahead of the index and moves
is still one that was trusted.

**`WireProofs`.** These theorems are about sequences of any length, and the
induction theorems of the library take an operator as a parameter, which the
provers cannot instantiate. What they can use is that every nonempty set of
natural numbers has a least element (`WFMin`), and with the set of the numbers
for which a fact holds that is induction: `SetInduction` upwards, `Downwards`
from `MaxParams`, where the parser stops. The first part uses it to say what
the operators compute that the model takes from the library: `FlattenSeq` of a
concatenation, `Without`, the first occurrence of a character.

* `InputInvariant`, `CutsDoNotMatter`. `InputInv` says where the stream received
  so far has been cut: there are places, increasing, each at a line feed and none
  left out, such that the lines handed on are the pieces between them and the
  buffer is what is behind the last. A chunk lengthens the stream behind all of
  them; a turn of the loop cuts at the next line feed, since the first one of
  the buffer is the first one of the rest. The line feeds are then exactly the
  cuts, and `AsIfWhole` follows.
* `ParsedTwice`, `ParsedWhole`. `Params` goes by positions of the line; `Read`
  is the same function of what is still to be read (`ReadBehind`), so that it
  can be applied to a text put together from parts. Such a text is blank, or
  starts with spaces and a colon, or with spaces and a word and a rest
  (`LineForms`), and for each there is a rule that says what is read (`ReadNothing`,
  `ReadText`, `ReadMoreWords`). Everything read has the `Shape` of parameters:
  words, then a last one that may be anything, and never too many. Writing such
  a list out and reading it with the same rules gives it back; and each
  rule drops nothing but spaces and a colon (`Keeps`).
* `RelayedAsSent`, `KeysAnnounced`, `NumericsReachTheirClient`. A line of a
  builder is a prefix without a line end, a command and parameters written with
  `Word` and `Text`, so the same rules say what its receiver reads (`Says`,
  `NumericHeard`). For `KeysAnnounced` both directions matter: a key that is one
  word arrives, and one with a space, or that starts with a colon, does not,
  since what arrives has the `Shape` of parameters and the key does not fit it.

## What is only model-checked

Liveness: `EveryHandlerReturns`, `DeadPeersGo`, `InputRead`, `RepliesServed`,
`StopsAtNextEvent`. It needs ENABLED and fairness, which are out of reach of the
prover. And the five disagreements below, where TLC shows a behaviour.

## Disagreements found

* `same_nick`: `updateNickname` accepts the name the client already has
  (`ServerState.cpp:64`), a unit test expects a refusal
  (`unitTest/test_ServerState/test_ServerState.cpp:69`).
* `empty_key`: `MODE +k` accepts an empty key, and JOIN without a key offers
  exactly that one, so the channel is open to all.
* `sigpipe`: a peer that has closed and reset when the server sends to it ends
  the server with SIGPIPE (`Server.cpp:244`, `docs/design.md:519`).
* `stale_index`: after a failed send the loop looks at another entry, or behind
  the end of the vector, for the client it has just removed
  (`Server.cpp:171`, `docs/design.md:505`). The effect is bounded:
  `SocketsAgree` and `DeadPeersGo` hold in spite of it.
* `eagain`: every failed recv or send disconnects, EAGAIN included
  (`Server.cpp:100-105, 263-266`, `docs/design.md:215`).

## Not modelled

* The wording of the numerics and of the CAP answers, `Banner`, `Debug`: text
  that nothing in the program reads.
* Failures while the server starts (`setupSocket` throws, the process ends) and
  the destructors.
* `CommandResult::requestToDisconnect`: no handler calls it, and so
  `processMessage` never disconnects.
* The Apple build (non-blocking sockets without `MSG_DONTWAIT`).
* Limits on memory: a line without a line feed makes the receive buffer grow;
  the code has no limit to check. A failed allocation is modelled where the code
  handles one (`addNewClient`, `ensureChannel`); elsewhere it ends the program.
* An order of service inside `IRCServer`: `ServerLoop` has it, with the commands
  reduced to their replies. The two are joined by `Connections` and not by one
  product, whose state space is beyond TLC.

## Plan

Done: names, client, channel, command core, loop, framing, parser and reply
text; `Chat`, with requests and policies, and the refinement to it;
`Connections` and both refinements to it; member views and mode announcements;
all their safety properties checked and proved. Left:

1. Theorems that say of the reply lines what is now only said of dispatched
   messages: that every line the core sends is one line, whatever a client wrote.
2. A third descriptor in `loop_tables`, in exchange for smaller buffers.
