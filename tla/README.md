# A verification development of rtype_server

TLA+ models of the R-Type servers, the TLC configurations that check them, and
TLAPS proofs about them. Paths are relative to `src/Project/rtype/` unless they
begin with `src/`.

## 1. The system

Two programs. The **master server** accepts players, authenticates them,
groups them by mode (Solo, Duo, Trio, Quatuor: 1 to 4 players), spawns a
**game server** process for each group and tells the group its port. The game
server waits for exactly those players, creates their ships, and then applies
and broadcasts their moves.

| Component | State it keeps | Operations | Interacts with |
| --- | --- | --- | --- |
| `master/Server.hpp` | the acceptor, the io_service | accept, signal | hands sockets to PlayerPool |
| `master/PlayerPool.hpp` | `_players`, `_identifiedPlayers` (nickname to session), each session's `info` and pending read | error, Authenticate, QueueJoin, QueueLeave, `_startMatch` | API (blocking), MatchMaker, GameSpawner, one connection per session |
| `master/MatchMaker.hpp` | a set of players per mode | `addPlayer`, `remove`, `canStartMatch`, `extractGame` | holds pointers into the sessions |
| `master/GameSpawner.hpp` | the next port (unsigned short) | `getNextPort`, `spawnGame` | starts game server processes |
| `netproto/TCPProtocolConnection.hpp` | the read buffer, `_used`, a queue of packets | `asyncRead`, `_handleRead`, writes | both servers own connections |
| `protocol/` | nothing | serialize, unserialize, the packet types | the connection |
| `gameserver/ServerIOThread.hpp`, `IOThread.hpp` | `_clients` (no lock), the packet queue (locked) | accept, read, error, `broadcastPacket` | runs on its own thread; the game thread pops and broadcasts |
| `gameserver/Server.hpp` | expected tokens, names by client ID, ships by name, the batch of players | `_handleAuth`, `_handleMove`, the main loop | API, entities, scripts, quad tree |
| `entity/QuadTree.hpp` | nodes, items, `_itemMap` | `insert`, `remove`, `move` | the scripts call `quadMove` after a move |
| `entity/`, `components/`, `lua/`, `api/`, `error/`, `gameserver/ConfigManager` | entities, plain data, bindings, HTTP requests, configuration | | |

What is hard in it:

* the master server runs one handler at a time, but reads that have completed
  stay in the io_service while other handlers close the session they belong to,
  so *ghosts* still speak;
* sessions are looked up by nickname, and a nickname may have several sessions;
* a session may re-authenticate, join several queues, or disappear at any step;
* the game server has two threads that share the vector of its clients;
* the ID of a client is its index in that vector;
* a stream of bytes is cut into packets two bytes at a time, in a buffer whose
  size is not the number of its valid bytes.

`PROJECT.json` lists every hazard at its line with the properties that watch it.

What makes each part correct: a session that is connected is read from; who is
queued can be found; a full queue starts a match; a match tells all its players,
once, a port of its own, and lets them go (master server); packets arrive whole
and in order (connection); each token makes one ship, all players learn of all
players, and whoever moves a ship by its name is the player it was made for (game
server); each ship is found in the tree where it is (quad tree).

## 2. The modules

| Module | Models | Note |
| --- | --- | --- |
| `MatchMaker` | `master/MatchMaker.hpp` | pure operators on the queues |
| `PlayerPool` | `master/PlayerPool.hpp`, `Server.hpp`, `GameSpawner.hpp` | the master server; one action per handler |
| `Lobby` | what the master server promises | abstract; `PlayerPool!ImplementsLobby` |
| `MatchClosing` | lines 112-114 of PlayerPool.hpp, one iteration at a time | reference for a closed form |
| `Protocol` | `protocol/Protocol.hpp` and the packet types of both servers | pure operators on bytes |
| `TCPProtocolConnection` | the reading side of the connection | a stream of the bytes that `Protocol` writes |
| `PacketChannel` | what a connection promises | abstract; `ImplementsChannel` |
| `GameServer` | `gameserver/Server.hpp`, `ServerIOThread.hpp`, `IOThread.hpp` | two threads; a broadcast is one action per client |
| `Game` | what a game server promises | abstract; `GameServer!ImplementsGame` |
| `Service` | both servers together, `src/Project/game-main.cpp`, the start of a game server | extends `PlayerPool` with the processes and the players' way to them |
| `QuadTree` | `entity/QuadTree.hpp`, the moves of `src/bin/assets/scripts/player.lua` | positions on a grid |
| `PlayerPoolProofs` | | theorems about the clients of `PlayerPool`; extends it |
| `PlayerPoolGamesProofs` | | theorems about the games it starts, and that it implements `Lobby`; extends `PlayerPoolProofs` |
| `ProtocolProofs` | | what is read from the bytes of numbers, fields and packets; extends `Protocol` |
| `TCPProtocolConnectionProofs` | | theorems about `TCPProtocolConnection`; extends it and `ProtocolProofs` |
| `GameServerProofs` | | theorems about `GameServer`; extends it |
| `GameProofs` | | what is announced, that `GameServer` implements `Game`, and games whose players stay and wait for the start; extends `GameServerProofs` |
| `ServiceProofs` | | the theorem about `Service`; extends it and `PlayerPoolGamesProofs` |
| `QuadTreeProofs` | | theorems about `QuadTree`; extends it |
| `MCPlayerPool`, `MCTcp`, `MCGameServer`, `MCService`, `MCQuadTree` | | values for TLC |

### PlayerPool

A session is a number, the rank of its address: the `std::set`s of the code are
ordered by pointers, and `extractGame()` and the closing loop walk in that order.
The accept order is free, so every order of addresses occurs. Sessions are never
freed (the callback inside the connection holds a shared pointer to the session
that owns the connection), hence no address is reused.

`pending[s]` is the read of session `s`: `Idle` (the chain of reads has ended),
`Armed`, `Failed`, or the packet it completed with. `Receive` and `PeerClose`
are the peer; the handlers consume the read. `socket().close()` turns `Armed`
into `Failed` but leaves a completed read alone (`AfterClose`), and reading a
closed socket fails (`Rearmed`). That is where ghosts come from.

`API::getData()` blocks the handler, so it is part of the action: it succeeds, or
fails having changed the nickname or not. `StartMatch` is the whole of
`_startMatch()`: notices, spawn, port, and the loop that disconnects the players.
That loop looks each player up again in a directory it changes; `Closers` and
`AfterClosing` give its outcome in closed form, and `MatchClosing` checks the
form against the loop. A lookup that finds null is `StartMatchCrashes`.

`Unruly` says what clients do beyond the polite protocol; `Permitted` defines
it. Excluded inputs: a mode outside the enumeration (the wire carries an
integer that the code does not check).

### Protocol and TCPProtocolConnection

A packet type is the sequence of the kinds of its fields, a packet the position
of its type with the values of its fields, as `serializableFields()` and the
lists `Packets` give them. `Frame` is what is written for a packet and
`Unserialize` what is read from bytes, field by field with what is left of the
span, with `NotEnoughData` and the unknown type as outcomes. `IsPacket` says what
the C++ types say of a packet: a type of the list, and for each of its fields a
value that its width can hold. `Base` and `Width` are parameters, so that an
instance can enumerate the bytes.

In the connection, `stream` is what the peer has written, `ends` where each
packet ends in it, `base` the offset of the first byte of `_buff`. `size` is
`_buff.size()`, which includes room for a whole chunk, and `used` the valid
bytes; `Complete` compares with `size`, as the code does. The bytes behind the
valid ones are the zeros of `resize()`, and they are what a torn packet is
parsed with. Sizes are `size_t` and wrap at `SizeSpace`. A parse that runs out of
bytes throws through the io_service (`Throw`): no packet of the connection's own
list does, but one of the other server's list may, so `Messages` may hold both.
The owner pops the packet and reads again in the callback, which is part of
`Deliver`. Excluded inputs: sizes that no `Formatter` writes.

### GameServer

`clients` is the vector, `capacity` its room: a `push_back` that reallocates
while the game thread walks over the vector, and a walk beyond the last element,
set `undefined`. Other accesses to the vector that race are taken one after the
other, so that an erase during a walk can make it skip a client. Packets go
through `queue` with the ID their sender had when they were read. `outbox` and
`cursor` are the broadcast in progress. `names`, `ships` and `created` are the
three maps a Move goes through: from client to name, from name to entity ID, and
the entities; IDs count up and no entity is removed. `moves` remembers who moved
what.

The game thread is in a phase: it pops packets (`drain`), broadcasts (`send`), or is
done with a frame (`rest`) and sleeps, before the loop of `start()` looks at
`stopped()` again; what came in the meantime is then dropped (`Finish`). A Move may
have any nickname, or the empty name: for a client that is not known `operator[]`
inserts the empty name, on which it may then act, and the ID 0 for a name without a
ship. `HandleMove` is the case in which there is an entity of that ID; in the other,
`at()` throws inside a `noexcept` function (`Terminate`) and the process is `dead`.
Excluded inputs: packets no handler looks at; accounts with an empty nickname, which
are the API's to refuse. The time of a Move is in `QuadTree`.

`Game` is the abstract specification: each awaited token seats one player, all
are introduced once and only when nobody is awaited, and what moves under a name is
the ship of a seated player. Something may also move under no name once somebody
sits (`Stray`): that is as much as can be promised of a server that lets an unknown
client do it. It says nothing of threads, IDs or connections that come and go.
`ImplementsGame` maps `_authToks` to the awaited tokens, the entities to the
seats and the finished broadcasts to what was told.

### Service

`procs[i]` is the process of `games[i]`. `MasterStep` is a step of `PlayerPool`
that also spawns the process when it starts a match; `Spawned` takes the port
and the tokens of the command line. `Launch` is its start: the spawn, `main()`,
the assets and the acceptor, with the three ends they can have (`gone`, `deaf`,
`listening`). Two processes cannot listen on one port, so a process that gets a
port which an old game still holds is deaf; port 0 would make the system choose
another port, and is deaf to the players as well. `Connect` is a player, who
goes to the port of its notice with the token it authenticated with; it is the
client program's part and external. A process that has admitted a player admits
as `Game!Admit` does.

### QuadTree

A node is its square. The recursion along a path is the set of the nodes of that
path that change. `box'` moves first and the tree follows, as in the scripts.
The capacity of a leaf (4 in the code, as many as there are ships in a game) is
the constant `NbItems`, so that TLC can subdivide with few ships; the root is a
square. So what is shown of subdivided nodes is about the class: in the server the
root is a leaf for good, since four ships fit into it. A move goes any distance of
`Steps`, zero and negative ones among them, as nobody checks the time of a Move;
`Reach` bounds how far outside the field a box is followed. A time that is not a
number or infinite, which a float of the wire can be, is excluded. More than `NbItems` ships at one point would subdivide for ever until
the floats are exhausted, after which `insert()` loses ships; four ships cannot
do that with a leaf of four, and `Permitted` excludes it.

## 3. The runs

| Run | Question | Bounds |
| --- | --- | --- |
| `PoolPolite` | Polite clients: is the directory sound, does nothing crash, is everyone told, does the server implement the lobby, is a full house served and a departed peer forgotten? | 3 sessions and accounts, Solo and Trio, 3 games |
| `PoolUnruly` | Whatever clients do: are matches never missed, sessions never deaf, games authenticated, ports distinct? | 2 sessions, Solo and Duo, 3 games, ports wrap at 2 |
| `PoolShared` | Shared accounts and speech while queued: is a session told of one game at most? | 3 sessions, 2 accounts, Duo, 2 games |
| `PoolClosing` | Is the closed form of the closing loop right? | 3 sessions, 2 accounts, Trio, re-authentication |
| `TcpWhole` | Whole packets: is a connection a FIFO channel that delivers all that arrives? | 3 packets of the master's list, base 7, widths of 2 |
| `TcpSegments` | Any segmentation, and clients that speak the master's language to a game server: is the reader in step, until the last packet, and is what it reads what was written? | 3 packets of both lists, the same sizes |
| `TcpTorn` | Is every packet delivered whole? **No** | as `TcpWhole` |
| `GamePolite` | Do all players hear of all, and may move? Does a signal end the server, whatever it is doing? | 2 players, 5 packets |
| `GameUnruly` | Peers leave, return, and move too early, as others and under no name: one ship per token, announced together, names that lead to their ships, nobody deaf, moves by owners; does it implement `Game`? | 3 connections, 2 tokens, 3 packets |
| `GameIds` | May every player still move after another has left? **No** | 2 players, 4 packets |
| `Service` | Do the processes keep a place for each of their players, and get complete if they listen? | 3 sessions, 2 accounts, Solo and Duo, 3 games, ports wrap at 2 |
| `QuadTree` | Does the tree forget its history, and is every ship found? | 4 ships, leaves of 2, field of 4x4 and its border, steps of -1, 0 and 1 |

Why the bounds are enough. A ghost takes one session, its rival for the nickname
a second and a bystander a third; Trio makes the longest closing loop that three
sessions give. Ports wrap after two or three games, so a third game shows the
wrap. The reader of the stream has two phases per packet (header, payload) and
the chunk is two bytes; the packets have payloads of 2, 4, 5 and 9 bytes,
so both parities occur before, across and after a chunk, and three packets leave
a residue before and after a packet. With base 7 a size of 9 carries into its
second byte, as sizes above 255 do with bytes. Two
players are the smallest game with somebody to wait for; a third connection is
one that comes back with a used token. In
`Service`, a third session of two accounts is a player who comes back for
another game, and the third game gets the port of the first, after one on port 0.
Four ships with leaves of two subdivide the 4x4 field to its finest squares and merge them again.

`CHECK_DEADLOCK FALSE` everywhere: the servers stop at a signal, and the bounded
peers fall silent. `MaxGames`, `MaxPackets` and `MaxReceived` bound counters in
the guards, `Reach` the places of ships. `QuadTree` is checked up to permutation of
the ships, which is sound because no ship is special and only invariants are
checked. `GameUnruly` is checked up to exchange of the two connections of the first
player: they present the same token, and no property of the run tells them apart or
is about liveness.

Fairness. PlayerPool: each session's handler, since `io_service::run()` runs
every completed handler in turn; nothing is assumed of peers. The polite runs
never reach `MaxGames` with a session left over, so the bound does not disable a
handler that liveness needs. TCPProtocolConnection: `HandleRead`, the same.
GameServer: the game thread's steps and each connection's handler, since both
threads run; nothing of peers, the network or signals. Service: besides that of
PlayerPool, the start of each process comes to an end, and a player who can be
admitted is so in the end. The latter is an assumption on the client program and
on the API that the game server asks (a failed `getData()` leaves the token
valid, so that trying again helps), not on the code; `ListeningGamesPlay` says
that the code then does its part.

### What the code does not do

* `TcpTorn` (TCPProtocolConnection.hpp:52): when the last chunk of a packet is one
  byte short, the packet is delivered without its last byte and `_used` wraps.
* `GameIds` (ServerIOThread.hpp:35): erasing a client shifts the IDs of those behind it.
* With shared accounts a ghost that was disconnected by a match can enter a queue
  and stay there for good: its read fails, but `_disconnectPlayer()` returns early
  for a session that is not in `_players`. `DepartedForgotten` and `FullHouseServed`
  are therefore properties of polite clients, and `NeverCrashes` as well.
* A Move with an empty name, from a client that has not authenticated, passes
  `canActOnEntity()`: `operator[]` inserts the empty name for the client and compares
  it with itself (gameserver/Server.hpp:42). Line 87 then makes up the ID 0, so the
  ship that was created first moves, whoever owns it, and a `SetPosition` of nobody is
  broadcast. If there is no ship yet, `at()` throws inside a `noexcept` function
  (line 88, entity/EntityManager.hpp:174) and the process ends. `NamesHaveShips`,
  `MoverOwnsShip` and `Game!Stray` say exactly that much.
* A player whose Move is handled before its Authenticate never owns its ship:
  the lookup leaves an empty name that `emplace()` keeps (gameserver/Server.hpp:42, 65).
  `PlayersMayMove` is checked for players that authenticate first.
* A server that is stopped drops the packets that it received after its last `pop()`:
  the loop at gameserver/Server.hpp:180 looks at `stopped()` only. `StopsInTheEnd`
  says that it ends, not that it is done with its queue.
* A client that is refused by the game server is not disconnected: the branch at
  gameserver/Server.hpp:80 holds only a comment.
* A game server whose players have all left does not end: only a signal, or an
  exception that nobody catches, ends it. Its port stays in use when all its players
  have left, and once the counter comes round, after 65536 games, a new process
  on that port is deaf while its players reach the old one, where a token of
  theirs may still be awaited. `EveryPlaceIsKept` promises that a process admits
  its own players only as long as no other game had its port.
* Nothing tells the players of a game whose process did not come up.
* `NotEnoughData` (protocol/Protocol.hpp:132) is caught by nobody: a client that
  speaks the other server's language can end a game server.
* `src/Project/game-main.cpp:17` documents modes 1 to 4; the program takes 0 to 3.

## 4. The proofs

Each theorem holds for every value of the constants that satisfies the named
assumptions of the module: any sessions, tokens, accounts, modes and bounds; any
width of the port counter; any connections, tokens and packets of a game; any
field that halves down to 1, any ships, any room in a leaf; any base, widths,
packets and segmentation of a stream.

### The master server

| Theorem | States | Provided that |
| --- | --- | --- |
| `TypeCorrect` | `TypeOK` | |
| `NoMatchIsMissed` | `QueuesBelowMatchSize` | |
| `NoSessionIsDeaf` | `NoDeafSession` | |
| `PortsGoRound`, `NoPortIsSharedWithinATurn` | `PortsInTurn`, `PortsDistinct` | |
| `GamesAreStartedWithTokens` | `GamesAreAuthenticated` | |
| `NobodyIsToldTwice` | `ToldOfOneGame` | nobody authenticates twice on a connection |
| `PoliteClientsKeepTheDirectory` | `PoliteInv` | `Unruly = {}` |
| `PoliteClientsNeverCrashTheServer` | `NeverCrashes` | `Unruly = {}` |
| `PoliteClientsAreReachable` | `QueuedAreReachable` | `Unruly = {}` |
| `PoliteClientsKeepTheirNames` | `NicksAreAccounts` | `Unruly = {}` |
| `PoliteClientsAreTold` | `EveryoneTold` | `Unruly = {}` |
| `PoliteClientsPlayOneGame` | `GamesAreDisjoint` | `Unruly = {}` |
| `ServerImplementsLobby` | `ImplementsLobby` | `Unruly = {}` |

`QueuesBelowMatchSize` is inductive with the types: one handler adds one player,
and at the match size the match takes all of them. `NoDeafSession` needs the
link between `_players` and the pending reads only. `NeverCrashes` and
`QueuedAreReachable` are not inductive: `PoliteInv` adds that the directory and
the authenticated sessions are inverse functions (`DirectoryIsSound`,
`DirectoryIsComplete`), that places in queues belong to authenticated sessions,
that no read outlives what it depends on (`ReadsAreTimely`) and that a session
about to authenticate has its account for itself (`AccountsAreExclusive`). The
last is what makes a lookup by nickname a lookup by session. The hard step is
`StartMatch`: under the invariant `Target(p) = p`, so the closing loop
disconnects exactly the players of the match.

`PortsDistinct` follows from `PortsInTurn`: the port of the n-th game is a
function of n that is injective over one turn of the counter. The properties of
the games are about steps that start one, which `OnlyMatchesStartGames` singles
out. `GamesAreAuthenticated` needs `QueuedHoldTokens`: whoever waits in a queue
has a token, and no ghost among them has a packet left that could clear it.
`ToldOfOneGame` needs
`AccountsAreKept` (a session that asks for an account has none, so an entry of
the directory is under the nickname its session still has) and `ToldHaveLeft`
(who was told of a game is disconnected): the lookups by nickname tell and
disconnect the same sessions, whoever they are. It is false when a client may
authenticate again. `GamesAreDisjoint` needs `PlayedHaveLeft` and that nicknames
are those of accounts. For the refinement, `StepIsPromised` has a case for each
handler: it is `Connect`, `Wait`, `Match` or `Leave` of the lobby, or a stutter.

### The protocol and the connection

| Theorem | States | Provided that |
| --- | --- | --- |
| `RoundTrip` | `Unserialize` undoes `Serialize` | the widths can hold the values |
| `TornNeverShort` | a packet cut anywhere but before its first byte, and filled up with zeros, does not throw | the list has fewer types than a byte has values |
| `TypesKept` | `TypeOK` | |
| `ReaderInStep` | `InStep` | |
| `TornIsLast` | `OnlyTheLastIsTorn` | |
| `NoneLeftBehind` | `NothingLeftBehind` | |
| `OwnPacketsRead` | `ReadAsWritten` | |
| `WholePacketsMakeAChannel` | `ImplementsChannel` | `WholeOwn` |
| `WholePacketsStayIntact` | `Intact` | `WholeOwn` |

`RoundTrip` is for any list of types and any packet. `Bytes`, `Value`,
`LastFields` and `ReadFields` are recursive functions; `Recursion` and
`Induction`, from `WFMin` of the library, say that there are such functions and
what holds of all their values. `ReadBack` is the induction over the bytes of a
number, `FieldsReadBack` that over the fields of a packet: a field is read from
its own bytes whatever follows them, and leaves the rest (`FieldRead`).
`TornNeverShort` follows what a parser makes of a torn packet with the relation
`Lags`: up to some byte the span is what it should be, from there on it is zeros,
and it is at least as long. Numbers and vectors keep their length. The length of
a string can be torn too; it is then smaller than it was (`ValueGrows`), and all
that follows is zeros.

The four theorems after these follow from `StreamInv`: the stream is the frames
of the messages sent, one after the other (`Written`), and the buffer holds the
bytes taken since the packets delivered, which are fewer than the next packet has
(`Following`). `TakenOff` is the arithmetic of the handler: after a whole packet
what is left is less than a chunk, after a torn one the subtraction wraps and so
does the sum with the chunk (`Wraps`), which is why a torn packet is the last.
`PayloadInBuffer` says that what is parsed is the payload, or lags behind it with
its first byte in place; this gives `OwnPacketsRead`.

`WholeOwn` says that the network hands over whole packets, all of the
connection's own list. Then what arrived ends with a packet (`WholeInv`), no
packet is torn (`WholeIsThere`), and each step is `Send`, `Deliver` or `Close` of
the channel, or shows nothing (`StepOfChannel`). Without it the connection is not
a channel: the run `TcpTorn`.

The assumptions: `MessagesAssumption` takes what the peer sends for packets of
some list of types, not necessarily the connection's, of fewer types than a byte
has values (the lists have 7 and 6), and keeps the sizes below the wrap, as those
of packets that are in memory are. `ChunkAssumption` says that a chunk is not
longer than the shortest packet, the 2 bytes of the code against 16:
`NothingLeftBehind` is false otherwise, as one packet at most is taken off per
read. `TypesAssumption` and `WidthAssumption` are what the C++ types guarantee.

### The game server

| Theorem | States | Provided that |
| --- | --- | --- |
| `GameTypes` | `TypeOK` | |
| `EveryClientIsRead` | `NoDeafClient` | |
| `TokensMakeShips` | `OneShipPerToken` | |
| `NamesLeadToShips` | `NamesHaveShips` | |
| `PlayersHearOfEachOther` | `PlayersAnnouncedTogether` | |
| `MoversOwnTheirShips` | `MoverOwnsShip` | the tokens are of different players |
| `ServerImplementsGame` | `ImplementsGame` | the tokens are of different players |
| `PoliteGamesStayDefined` | `StaysDefined` | `PoliteGame` |
| `PolitePlayersHear` | `EveryoneHears` | `PoliteGame` |
| `PolitePlayersMayMove` | `PlayersMayMove` | `PoliteGame` |

That the tokens are of different players is what `GamesAreDisjoint` gives for the
games of polite clients. `PoliteGame` says that nobody leaves, that nobody moves
before it has heard of all the players, or under another name, and that each
connection has a token of its own: the run `GameIds` and section 3 show what happens otherwise.

`TypeInv` adds to the types that clients are read from (`ClientsAreReaders`),
that tokens, ships and IDs are counted together (`TokensBecomeShips`) and that the
outbox is empty between broadcasts (`OutboxIsSent`). `ShipsAreNamed` and
`NamesLead` say what the three maps of a Move have in common: an entry of a nickname
leads to a ship of that nickname, the entry of the empty name to the ship with the
ID 0, which is there as soon as any ship is. `NamesOfClients` takes from it what a
Move does: a client that may act on a name has that name and its ship, or the name
is empty and the ship the first one; `OnlyNobodyTerminates`, that `at()` throws for
the empty name only. `MoverOwnsShip` is
about an ID that was read by one thread and is used later by the other: the
invariant `PlacesAreKept` says that, as long as nobody has left, the IDs in the
queue are the places that their connections still have, and the name at a place
is that of a ship which this connection authenticated for. For the refinement,
`NoticesAreOfSeats` says that each notice on its way is of a ship, under its name or
no name: a step is `Admit`, `Introduce`, `Relate` or `Stray`, or none. `AnnouncedOrWaiting`
says that either all ships wait in `_players` and nothing was announced, or no
token is left to wait for; it is what `Game!Introduce` needs. In a polite game, `HeardInTurn` says who has heard
how much at each place of the loop over `_clients`, and `BegunWhenFull` that the
vector does not grow during that loop: who is still to come holds a token that
is expected, and nothing is broadcast before all tokens are used.

### Both servers

`EveryPlayerHasAPlace` proves `EveryPlaceIsKept` for `ServiceSpec` if `Unruly = {}`.
A step of the service is one of the master server or leaves its variables alone,
so that the invariants of the master server carry over; `GamesAreDisjoint` says
that the tokens of a game are as many as its players, and each admission takes
one of them.

### The quad tree

| Theorem | States |
| --- | --- |
| `TheTreeIsOfTheShips` | `TreeInv` |
| `TreeTypes` | `TypeOK` |
| `TheTreeForgetsItsHistory` | `Canonical` |
| `ShipsAreFound` | `FoundWhereItIs` |
| `NoNullChildIsFollowed` | `NeverCrashes` |

`TreeInv` says that the tree is *the* tree of the ships where they are now
(`IsTreeOf`): there is one such tree for each set of ships and places. Two lemmas
say that the operations go from one to another: `RemovedTree`, that `Remove`
leaves the tree of the other ships, at the places they had, and `InsertedTree`
that `Insert` gives the tree with the new one, on the field or outside. Between
the two, `SamePlaces`: the tree without a ship does not depend on where that ship
is. They rest on the geometry of squares (`NodesNest`: two squares that share a
place are within one another, since the sides divide each other), on counting
(`OneMoreHere`, `MoreAreCrowded`) and on extremes of finite sets, which come from
`WFMin` of the library (`LeastNumber`, `LargestNode`).
`FieldAssumption` says that the side of the field can be halved down to 1 as "every
divisor but 1 is even"; a power of two is outside of what the SMT backend reads.

### Only model-checked

* Liveness, in all modules: fairness and `ENABLED` are out of the prover's reach.
* `ClosesLikeTheLoop`: a fold of the community modules over the players of a match,
  put in order; what such a fold computes is a recursive definition of a library.

## 5. Plan

Done: the master server, the protocol and the reading side of the connection,
the game server, the quad tree, the composition of the two servers, an abstract
specification for each of the two servers and for the connection; proofs of all
safety properties of the two servers, of their composition, of the tree and of
the reading side of the connection, of the three refinements, and of the round
trip of a packet.

Next, in this order:

1. `ClosesLikeTheLoop` for any number of players, with the order of the loop given
   by a recursive function.
2. The writing side of the connection: what may be in the bytes of a buffer that
   has died, and partial writes.

## 6. Not modelled, and why

HTTP (`API::login`, requests) and the reading of configuration files and scripts:
pure I/O, of which only the outcome matters (it is in `HandleAuthenticate` of both
servers and in `Launch`). `CollisionSystem`: the calls of its scripts are
commented out, so that it computes pairs and changes nothing. `sweepEntities()`,
`QuadTree::clear()`, `sendPacket()`: nobody calls them. Lua bindings, `onCollide`
and `update` of the scripts: never called. `error/`: a table of messages, and no
handler looks at which error it got. The set-up of the master server's acceptor,
which precedes everything else. The writing side of the connection: what is in a
buffer after its lifetime is any bytes at all, and no property survives that; how
much `write_some()` takes depends on the kernel's buffers. Formatting and logs.
`src/vendor`: third-party.
