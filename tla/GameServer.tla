----------------------------- MODULE GameServer -----------------------------
(***************************************************************************)
(* A game server process: the I/O thread of gameserver/ServerIOThread.hpp, *)
(* which accepts connections and reads their packets, and the game thread  *)
(* of gameserver/Server.hpp, which handles the packets and broadcasts to   *)
(* the connections.                                                        *)
(*                                                                         *)
(* The threads share a queue, guarded by a mutex, and the vector _clients, *)
(* guarded by nothing.  A handler of the I/O thread is an action; so is    *)
(* the handling of a packet by the game thread, but a broadcast, which     *)
(* walks over _clients, takes one action for each connection.              *)
(***************************************************************************)
EXTENDS Integers, FiniteSets, SequencesExt

CONSTANTS
  Conns,        \* the connections that may be made
  Tokens,       \* _authToks at the start: the tokens of the command line
  TokenOf,      \* TokenOf[c] is the token that the peer of c presents
  NickOf,       \* NickOf[t] is the nickname behind token t
  Nicks,
  NoName,       \* the empty nickname that operator[] inserts
  Absent,       \* "no entry"
  Mode,         \* the mode: a game has Mode + 1 players
  MaxReceived,  \* bound: how many packets the peers send in all
  Unruly        \* what peers and network do beyond the polite game

Conduct == {"Leave", "MoveAtWill", "AcceptError"}

ASSUME ModeAssumption == Mode \in Nat /\ MaxReceived \in Nat
ASSUME ConnsAssumption == IsFiniteSet(Conns)
ASSUME TokensAssumption ==
  /\ IsFiniteSet(Tokens) /\ Cardinality(Tokens) <= Mode + 1
  /\ \A t \in Tokens \cup {TokenOf[c] : c \in Conns} : NickOf[t] \in Nicks
ASSUME NullsAssumption ==
  NoName \notin Nicks /\ Absent \notin Nicks \cup {NoName} /\ Absent \notin Nat
ASSUME UnrulyAssumption == Unruly \subseteq Conduct

-----------------------------------------------------------------------------
(* State *)

Idle   == [type |-> "Idle"]
Armed  == [type |-> "Armed"]
Failed == [type |-> "Failed"]

Authenticate(t) == [type |-> "Authenticate", token |-> t]
Move(n)         == [type |-> "Move", ettName |-> n]

\* The names that a Move may have, the one of nobody among them.
Names == Nicks \cup {NoName}

Packets == {Authenticate(TokenOf[c]) : c \in Conns} \cup {Move(n) : n \in Names}

CreatePlayer(n) == [type |-> "CreatePlayer", nickName |-> n]
SetPosition(n)  == [type |-> "SetPosition", ettName |-> n]
Notices == {CreatePlayer(n) : n \in Nicks} \cup {SetPosition(n) : n \in Names}

Ids == 0..(Cardinality(Conns) - 1)

VARIABLES
  (* the I/O thread *)
  accepting,  \* an async_accept is pending
  known,      \* the connections accepted so far
  clients,    \* _clients; the ID of a client is its index, from 0
  capacity,   \* _clients.capacity()
  pending,    \* the read of each connection
  received,   \* how many packets the peers have sent
  stopped,    \* the io_service was stopped by a signal
  (* shared *)
  queue,      \* the packets on their way, with the connection they came from
  (* the game thread *)
  authToks,   \* _authToks
  names,      \* _clientIDToNickname
  ships,      \* _nameToEntityID: the entity ID of the ship of each nickname
  created,    \* the entities of _ettMgr, all ships: [id, from, token, nick, y]
  batch,      \* _players: the CreatePlayer notices not yet broadcast
  moves,      \* who moved what: the connection, the name in the Move, the entity ID
  pc,         \* where the game thread is, see below
  outbox,     \* the notices to broadcast
  cursor,     \* the loop over _clients: 0 if it has not begun
  limit,      \* the end() that the loop took when it began
  published,  \* the notices broadcast so far
  heard,      \* the notices written to each connection
  undefined   \* a thread has used memory that is not an element of _clients

io == <<accepting, known, clients, capacity, pending, received, stopped>>
players == <<authToks, names, ships, created, batch, moves>>
broadcast == <<outbox, cursor, limit, published, heard>>
vars == <<io, queue, players, pc, broadcast, undefined>>

(***************************************************************************)
(* The game thread pops packets ("drain"), broadcasts ("send") or is done  *)
(* with the packets of a frame ("rest"), before the loop of start() looks  *)
(* whether it goes on.  It ends ("done"), or std::terminate() ends the     *)
(* process ("dead").                                                       *)
(***************************************************************************)
Phases == {"drain", "send", "rest", "done", "dead"}

Entries == [id : Ids, from : Conns, packet : Packets]
Places  == {200 * n : n \in 0..Cardinality(Tokens)}
EntityIds == 0..Cardinality(Tokens)
Entities  == [id : EntityIds, from : Conns, token : Tokens, nick : Nicks, y : Places]

TypeOK ==
  /\ accepting \in BOOLEAN /\ stopped \in BOOLEAN /\ undefined \in BOOLEAN
  /\ known \subseteq Conns
  /\ clients \in Seq(known) /\ capacity \in Nat /\ Len(clients) <= capacity
  /\ pending \in [Conns -> Packets \cup {Idle, Armed, Failed}]
  /\ received \in 0..MaxReceived
  /\ queue \in Seq(Entries)
  /\ authToks \subseteq Tokens
  /\ names \in [Ids -> Names \cup {Absent}]
  /\ ships \in [Names -> EntityIds \cup {Absent}]
  /\ created \subseteq Entities
  /\ batch \in Seq(Notices) /\ outbox \in Seq(Notices) /\ published \in Seq(Notices)
  /\ moves \subseteq [from : Conns, ettName : Names, ship : EntityIds]
  /\ pc \in Phases
  /\ cursor \in 0..(Cardinality(Conns) + 1) /\ limit \in 0..Cardinality(Conns)
  /\ heard \in [Conns -> Seq(Notices)]

Init ==
  /\ accepting = TRUE
  /\ known = {}
  /\ clients = <<>>
  /\ capacity = 0
  /\ pending = [c \in Conns |-> Idle]
  /\ received = 0
  /\ stopped = FALSE
  /\ queue = <<>>
  /\ authToks = Tokens
  /\ names = [i \in Ids |-> Absent]
  /\ ships = [n \in Names |-> Absent]
  /\ created = {}
  /\ batch = <<>>
  /\ moves = {}
  /\ pc = "rest"
  /\ outbox = <<>>
  /\ cursor = 0
  /\ limit = 0
  /\ published = <<>>
  /\ heard = [c \in Conns |-> <<>>]
  /\ undefined = FALSE

-----------------------------------------------------------------------------
(* The I/O thread and the peers *)

IoRuns == ~stopped /\ ~undefined /\ pc # "dead"

\* The game thread is inside the loop of broadcastPacket().
Iterating == pc = "send" /\ cursor > 0

\* Mutant: the element is written without room being made for it.
NotGrown == capacity

\* push_back() doubles the room when there is none left.
Grown == IF Len(clients) < capacity THEN capacity
         ELSE IF capacity = 0 THEN 1 ELSE 2 * capacity

(***************************************************************************)
(* _onAccept(): a connection whose Welcome could be written becomes the    *)
(* last client.  If _clients moves to get room, a loop over it is left     *)
(* with dangling iterators.                                                *)
(***************************************************************************)
Accept(c) ==
  /\ IoRuns /\ accepting
  /\ c \notin known
  /\ known' = known \cup {c}
  /\ clients' = Append(clients, c)
  /\ capacity' = Grown
  /\ pending' = [pending EXCEPT ![c] = Armed]
  /\ undefined' = (Iterating /\ Grown # capacity)
  /\ UNCHANGED <<accepting, received, stopped, queue, players, pc, broadcast>>

\* An accept that fails is not followed by another one.
AcceptError ==
  /\ IoRuns /\ accepting
  /\ "AcceptError" \in Unruly
  /\ accepting' = FALSE
  /\ UNCHANGED <<known, clients, capacity, pending, received, stopped, queue,
                 players, pc, broadcast, undefined>>

Nick(c) == NickOf[TokenOf[c]]

\* A polite peer moves its own ship, once it has heard of all the players.
Permitted(c, packet) ==
  \/ packet = Authenticate(TokenOf[c])
  \/ packet.type = "Move" /\ "MoveAtWill" \in Unruly
  \/ packet = Move(Nick(c)) /\ Len(heard[c]) > Mode

Receive(c, packet) ==
  /\ IoRuns
  /\ pending[c] = Armed
  /\ received < MaxReceived
  /\ Permitted(c, packet)
  /\ pending' = [pending EXCEPT ![c] = packet]
  /\ received' = received + 1
  /\ UNCHANGED <<accepting, known, clients, capacity, stopped, queue, players,
                 pc, broadcast, undefined>>

PeerClose(c) ==
  /\ IoRuns
  /\ "Leave" \in Unruly
  /\ pending[c] = Armed
  /\ pending' = [pending EXCEPT ![c] = Failed]
  /\ UNCHANGED <<accepting, known, clients, capacity, received, stopped, queue,
                 players, pc, broadcast, undefined>>

\* The position of a connection in _clients, as std::find() gives it.
IdOf(c) == (CHOOSE i \in DOMAIN clients : clients[i] = c) - 1

\* Mutant: the connection is not read again after a packet.
IoPacketOnce(c) ==
  /\ IoRuns
  /\ pending[c] \in Packets
  /\ queue' = Append(queue, [id |-> IdOf(c), from |-> c, packet |-> pending[c]])
  /\ pending' = [pending EXCEPT ![c] = Idle]
  /\ UNCHANGED <<accepting, known, clients, capacity, received, stopped,
                 players, pc, broadcast, undefined>>

\* _handlePacket(): the packet goes to the game thread under the client's ID.
IoPacket(c) ==
  /\ IoRuns
  /\ pending[c] \in Packets
  /\ queue' = Append(queue, [id |-> IdOf(c), from |-> c, packet |-> pending[c]])
  /\ pending' = [pending EXCEPT ![c] = Armed]
  /\ UNCHANGED <<accepting, known, clients, capacity, received, stopped,
                 players, pc, broadcast, undefined>>

\* _handlePacket() with an error: every client behind gets another ID.
IoError(c) ==
  /\ IoRuns
  /\ pending[c] = Failed
  /\ clients' = RemoveAt(clients, IdOf(c) + 1)
  /\ pending' = [pending EXCEPT ![c] = Idle]
  /\ UNCHANGED <<accepting, known, capacity, received, stopped, queue, players,
                 pc, broadcast, undefined>>

\* SIGINT or SIGTERM.
Stop ==
  /\ IoRuns
  /\ stopped' = TRUE
  /\ UNCHANGED <<accepting, known, clients, capacity, pending, received, queue,
                 players, pc, broadcast, undefined>>

-----------------------------------------------------------------------------
(* The game thread *)

\* Mutant: the entry is made only where there is one already.
NotEmplaced(map, key, value) ==
  IF map[key] # Absent THEN [map EXCEPT ![key] = value] ELSE map

\* What unordered_map::emplace() does: an entry that is there stays.
Emplaced(map, key, value) ==
  IF map[key] = Absent THEN [map EXCEPT ![key] = value] ELSE map

\* A ship starts at a height that depends on the tokens not yet used.
StartPlace == 200 * Cardinality(authToks)

\* Mutant: the counter of entities is not moved on.
SameID == 0

\* __nextID(): entities are numbered from 0, and none is ever removed.
NextID == Cardinality(created)

\* Mutant: the notices go out with the first player.
BatchFirst(all) == Len(all) = 1

\* Mutant: one player too many.
BatchTooBig(all) == Len(all) = Mode + 2

\* _players.size() == mode + 1: the last of the players has authenticated.
BatchComplete(all) == Len(all) = Mode + 1

\* Mutant: the token stays valid.
TokenKept(t) == authToks

TokensWithout(t) == authToks \ {t}

AuthenticateOk(entry) ==
  LET t   == entry.packet.token
      n   == NickOf[t]
      all == Append(batch, CreatePlayer(n))
  IN  /\ t \in authToks
      /\ names' = Emplaced(names, entry.id, n)
      /\ ships' = Emplaced(ships, n, NextID)
      /\ created' = created \cup {[id |-> NextID, from |-> entry.from, token |-> t,
                                  nick |-> n, y |-> StartPlace]}
      /\ authToks' = TokensWithout(t)
      /\ batch' = IF BatchComplete(all) THEN <<>> ELSE all
      /\ outbox' = IF BatchComplete(all) THEN all ELSE <<>>
      /\ UNCHANGED moves

\* Mutant: the nickname is entered before the error is looked at.
AuthenticateFailsLate(entry) ==
  /\ entry.packet.token \in authToks
  /\ names' = Emplaced(names, entry.id, NickOf[entry.packet.token])
  /\ UNCHANGED <<authToks, ships, created, batch, moves, outbox>>

\* API::getData() fails: nothing changes, the token stays valid.
AuthenticateFails(entry) ==
  /\ entry.packet.token \in authToks
  /\ UNCHANGED <<players, outbox>>

\* A token that is not expected: the branch of the code is empty.
AuthenticateRefused(entry) ==
  /\ entry.packet.token \notin authToks
  /\ UNCHANGED <<players, outbox>>

HandleAuthenticate(entry) ==
  /\ entry.packet.type = "Authenticate"
  /\ AuthenticateOk(entry) \/ AuthenticateFails(entry) \/ AuthenticateRefused(entry)

\* Mutant: the sender's right is not looked at.
AnyoneCanAct(id, n) == ships[n] # Absent

\* A client that is not known yet has the empty name from here on.
CanActOnEntity(id, n) == Emplaced(names, id, NoName)[id] = n

\* operator[] makes up the ID 0 for a name without a ship.
EntityOf(n) == Emplaced(ships, n, 0)[n]

HasEntity(id) == \E s \in created : s.id = id

(***************************************************************************)
(* Both lookups use operator[], that of canActOnEntity() and that of the   *)
(* ship: a client that is not known may act on the empty name, and moves   *)
(* the ship that was created first.                                        *)
(***************************************************************************)
HandleMove(entry) ==
  LET n == entry.packet.ettName
  IN  /\ entry.packet.type = "Move"
      /\ names' = Emplaced(names, entry.id, NoName)
      /\ \/ /\ CanActOnEntity(entry.id, n)
            /\ HasEntity(EntityOf(n))
            /\ ships' = Emplaced(ships, n, 0)
            /\ moves' = moves \cup {[from |-> entry.from, ettName |-> n, ship |-> EntityOf(n)]}
            /\ outbox' = <<SetPosition(n)>>
         \/ /\ ~CanActOnEntity(entry.id, n)
            /\ UNCHANGED <<ships, moves, outbox>>
      /\ UNCHANGED <<authToks, created, batch>>

\* at() does not find the entity, and throws out of an operator[] that is noexcept.
Terminate ==
  LET entry == Head(queue)
      n     == entry.packet.ettName
  IN  /\ pc = "drain"
      /\ queue # <<>>
      /\ entry.packet.type = "Move"
      /\ CanActOnEntity(entry.id, n)
      /\ ~HasEntity(EntityOf(n))
      /\ pc' = "dead"
      /\ UNCHANGED <<io, queue, players, broadcast, undefined>>

HandlePacket ==
  /\ pc = "drain"
  /\ queue # <<>>
  /\ HandleAuthenticate(Head(queue)) \/ HandleMove(Head(queue))
  /\ queue' = Tail(queue)
  /\ pc' = IF outbox' = <<>> THEN "drain" ELSE "send"
  /\ UNCHANGED <<io, cursor, limit, published, heard, undefined>>

\* broadcastPacket() takes begin() and end() of _clients.
BroadcastBegins ==
  /\ pc = "send"
  /\ cursor = 0
  /\ cursor' = 1
  /\ limit' = Len(clients)
  /\ UNCHANGED <<io, queue, players, pc, outbox, published, heard, undefined>>

\* The element at the cursor may be gone by now: the vector has shrunk.
BroadcastWrites ==
  /\ Iterating
  /\ cursor <= limit
  /\ cursor' = cursor + 1
  /\ IF cursor \in DOMAIN clients
     THEN /\ heard' = [heard EXCEPT ![clients[cursor]] = Append(@, Head(outbox))]
          /\ UNCHANGED undefined
     ELSE /\ undefined' = TRUE
          /\ UNCHANGED heard
  /\ UNCHANGED <<io, queue, players, pc, outbox, limit, published>>

BroadcastEnds ==
  /\ Iterating
  /\ cursor > limit
  /\ cursor' = 0
  /\ limit' = 0
  /\ published' = Append(published, Head(outbox))
  /\ outbox' = Tail(outbox)
  /\ pc' = IF Tail(outbox) = <<>> THEN "drain" ELSE "send"
  /\ UNCHANGED <<io, queue, players, heard, undefined>>

\* A step of the loop of start() in which nothing but the phase changes.
Goes(from, to) ==
  /\ pc = from
  /\ pc' = to
  /\ UNCHANGED <<io, queue, players, broadcast, undefined>>

\* pop() finds nothing: the frame is over, but for the rest of its time.
FrameEnds == queue = <<>> /\ Goes("drain", "rest")

FrameBegins == ~stopped /\ Goes("rest", "drain")

\* Mutant: the signal is looked at only once the game is complete.
FinishWhenComplete == stopped /\ authToks = {} /\ Goes("rest", "done")

\* The io_service is stopped: what was received since the last pop() is dropped.
Finish == stopped /\ Goes("rest", "done")

IoStep(c) == IoPacket(c) \/ IoError(c)

GameStep ==
  /\ ~undefined
  /\ \/ HandlePacket \/ Terminate
     \/ BroadcastBegins \/ BroadcastWrites \/ BroadcastEnds
     \/ FrameEnds \/ FrameBegins \/ Finish

Next ==
  \/ Stop
  \/ AcceptError
  \/ \E c \in Conns :
       \/ Accept(c)
       \/ \E packet \in Packets : Receive(c, packet)
       \/ PeerClose(c)
       \/ IoStep(c)
  \/ GameStep

\* Both threads run; the peers, the network and the signals owe nothing.
Fairness == WF_vars(GameStep) /\ \A c \in Conns : WF_vars(IoStep(c))

Spec == Init /\ [][Next]_vars /\ Fairness

-----------------------------------------------------------------------------
(* Properties whatever the peers do *)

(***************************************************************************)
(* A token makes one ship, and nothing else does: _handleAuth() takes the  *)
(* token back whatever else is going on.  No two ships share an entity ID, *)
(* or start at the same place, where they would collide.                   *)
(***************************************************************************)
OneShipPerToken ==
  /\ {s.token : s \in created} = Tokens \ authToks
  /\ \A s, t \in created : s # t => s.token # t.token /\ s.id # t.id /\ s.y # t.y

(***************************************************************************)
(* The players hear of each other once, when the last of them has          *)
(* authenticated: every ship created has one notice, on its way or         *)
(* published, and none leaves before the game is complete.                 *)
(***************************************************************************)
Announcements(notices) == {i \in DOMAIN notices : notices[i].type = "CreatePlayer"}

PlayersAnnouncedTogether ==
  /\ Cardinality(Announcements(published)) + Cardinality(Announcements(outbox))
       + Cardinality(Announcements(batch)) = Cardinality(created)
  /\ Announcements(published) \cup Announcements(outbox) # {} =>
       authToks = {} /\ batch = <<>>

(***************************************************************************)
(* The three maps of a Move agree.  The nickname that a client may act on  *)
(* leads to the ship made for it, and the empty name, which a client that  *)
(* is not known may act on, leads to a ship as well: at() ends the process *)
(* only for the empty name, and only while there is no ship at all.        *)
(***************************************************************************)
NamesHaveShips ==
  /\ \A i \in Ids : names[i] \in Nicks =>
       \E s \in created : s.id = ships[names[i]] /\ s.nick = names[i]
  /\ ships[NoName] # Absent => HasEntity(ships[NoName])
  /\ pc = "dead" => created = {}

(***************************************************************************)
(* Exactly the connections of _clients are read from: each is read again   *)
(* after a packet, and the read that completes is of a connection that     *)
(* std::find() finds, never of one that was erased before.                 *)
(***************************************************************************)
NoDeafClient == \A c \in Conns : pending[c] # Idle <=> c \in ToSet(clients)

\* A stopped server ends, without waiting for anybody, wherever its game thread is.
StopsInTheEnd == stopped ~> (pc \in {"done", "dead"} \/ undefined)

(***************************************************************************)
(* As long as nobody has left, whoever moves an entity by its name         *)
(* authenticated with the token that made it: packets reach the game       *)
(* thread under the right ID of their client, and names lead to the right  *)
(* entity.  The empty name is nobody's: who uses it moves the first ship.  *)
(***************************************************************************)
MoverOwnsShip ==
  Len(clients) = Cardinality(known) =>
    \A m \in moves :
      IF m.ettName = NoName THEN m.ship = 0
      ELSE \E s \in created : s.from = m.from /\ s.id = m.ship /\ s.nick = m.ettName

\* Whatever the threads and the peers do, a game server is a Game.
Promise == INSTANCE Game WITH
  awaited <- authToks,
  seats   <- {[from |-> s.from, token |-> s.token, nick |-> s.nick] : s \in created},
  told    <- published

ImplementsGame == Promise!Spec

-----------------------------------------------------------------------------
(* Properties that hold when the peers are polite *)

\* No connection comes or goes while a broadcast walks over _clients.
StaysDefined == ~undefined

\* Between two broadcasts every client has heard the same, in the same order.
EveryoneHears ==
  pc # "send" => \A i \in DOMAIN clients : heard[clients[i]] = published

\* Every player that has a ship, and is connected, may move it.
PlayersMayMove ==
  \A s \in created : s.from \in ToSet(clients) => CanActOnEntity(IdOf(s.from), s.nick)

\* Once all the tokens are used, every player hears of all the players.
ReadyIsHeard ==
  (authToks = {}) ~> \A c \in Conns : Len(heard[c]) > Mode

=============================================================================
