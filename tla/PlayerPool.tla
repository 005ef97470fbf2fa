----------------------------- MODULE PlayerPool -----------------------------
(***************************************************************************)
(* The master server: the acceptor of master/Server.hpp, the sessions of   *)
(* master/PlayerPool.hpp, the queues of master/MatchMaker.hpp and the port *)
(* counter of master/GameSpawner.hpp.                                      *)
(*                                                                         *)
(* One thread runs every handler to its end (asio::io_service::run), so    *)
(* an action is a whole handler.  What interleaves is the order in which   *)
(* the handlers run: pending[s] is the read of session s, and a read that  *)
(* has completed stays in the queue of the io_service, whatever other      *)
(* handlers do to the session in the meantime.                             *)
(***************************************************************************)
EXTENDS Sequences, MatchMaker

CONSTANTS
  Sessions,   \* every PlayerData ever allocated, numbered by address; none is
              \* freed (the connection's callback owns it), so none is reused
  Tokens,     \* the non-empty authentication tokens
  NoToken,    \* the empty token
  Nicks,      \* the nicknames the API knows
  NoNick,     \* the empty nickname of a session that never authenticated
  Account,    \* Account[t] is the nickname behind token t
  Absent,     \* "no entry" in the directory of identified players
  NullPtr,    \* the null shared_ptr that operator[] inserts
  Modes,      \* the modes, 0 .. NbModes - 1
  FirstPort,  \* the first port handed to a game server (31400)
  PortSpace,  \* ports are unsigned short: they wrap at this value
  MaxGames,   \* bound: no handler that would start one more game runs
  Unruly      \* what clients do beyond the polite protocol, see Permitted

Conduct == {"SharedAccount", "Reauthenticate", "SpeakWhileQueued",
            "ResetBeforeAccept"}

ASSUME SessionsAssumption == Sessions \subseteq Nat /\ IsFiniteSet(Sessions)
ASSUME ModesAssumption == Modes \subseteq Nat
ASSUME AccountAssumption == Account \in [Tokens -> Nicks]
ASSUME NullsAssumption ==
  /\ NoToken \notin Tokens
  /\ NoNick \notin Nicks
  /\ Absent \notin Sessions
  /\ NullPtr \notin Sessions
  /\ Absent # NullPtr
ASSUME PortAssumption == PortSpace \in Nat \ {0} /\ FirstPort \in 0..(PortSpace - 1)
ASSUME UnrulyAssumption == Unruly \subseteq Conduct

-----------------------------------------------------------------------------
(* State *)

Idle   == [type |-> "Idle"]     \* no read: the session's chain has ended
Armed  == [type |-> "Armed"]    \* an async_receive waits for the peer
Failed == [type |-> "Failed"]   \* the read completed with an error

Authenticate(t) == [type |-> "Authenticate", token |-> t]
QueueJoin(m)    == [type |-> "QueueJoin", mode |-> m]
QueueLeave      == [type |-> "QueueLeave"]
Unexpected      == [type |-> "Unexpected"]  \* any other packet, or none

Packets == {Authenticate(t) : t \in Tokens \cup {NoToken}}
             \cup {QueueJoin(m) : m \in Modes} \cup {QueueLeave, Unexpected}

Reads == {Idle, Armed, Failed} \cup Packets
Keys  == Nicks \cup {NoNick}

VARIABLES
  status,      \* "running", "stopped" by a signal, or "crashed"
  accepted,    \* the sessions created so far
  players,     \* _players: the sessions whose socket is open
  identified,  \* _identifiedPlayers: from nickname to session
  token,       \* info.authToken of each session
  nick,        \* info.nickName of each session
  queues,      \* the MatchMaker's queues
  nextPort,    \* GameSpawner::_port
  pending,     \* the read of each session
  games        \* the games spawned, with what their players were told

session == <<token, nick>>
vars == <<status, accepted, players, identified, token, nick, queues,
          nextPort, pending, games>>

(***************************************************************************)
(* A game as spawnGame() starts it and as _startMatch() announces it.  For *)
(* each player p of the roster, tokens[p] is its token on the command      *)
(* line, told[p] the session that the notice for p went to (Absent if its  *)
(* socket was closed), peers[p] the nicknames of the others in the notice. *)
(***************************************************************************)
Game ==
  [port   : 0..(PortSpace - 1),
   mode   : Modes,
   roster : SUBSET Sessions,
   tokens : [Sessions -> Tokens \cup {NoToken}],
   told   : [Sessions -> Sessions \cup {Absent}],
   peers  : [Sessions -> SUBSET Keys]]

TypeOK ==
  /\ status \in {"running", "stopped", "crashed"}
  /\ accepted \subseteq Sessions
  /\ players \subseteq accepted
  /\ identified \in [Keys -> Sessions \cup {Absent, NullPtr}]
  /\ token \in [Sessions -> Tokens \cup {NoToken}]
  /\ nick \in [Sessions -> Keys]
  /\ queues \in [Modes -> SUBSET Sessions]
  /\ nextPort \in 0..(PortSpace - 1)
  /\ pending \in [Sessions -> Reads]
  /\ games \in Seq(Game)

Init ==
  /\ status = "running"
  /\ accepted = {}
  /\ players = {}
  /\ identified = [k \in Keys |-> Absent]
  /\ token = [s \in Sessions |-> NoToken]
  /\ nick = [s \in Sessions |-> NoNick]
  /\ queues = NoQueues(Modes)
  /\ nextPort = FirstPort
  /\ pending = [s \in Sessions |-> Idle]
  /\ games = <<>>

Queued(s) == \E m \in Modes : s \in queues[m]

-----------------------------------------------------------------------------
(* The peers and the operating system *)

\* _addToMatchMaker() and addPlayer(): a session is born with a read armed.
Accept(s) ==
  /\ status = "running"
  /\ s \notin accepted
  /\ accepted' = accepted \cup {s}
  /\ players' = players \cup {s}
  /\ pending' = [pending EXCEPT ![s] = Armed]
  /\ UNCHANGED <<status, identified, session, queues, nextPort, games>>

(***************************************************************************)
(* A peer that resets its connection before the accept handler runs:       *)
(* remote_endpoint() throws, and run() is noexcept.                        *)
(***************************************************************************)
AcceptVanished ==
  /\ status = "running"
  /\ "ResetBeforeAccept" \in Unruly
  /\ status' = "crashed"
  /\ UNCHANGED <<accepted, players, identified, session, queues, nextPort,
                 pending, games>>

\* SIGINT or SIGTERM: io_service::stop(), no handler runs any more.
Stop ==
  /\ status = "running"
  /\ status' = "stopped"
  /\ UNCHANGED <<accepted, players, identified, session, queues, nextPort,
                 pending, games>>

\* No other live session has, or is asking for, the account of t.
Exclusive(s, t) ==
  \A r \in players \ {s} :
    /\ nick[r] # Account[t]
    /\ \A u \in Tokens : pending[r] = Authenticate(u) => Account[u] # Account[t]

(***************************************************************************)
(* What the clients send.  A polite client authenticates once, with an     *)
(* account nobody else uses at the time, and once queued it only leaves.   *)
(***************************************************************************)
Permitted(s, packet) ==
  /\ packet.type = "Authenticate" =>
       /\ "Reauthenticate" \in Unruly \/ token[s] = NoToken
       /\ \/ "SharedAccount" \in Unruly
          \/ packet.token \in Tokens => Exclusive(s, packet.token)
  /\ \/ "SpeakWhileQueued" \in Unruly
     \/ ~Queued(s)
     \/ packet.type \in {"QueueLeave", "Unexpected"}

Receive(s, packet) ==
  /\ status = "running"
  /\ pending[s] = Armed
  /\ Permitted(s, packet)
  /\ pending' = [pending EXCEPT ![s] = packet]
  /\ UNCHANGED <<status, accepted, players, identified, session, queues,
                 nextPort, games>>

PeerClose(s) ==
  /\ status = "running"
  /\ pending[s] = Armed
  /\ pending' = [pending EXCEPT ![s] = Failed]
  /\ UNCHANGED <<status, accepted, players, identified, session, queues,
                 nextPort, games>>

-----------------------------------------------------------------------------
(* The handlers *)

\* socket().close() aborts a read that waits, not one that has completed.
AfterClose(gone) ==
  [r \in Sessions |-> IF r \in gone /\ pending[r] = Armed THEN Failed
                                                          ELSE pending[r]]

\* The directory after the entry of nickname n is erased, if tok is not empty.
Erase(directory, n, tok) ==
  IF tok = NoToken THEN directory ELSE [directory EXCEPT ![n] = Absent]

(***************************************************************************)
(* _disconnectPlayer(s), called by the handler of s itself, whose info     *)
(* already holds token tok and nickname n; its read has been consumed.     *)
(* On a session that is already gone it does nothing.                      *)
(***************************************************************************)
Disconnect(s, tok, n) ==
  /\ players' = players \ {s}
  /\ identified' = IF s \in players THEN Erase(identified, n, tok) ELSE identified
  /\ queues' = IF s \in players THEN Remove(queues, s) ELSE queues
  /\ pending' = [pending EXCEPT ![s] = Idle]

\* Mutant: the handler forgets to read the next packet.
NotRearmed(s, live) == Idle

\* _readPacket(s): a read on a closed socket fails at once.
Rearmed(s, live) == IF s \in live THEN Armed ELSE Failed

\* Mutant: an error makes the session read again instead of disconnecting it.
HandleErrorByRetry(s) ==
  /\ status = "running"
  /\ pending[s] = Failed
  /\ pending' = [pending EXCEPT ![s] = Rearmed(s, players)]
  /\ UNCHANGED <<status, accepted, players, identified, session, queues,
                 nextPort, games>>

HandleError(s) ==
  /\ status = "running"
  /\ pending[s] = Failed
  /\ Disconnect(s, token[s], nick[s])
  /\ UNCHANGED <<status, accepted, session, nextPort, games>>

\* Mutant: the entry is made before getData() has written the nickname.
EmplacedTooEarly(directory, n, s) ==
  IF directory[nick[s]] = Absent THEN [directory EXCEPT ![nick[s]] = s]
                                 ELSE directory

\* emplace() keeps the entry that is there, even if it is stale or null.
Emplaced(directory, n, s) ==
  IF directory[n] = Absent THEN [directory EXCEPT ![n] = s] ELSE directory

\* API::getData() succeeds: info holds the token and the nickname behind it.
AuthenticateOk(s, t) ==
  /\ t \in Tokens
  /\ nick' = [nick EXCEPT ![s] = Account[t]]
  /\ identified' = Emplaced(identified, Account[t], s)
  /\ pending' = [pending EXCEPT ![s] = Rearmed(s, players)]
  /\ UNCHANGED <<players, queues>>

(***************************************************************************)
(* API::getData() fails, before it has written the nickname or, when the   *)
(* profile does not parse, after.                                          *)
(***************************************************************************)
AuthenticateFails(s, t) ==
  \E n \in {nick[s]} \cup {Account[u] : u \in {t} \cap Tokens} :
    /\ nick' = [nick EXCEPT ![s] = n]
    /\ Disconnect(s, t, n)

HandleAuthenticate(s) ==
  \E t \in Tokens \cup {NoToken} :
    /\ status = "running"
    /\ pending[s] = Authenticate(t)
    /\ token' = [token EXCEPT ![s] = t]
    /\ AuthenticateOk(s, t) \/ AuthenticateFails(s, t)
    /\ UNCHANGED <<status, accepted, nextPort, games>>

\* A player that has not authenticated may not queue.
RefuseQueueJoin(s) ==
  /\ status = "running"
  /\ pending[s].type = "QueueJoin"
  /\ token[s] = NoToken
  /\ Disconnect(s, token[s], nick[s])
  /\ UNCHANGED <<status, accepted, session, nextPort, games>>

Joined(s, m) == AddPlayer(queues, s, m)

\* A QueueJoin that does not complete a match.
WaitInQueue(s, m) ==
  /\ status = "running"
  /\ pending[s] = QueueJoin(m)
  /\ token[s] # NoToken
  /\ ~CanStartMatch(Joined(s, m), m)
  /\ queues' = Joined(s, m)
  /\ pending' = [pending EXCEPT ![s] = Rearmed(s, players)]
  /\ UNCHANGED <<status, accepted, players, identified, session, nextPort, games>>

HandleQueueLeave(s) ==
  /\ status = "running"
  /\ pending[s] = QueueLeave
  /\ queues' = Remove(queues, s)
  /\ players' = players \ {s}      \* success stays false: _disconnectPlayer()
  /\ identified' = IF s \in players THEN Erase(identified, nick[s], token[s])
                                    ELSE identified
  /\ pending' = [pending EXCEPT ![s] = Idle]
  /\ UNCHANGED <<status, accepted, session, nextPort, games>>

HandleUnexpected(s) ==
  /\ status = "running"
  /\ pending[s] = Unexpected
  /\ Disconnect(s, token[s], nick[s])
  /\ UNCHANGED <<status, accepted, session, nextPort, games>>

-----------------------------------------------------------------------------
(* _startMatch(): the players of the game are found again by nickname *)

Target(p) == identified[nick[p]]

\* Mutant: the notice lists the player itself as well.
PeersAndSelf(G, p) == {nick[Target(q)] : q \in G}

\* The nicknames of the others, in the notice for player p.
Peers(G, p) == {nick[Target(q)] : q \in G \ {p}}

\* Mutant: the port is the one after the increment.
IncrementedPort == (nextPort + 1) % PortSpace

\* getNextPort(): asked before spawnGame() uses and increments the counter.
GetNextPort == nextPort

Announcement(m, G) ==
  [port   |-> GetNextPort,
   mode   |-> m,
   roster |-> G,
   tokens |-> [p \in Sessions |-> IF p \in G THEN token[p] ELSE NoToken],
   told   |-> [p \in Sessions |-> IF p \in G /\ Target(p) \in players
                                  THEN Target(p) ELSE Absent],
   peers  |-> [p \in Sessions |-> IF p \in G THEN Peers(G, p) ELSE {}]]

\* Mutant: the counter never moves.
SamePort(port) == port

\* Mutant: the counter is wider than a port and does not wrap.
WidePort(port) == port + 1

\* spawnGame() increments the unsigned short whether or not the spawn works.
NextPort(port) == (port + 1) % PortSpace

\* Mutant: any two players of the same nickname spoil each other's lookup.
SpoilsBothWays(e, p) ==
  /\ e # p
  /\ \/ Target(e) = Target(p)
     \/ nick[Target(e)] = nick[p] /\ token[Target(e)] # NoToken

\* Disconnecting the target of e makes a later lookup of p fail or find it gone.
Spoils(e, p) ==
  /\ e < p
  /\ \/ Target(e) = Target(p)
     \/ nick[Target(e)] = nick[p] /\ token[Target(e)] # NoToken

\* Mutant: the loop stops after the first player.
FirstCloser(G, C) == C = {p \in G : \A q \in G : p <= q}

(***************************************************************************)
(* The last loop of _startMatch() disconnects the target of each player of *)
(* the game, in address order, looking it up again.  C is the set of the   *)
(* players whose lookup disconnects a session: its target was there, and   *)
(* no earlier player of C had spoiled it.  The condition determines C.     *)
(***************************************************************************)
Closers(G, C) ==
  \A p \in G :
    p \in C <=> /\ Target(p) \in players
                /\ \A e \in C : ~Spoils(e, p)

\* The directory after the loop; a lookup of an erased name inserts a null.
AfterClosing(G, C) ==
  LET erasers(n) == {e \in C : /\ nick[Target(e)] = n
                               /\ token[Target(e)] # NoToken}
  IN  [n \in Keys |->
         IF erasers(n) = {} THEN identified[n]
         ELSE IF \E p \in G : nick[p] = n /\ \A e \in erasers(n) : e < p
              THEN NullPtr
              ELSE Absent]

StartMatch(s, m) ==
  LET full == Joined(s, m)
      G    == Extracted(full, m)
  IN  /\ status = "running"
      /\ pending[s] = QueueJoin(m)
      /\ token[s] # NoToken
      /\ CanStartMatch(full, m)
      /\ Len(games) < MaxGames
      /\ \A p \in G : Target(p) \in Sessions
      /\ games' = Append(games, Announcement(m, G))
      /\ nextPort' = NextPort(nextPort)
      /\ \E C \in SUBSET G :
           LET gone == {Target(p) : p \in C}
           IN  /\ Closers(G, C)
               /\ identified' = AfterClosing(G, C)
               /\ players' = players \ gone
               /\ queues' = [k \in Modes |-> AfterExtract(full, m)[k] \ gone]
               /\ pending' = [AfterClose(gone) EXCEPT ![s] = Rearmed(s, players \ gone)]
      /\ UNCHANGED <<status, accepted, session>>

\* A lookup that finds no session dereferences a null pointer.
StartMatchCrashes(s, m) ==
  LET full == Joined(s, m)
  IN  /\ status = "running"
      /\ pending[s] = QueueJoin(m)
      /\ token[s] # NoToken
      /\ CanStartMatch(full, m)
      /\ \E p \in Extracted(full, m) : Target(p) \notin Sessions
      /\ status' = "crashed"
      /\ UNCHANGED <<accepted, players, identified, session, queues, nextPort,
                     pending, games>>

HandleQueueJoin(s) ==
  \/ RefuseQueueJoin(s)
  \/ \E m \in Modes : WaitInQueue(s, m) \/ StartMatch(s, m) \/ StartMatchCrashes(s, m)

\* _handlePlayerPacket() for session s.
HandlePlayerPacket(s) ==
  \/ HandleError(s)
  \/ HandleAuthenticate(s)
  \/ HandleQueueJoin(s)
  \/ HandleQueueLeave(s)
  \/ HandleUnexpected(s)

Next ==
  \/ AcceptVanished
  \/ Stop
  \/ \E s \in Sessions :
       \/ Accept(s)
       \/ \E packet \in Packets : Receive(s, packet)
       \/ PeerClose(s)
       \/ HandlePlayerPacket(s)

\* The io_service runs its completed handlers in turn; peers owe nothing.
Fairness == \A s \in Sessions : WF_vars(HandlePlayerPacket(s))

Spec == Init /\ [][Next]_vars /\ Fairness
-----------------------------------------------------------------------------
(* Properties that hold whatever the clients send *)

(***************************************************************************)
(* canStartMatch() compares with ==: a queue that ever held its match size *)
(* or more after a handler would never start a match again.                *)
(***************************************************************************)
QueuesBelowMatchSize ==
  \A m \in Modes : Cardinality(queues[m]) < MatchSize(m)

(***************************************************************************)
(* No connected session is left without a read: the chain of reads of a    *)
(* session ends only when it is disconnected, though matches disconnect    *)
(* sessions other than the one whose handler runs.                         *)
(***************************************************************************)
NoDeafSession == \A s \in players : pending[s] # Idle

(***************************************************************************)
(* Every player of a game has a token on the command line of the game      *)
(* server, though a token can be cleared by a later Authenticate.          *)
(***************************************************************************)
GamesAreAuthenticated ==
  \A i \in DOMAIN games :
    LET g == games[i]
    IN  /\ Cardinality(g.roster) = MatchSize(g.mode)
        /\ \A p \in g.roster : g.tokens[p] # NoToken

\* Games whose spawns are less than a turn of the port counter apart differ.
PortsDistinct ==
  \A i, j \in DOMAIN games :
    i < j /\ j - i < PortSpace => games[i].port # games[j].port

(***************************************************************************)
(* If no session changes account, a session is told of one game only, even *)
(* when clients share an account and speak while queued.                   *)
(***************************************************************************)
ToldOfOneGame ==
  \A i, j \in DOMAIN games :
    i # j => \A p \in games[i].roster, q \in games[j].roster :
               games[i].told[p] = games[j].told[q] => games[i].told[p] = Absent

-----------------------------------------------------------------------------
(* Properties that hold when the clients are polite *)

(***************************************************************************)
(* Why the polite properties hold: the directory and the authenticated     *)
(* sessions are inverse to each other, and neither a packet that was read  *)
(* nor a place in a queue outlives what it depends on.                     *)
(***************************************************************************)
DirectoryIsSound ==
  \A k \in Keys : identified[k] # Absent =>
    /\ identified[k] \in players
    /\ nick[identified[k]] = k
    /\ token[identified[k]] # NoToken

DirectoryIsComplete ==
  \A s \in players : token[s] # NoToken => nick[s] \in Nicks /\ identified[nick[s]] = s

QueuedAreAuthenticated ==
  \A m \in Modes : \A s \in queues[m] : s \in players /\ token[s] # NoToken

BlankUntilAuthenticated ==
  /\ \A s \in players : token[s] = NoToken => nick[s] = NoNick
  /\ \A s \in Sessions \ accepted :
       token[s] = NoToken /\ nick[s] = NoNick /\ pending[s] = Idle

ReadsAreTimely ==
  \A s \in Sessions :
    /\ pending[s] = Armed => s \in players
    /\ pending[s].type = "Authenticate" => s \in players /\ token[s] = NoToken
    /\ pending[s].type = "QueueJoin" => s \in players /\ ~Queued(s)

AccountsAreExclusive ==
  \A s \in players : \A t \in Tokens : pending[s] = Authenticate(t) => Exclusive(s, t)

PoliteInv ==
  /\ status # "crashed"
  /\ DirectoryIsSound
  /\ DirectoryIsComplete
  /\ QueuedAreAuthenticated
  /\ BlankUntilAuthenticated
  /\ ReadsAreTimely
  /\ AccountsAreExclusive

\* No lookup by nickname ever finds a null session.
NeverCrashes == status # "crashed"

(***************************************************************************)
(* Whoever waits in a queue is connected and is the session its nickname   *)
(* leads to, so that _startMatch() writes to it and disconnects it.        *)
(***************************************************************************)
QueuedAreReachable ==
  \A m \in Modes : \A s \in queues[m] : s \in players /\ Target(s) = s

\* Every player of a game was told of it, with the names of all the others.
EveryoneTold ==
  \A i \in DOMAIN games :
    LET g == games[i]
    IN  \A p \in g.roster :
          /\ g.told[p] = p
          /\ g.peers[p] = {Account[g.tokens[q]] : q \in g.roster \ {p}}

(***************************************************************************)
(* The tokens of a game are distinct (the game server keeps them in a set  *)
(* and waits for as many players as the mode needs); a session plays one   *)
(* game at most, and is no longer connected once it does.                  *)
(***************************************************************************)
GamesAreDisjoint ==
  /\ \A i \in DOMAIN games : \A p, q \in games[i].roster :
       games[i].tokens[p] = games[i].tokens[q] => p = q
  /\ \A i, j \in DOMAIN games :
       i # j => games[i].roster \cap games[j].roster = {}
  /\ \A i \in DOMAIN games : games[i].roster \cap players = {}

\* The master server implements the lobby.
Promise == INSTANCE Lobby WITH
  Clients <- Sessions,
  up      <- status = "running",
  members <- players,
  former  <- accepted \ players,
  waiting <- queues,
  matches <- [i \in DOMAIN games |-> [port  |-> games[i].port,
                                      mode  |-> games[i].mode,
                                      group |-> {games[i].told[p] : p \in games[i].roster}]]

ImplementsLobby == Promise!Spec

(***************************************************************************)
(* A mode for which enough authenticated players wait or ask gets a match, *)
(* or loses some of them: no order of handlers leaves a full house unseen. *)
(***************************************************************************)
Asking(m) == {s \in players : token[s] # NoToken /\ pending[s] = QueueJoin(m)}

FullHouse(m) == Cardinality(queues[m] \cup Asking(m)) >= MatchSize(m)

FullHouseServed ==
  \A m \in Modes : FullHouse(m) ~> (~FullHouse(m) \/ status # "running")

\* A session whose peer has gone is forgotten: not in _players, not queued.
DepartedForgotten ==
  \A s \in Sessions :
    pending[s] = Failed ~> (s \notin players /\ ~Queued(s)) \/ status # "running"
=============================================================================
