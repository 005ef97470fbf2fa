------------------------------- MODULE Service -------------------------------
(***************************************************************************)
(* The whole service: the master server, the game server processes that it *)
(* starts, and the players on their way from one to the other.             *)
(*                                                                         *)
(* The i-th process is the one of the i-th game.  Of a process only what   *)
(* its players depend on is kept: whether it came up (game-main.cpp, the   *)
(* loading of assets in start(), the acceptor of ServerIOThread::run()),   *)
(* the tokens it awaits and the players it has admitted.  What it does     *)
(* with them is the subject of GameServer, which admits as Game says.      *)
(***************************************************************************)
EXTENDS PlayerPool

VARIABLE procs  \* the processes, in the order of their games

all == <<vars, procs>>

\* The port of the command line is the counter before it is incremented.
Spawned(g) ==
  [state    |-> "spawned",
   port     |-> nextPort,
   awaited  |-> {g.tokens[p] : p \in g.roster},
   admitted |-> {}]

\* A handler of the master server; one that starts a match spawns its process.
MasterStep ==
  /\ Next
  /\ procs' = IF games' = games THEN procs
              ELSE Append(procs, Spawned(games'[Len(games')]))

-----------------------------------------------------------------------------
(* A process *)

Becomes(i, state) ==
  /\ procs' = [procs EXCEPT ![i].state = state]
  /\ UNCHANGED vars

\* main() wants a mode below 4, and a token for each player of the mode.
ArgumentsAccepted(i) ==
  games[i].mode < 4 /\ Cardinality(games[i].roster) = games[i].mode + 1

\* A process listens on another port than 0, and than those that are taken.
Bindable(port) ==
  port # 0 /\ \A k \in DOMAIN procs : procs[k].state = "listening" => procs[k].port # port

(***************************************************************************)
(* What becomes of a process: it is gone if it could not be spawned, if it *)
(* refuses its arguments or if a file of its assets does not load; it runs *)
(* on without a word, deaf, if the acceptor cannot listen on the port (and *)
(* for port 0, on which the system picks a port that nobody is told).      *)
(***************************************************************************)
Launch(i) ==
  /\ i \in DOMAIN procs
  /\ procs[i].state = "spawned"
  /\ \/ Becomes(i, "gone")
     \/ ArgumentsAccepted(i) /\ Becomes(i, "deaf")
     \/ ArgumentsAccepted(i) /\ Bindable(procs[i].port) /\ Becomes(i, "listening")

\* A signal, or an exception that nobody catches: how a game server that runs ends.
Kill(i) ==
  /\ i \in DOMAIN procs
  /\ procs[i].state \in {"listening", "deaf"}
  /\ Becomes(i, "gone")

-----------------------------------------------------------------------------
(* The players *)

Players(i) == {games[i].told[p] : p \in games[i].roster} \ {Absent}

\* The process k has admitted s, and has not been killed since.
Plays(s, k) == procs[k].state = "listening" /\ s \in procs[k].admitted

\* Mutant: the token is not looked up.
AnyToken(k, t) == TRUE

\* _authToks.count(): a token that is not expected gets no answer.
Expected(k, t) == t \in procs[k].awaited

(***************************************************************************)
(* The player of session s, who was told of game i, connects to the port   *)
(* of the notice, and whatever process k listens there takes its token.    *)
(***************************************************************************)
Connect(s, i) ==
  /\ i \in DOMAIN procs
  /\ s \in Players(i)
  /\ \A k \in DOMAIN procs : ~Plays(s, k)
  /\ \E k \in DOMAIN procs :
       /\ procs[k].state = "listening"
       /\ procs[k].port = games[i].port
       /\ Expected(k, token[s])
       /\ procs' = [procs EXCEPT ![k].awaited = @ \ {token[s]}, ![k].admitted = @ \cup {s}]
  /\ UNCHANGED vars

ServiceInit == Init /\ procs = <<>>

ServiceNext ==
  \/ MasterStep
  \/ \E i \in 1..MaxGames :
       \/ Launch(i)
       \/ Kill(i)
       \/ \E s \in Sessions : Connect(s, i)

\* The system runs the processes; players try again until they are admitted.
ServiceFairness ==
  \A i \in 1..MaxGames :
    /\ WF_all(Launch(i))
    /\ \A s \in Sessions : WF_all(Connect(s, i))

ServiceSpec == ServiceInit /\ [][ServiceNext]_all /\ ServiceFairness

-----------------------------------------------------------------------------
(* Properties, for polite clients *)

\* No other game was ever announced on the port of game i.
Alone(i) == \A j \in DOMAIN games \ {i} : games[j].port # games[i].port

(***************************************************************************)
(* A process is where its players were told, and keeps a place for each:   *)
(* the tokens it awaits and those of the players it admitted are together  *)
(* the tokens of its game, as many as the mode needs, though players come  *)
(* back to the master server for another game and ports are handed out     *)
(* again.  As long as its port was not, it admits its own players only.    *)
(***************************************************************************)
EveryPlaceIsKept ==
  /\ Len(procs) = Len(games)
  /\ \A i \in DOMAIN procs :
       LET g == games[i]
           q == procs[i]
       IN  /\ q.port = g.port
           /\ q.awaited \cup {token[s] : s \in q.admitted} = {g.tokens[p] : p \in g.roster}
           /\ Cardinality(q.awaited) + Cardinality(q.admitted) = MatchSize(g.mode)
           /\ Alone(i) => q.admitted \subseteq Players(i)

(***************************************************************************)
(* A game whose process listens is complete in the end, unless the process *)
(* is killed: every player was told the right port and has a token that is *)
(* awaited there, even if the master server has stopped meanwhile, and     *)
(* whoever else was told of the same port for an earlier or later game.    *)
(***************************************************************************)
Waiting(i) == i \in DOMAIN procs /\ procs[i].state = "listening" /\ procs[i].awaited # {}

ListeningGamesPlay == \A i \in 1..MaxGames : Waiting(i) ~> ~Waiting(i)
=============================================================================
