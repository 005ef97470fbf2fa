---------------------------- MODULE ServiceProofs ----------------------------
(***************************************************************************)
(* Theorems about Service, for any number of players, games and processes. *)
(***************************************************************************)
EXTENDS Service, PlayerPoolGamesProofs

-----------------------------------------------------------------------------
(* The master server, as a part of the service *)

\* What the theorems about polite clients say of the master server.
MasterInv ==
  /\ TypeOK /\ PoliteInv /\ NicksAreAccounts
  /\ QueuedHoldTokens /\ GamesAreAuthenticated
  /\ EveryoneTold /\ PlayedHaveLeft /\ GamesAreDisjoint

\* The master server of the service starts as one by itself.
LEMMA InitIsMaster == Init => MasterInv
<1> SUFFICES ASSUME Init PROVE MasterInv
  OBVIOUS
<1>1. games = <<>> /\ players = {} /\ queues = NoQueues(Modes)
  BY DEF Init
<1>2. /\ NicksAreAccounts /\ QueuedHoldTokens /\ GamesAreAuthenticated
      /\ EveryoneTold /\ PlayedHaveLeft /\ GamesAreDisjoint
  BY <1>1 DEF NicksAreAccounts, QueuedHoldTokens, Queued, NoQueues, GamesAreAuthenticated,
              EveryoneTold, PlayedHaveLeft, GamesAreDisjoint
<1> QED
  BY <1>2, InitTypes, InitIsPolite DEF MasterInv

\* A step of the service is one of the master server, or none.
LEMMA StepIsMaster ==
  ASSUME Unruly = {}, MasterInv, [Next]_vars PROVE MasterInv'
<1> USE DEF MasterInv
<1>1. TypeOK' /\ PoliteInv' /\ NicksAreAccounts'
  BY StepTypes, StepIsPolite, StepKeepsNicks
<1>2. QueuedHoldTokens' /\ GamesAreAuthenticated'
  BY StepKeepsTokens, StepKeepsGamesAuthenticated
<1>3. EveryoneTold' /\ PlayedHaveLeft' /\ GamesAreDisjoint'
  BY StepKeepsTelling, StepKeepsGamesDisjoint
<1> QED
  BY <1>1, <1>2, <1>3

\* Whoever is not connected keeps the token.
LEMMA TheGoneKeepTheirTokens ==
  ASSUME MasterInv, [Next]_vars, NEW r \in Sessions \ players
  PROVE  token'[r] = token[r]
<1>1. CASE UNCHANGED token
  BY <1>1
<1>2. ASSUME NEW s \in Sessions, HandleAuthenticate(s) PROVE token'[r] = token[r]
  <2>1. PICK t \in Tokens \cup {NoToken} :
          pending[s] = Authenticate(t) /\ token' = [token EXCEPT ![s] = t]
    BY <1>2 DEF HandleAuthenticate
  <2>2. pending[s].type = "Authenticate"
    BY <2>1, ReadKinds
  <2>3. s # r
    BY <2>2 DEF MasterInv, PoliteInv, ReadsAreTimely
  <2> QED
    BY <2>1, <2>3 DEF MasterInv, TypeOK
<1> QED
  BY <1>1, <1>2
     DEF Next, HandlePlayerPacket, HandleQueueJoin, AcceptVanished, Stop, Accept, Receive,
         PeerClose, HandleError, RefuseQueueJoin, WaitInQueue, StartMatch, HandleQueueLeave,
         HandleUnexpected, StartMatchCrashes, vars, session

\* As many tokens as players, if no two players have the same.
LEMMA DistinctTokens ==
  ASSUME NEW G, IsFiniteSet(G), NEW f, \A p, q \in G : f[p] = f[q] => p = q
  PROVE  /\ IsFiniteSet({f[p] : p \in G})
         /\ Cardinality({f[p] : p \in G}) = Cardinality(G)
<1> DEFINE T == {f[p] : p \in G}
           h == [p \in G |-> f[p]]
<1>1. h \in Bijection(G, T)
  BY DEF Bijection, Injection, Surjection, IsInjective
<1>2. ExistsBijection(G, T)
  BY <1>1 DEF ExistsBijection
<1> HIDE DEF T, h
<1>3. IsFiniteSet(T) /\ Cardinality(T) = Cardinality(G)
  BY <1>2, FS_Bijection
<1> QED
  BY <1>3 DEF T

-----------------------------------------------------------------------------
(* The processes *)

Process ==
  [state    : {"spawned", "listening", "deaf", "gone"},
   port     : 0..(PortSpace - 1),
   awaited  : SUBSET (Tokens \cup {NoToken}),
   admitted : SUBSET Sessions]

(***************************************************************************)
(* The invariant behind the places: whoever was admitted by a process was  *)
(* told of a game, has left the master server, and will not get another    *)
(* token there.                                                            *)
(***************************************************************************)
AdmittedHaveLeft ==
  /\ procs \in Seq(Process)
  /\ \A i \in DOMAIN procs : procs[i].admitted \subseteq accepted \ players

\* The places of process q for game g, while the sessions hold tokens held; the
\* players of g alone come if its port is its own.
Kept(q, g, own, held) ==
  /\ q.port = g.port
  /\ q.awaited \cup {held[s] : s \in q.admitted} = {g.tokens[p] : p \in g.roster}
  /\ Cardinality(q.awaited) + Cardinality(q.admitted) = MatchSize(g.mode)
  /\ own => q.admitted \subseteq {g.told[p] : p \in g.roster} \ {Absent}

ServiceInv == MasterInv /\ AdmittedHaveLeft /\ EveryPlaceIsKept

\* The indices of processes are those of games.
LEMMA ProcessOfEachGame ==
  ASSUME ServiceInv
  PROVE  /\ Len(games) \in Nat /\ Len(procs) = Len(games)
         /\ DOMAIN procs = 1..Len(games) /\ DOMAIN games = 1..Len(games)
         /\ \A i \in DOMAIN procs : procs[i] \in Process
<1>1. procs \in Seq(Process) /\ games \in Seq(Game) /\ Len(procs) = Len(games)
  BY DEF ServiceInv, MasterInv, TypeOK, AdmittedHaveLeft, EveryPlaceIsKept
<1>2. Len(games) \in Nat /\ DOMAIN procs = 1..Len(procs) /\ DOMAIN games = 1..Len(games)
  BY <1>1, LenProperties
<1>3. \A i \in DOMAIN procs : procs[i] \in Process
  BY <1>1, <1>2, ElementOfSeq
<1> QED
  BY <1>1, <1>2, <1>3

\* A step that starts no game leaves every process its places.
LEMMA NoGameStarted ==
  ASSUME Unruly = {}, ServiceInv, [Next]_vars, UNCHANGED <<games, procs>>
  PROVE  AdmittedHaveLeft' /\ EveryPlaceIsKept'
<1>1. accepted \ players \subseteq accepted' \ players'
  BY TheGoneStayGone DEF ServiceInv, MasterInv
<1>2. AdmittedHaveLeft'
  BY <1>1 DEF ServiceInv, AdmittedHaveLeft
<1>3. ASSUME NEW i \in DOMAIN procs
      PROVE  {token'[s] : s \in procs[i].admitted} = {token[s] : s \in procs[i].admitted}
  <2>1. procs[i] \in Process
    BY ProcessOfEachGame
  <2>2. \A s \in procs[i].admitted : s \in Sessions \ players
    BY <2>1 DEF ServiceInv, AdmittedHaveLeft, Process
  <2>3. \A s \in procs[i].admitted : token'[s] = token[s]
    BY <2>2, TheGoneKeepTheirTokens DEF ServiceInv
  <2> QED
    BY <2>3
<1>4. \A i \in DOMAIN procs : Kept(procs[i], games[i], Alone(i), token)
  BY DEF ServiceInv, EveryPlaceIsKept, Kept, Players
<1>5. ASSUME NEW i \in DOMAIN procs PROVE Kept(procs'[i], games'[i], Alone(i)', token')
  <2>1. Kept(procs[i], games[i], Alone(i), token) /\ procs'[i] = procs[i] /\ games'[i] = games[i]
    BY <1>4
  <2>2. Alone(i)' = Alone(i)
    BY DEF Alone
  <2> QED
    BY <1>3, <2>1, <2>2 DEF Kept
<1>6. EveryPlaceIsKept'
  BY <1>5 DEF ServiceInv, EveryPlaceIsKept, Kept, Players
<1> QED
  BY <1>2, <1>6

\* A match gets a process that awaits its players, and leaves the others alone.
LEMMA GameStarted ==
  ASSUME Unruly = {}, ServiceInv, NEW s \in Sessions, NEW m \in Modes, StartMatch(s, m),
         [Next]_vars, procs' = Append(procs, Spawned(games'[Len(games')]))
  PROVE  AdmittedHaveLeft' /\ EveryPlaceIsKept'
<1> DEFINE G == queues[m] \cup {s}
           g == Announcement(m, G)
           n == Len(games)
           q == Spawned(g)
<1>1. /\ n \in Nat /\ Len(procs) = n /\ DOMAIN procs = 1..n /\ DOMAIN games = 1..n
      /\ procs \in Seq(Process)
  BY ProcessOfEachGame DEF ServiceInv, AdmittedHaveLeft
<1>2. /\ Len(games') = n + 1 /\ DOMAIN games' = 1..(n + 1)
      /\ \A i \in 1..n : games'[i] = games[i]
      /\ games'[n + 1] = g
  BY <1>1, MatchAppends DEF ServiceInv, MasterInv
<1>3. procs' = Append(procs, q)
  BY <1>2
<1>4. /\ Len(procs') = n + 1 /\ DOMAIN procs' = 1..(n + 1)
      /\ \A i \in 1..n : procs'[i] = procs[i]
      /\ procs'[n + 1] = q
  BY <1>1, <1>3, Appended
<1>5. /\ G \subseteq Sessions /\ Cardinality(G) = MatchSize(m) /\ IsFiniteSet(G)
  BY MatchGames, SessionsAssumption, FS_Subset DEF ServiceInv, MasterInv
<1>6. /\ g.roster = G /\ g.port = nextPort /\ g.mode = m
      /\ \A p, r \in G : g.tokens[p] = g.tokens[r] => p = r
      /\ \A p \in G : g.tokens[p] \in Tokens \cup {NoToken}
  <2>1. /\ g.roster = G /\ \A p, r \in G : g.tokens[p] = g.tokens[r] => p = r
    BY PoliteAnnouncement DEF ServiceInv, MasterInv
  <2>2. g.port = nextPort /\ g.mode = m /\ \A p \in G : g.tokens[p] = token[p]
    BY <1>5 DEF Announcement, GetNextPort
  <2>3. \A p \in G : token[p] \in Tokens \cup {NoToken}
    BY <1>5 DEF ServiceInv, MasterInv, TypeOK
  <2> QED
    BY <2>1, <2>2, <2>3
<1> HIDE DEF G, g, n
<1>7. /\ q.port = nextPort /\ q.awaited = {g.tokens[p] : p \in G} /\ q.admitted = {}
      /\ q \in Process
  <2>1. nextPort \in 0..(PortSpace - 1)
    BY DEF ServiceInv, MasterInv, TypeOK
  <2> QED
    BY <1>6, <2>1 DEF Spawned, Process
<1>8. Cardinality(q.awaited) = MatchSize(m)
  <2> HIDE DEF q
  <2> DEFINE f == g.tokens
  <2>1. \A p, r \in G : f[p] = f[r] => p = r
    BY <1>6
  <2> HIDE DEF f
  <2>2. Cardinality({f[p] : p \in G}) = Cardinality(G)
    BY <1>5, <2>1, DistinctTokens
  <2> QED
    BY <1>5, <1>7, <2>2 DEF f
<1> HIDE DEF q
<1>9. \A i \in 1..(n + 1) : i \in 1..n \/ i = n + 1
  BY <1>1
<1>10. AdmittedHaveLeft'
  <2>1. accepted \ players \subseteq accepted' \ players'
    BY TheGoneStayGone DEF ServiceInv, MasterInv
  <2>2. procs' \in Seq(Process)
    BY <1>1, <1>3, <1>7, AppendProperties
  <2> QED
    BY <1>1, <1>4, <1>7, <1>9, <2>1, <2>2 DEF ServiceInv, AdmittedHaveLeft
<1>11. ASSUME NEW i \in 1..n PROVE Kept(procs'[i], games'[i], Alone(i)', token')
  <2>1. /\ procs'[i] = procs[i] /\ games'[i] = games[i] /\ i \in DOMAIN procs
        /\ Kept(procs[i], games[i], Alone(i), token)
    BY <1>1, <1>2, <1>4 DEF ServiceInv, EveryPlaceIsKept, Kept, Players
  <2>2. Alone(i)' => Alone(i)
    <3>1. \A j \in DOMAIN games : j \in DOMAIN games' /\ games'[j] = games[j]
      BY <1>1, <1>2
    <3> QED
      BY <1>1, <2>1, <3>1 DEF Alone
  <2>3. \A r \in procs[i].admitted : token'[r] = token[r]
    <3>1. procs[i] \in Process
      BY <2>1, ProcessOfEachGame
    <3>2. \A r \in procs[i].admitted : r \in Sessions \ players
      BY <2>1, <3>1 DEF ServiceInv, AdmittedHaveLeft, Process
    <3> QED
      BY <3>2, TheGoneKeepTheirTokens DEF ServiceInv
  <2>4. {token'[r] : r \in procs[i].admitted} = {token[r] : r \in procs[i].admitted}
    BY <2>3
  <2> QED
    BY <2>1, <2>2, <2>4 DEF Kept
<1>12. ASSUME NEW i, i = n + 1 PROVE Kept(procs'[i], games'[i], Alone(i)', token')
  <2>1. procs'[i] = q /\ games'[i] = g
    BY <1>2, <1>4, <1>12
  <2>2. Cardinality({}) = 0 /\ MatchSize(m) \in Nat
    BY <1>5, FS_EmptySet, FS_CardinalityType
  <2>3. {token'[r] : r \in {}} = {}
    OBVIOUS
  <2>4. q.awaited \cup {token'[r] : r \in q.admitted} = {g.tokens[p] : p \in g.roster}
    BY <1>6, <1>7, <2>3
  <2>5. Cardinality(q.awaited) + Cardinality(q.admitted) = MatchSize(g.mode)
    BY <1>6, <1>7, <1>8, <2>2
  <2>6. q.port = g.port /\ \A T : q.admitted \subseteq T
    BY <1>6, <1>7
  <2>7. \A own : Kept(q, g, own, token')
    BY <2>4, <2>5, <2>6 DEF Kept
  <2> QED
    BY <2>1, <2>7
<1>13. Len(procs') = Len(games')
  BY <1>2, <1>4
<1>14. \A i \in DOMAIN procs' : Kept(procs'[i], games'[i], Alone(i)', token')
  BY <1>4, <1>9, <1>11, <1>12
<1>15. EveryPlaceIsKept'
  BY <1>13, <1>14 DEF EveryPlaceIsKept, Kept, Players
<1> QED
  BY <1>10, <1>15

\* What a process becomes does not concern its places.
LEMMA BecomingKeepsPlaces ==
  ASSUME ServiceInv, NEW k \in DOMAIN procs, NEW state \in {"gone", "deaf", "listening"},
         Becomes(k, state)
  PROVE  AdmittedHaveLeft' /\ EveryPlaceIsKept'
<1>1. /\ procs' = [procs EXCEPT ![k].state = state] /\ UNCHANGED vars
  BY DEF Becomes
<1>2. /\ procs \in Seq(Process) /\ Len(procs) \in Nat
      /\ DOMAIN procs = 1..Len(procs) /\ \A i \in DOMAIN procs : procs[i] \in Process
  BY ProcessOfEachGame DEF ServiceInv, AdmittedHaveLeft
<1>3. procs' = [procs EXCEPT ![k] = [procs[k] EXCEPT !.state = state]]
  BY <1>1, <1>2
<1>4. /\ procs' \in Seq(Process) /\ Len(procs') = Len(procs) /\ DOMAIN procs' = DOMAIN procs
      /\ \A i \in DOMAIN procs : /\ procs'[i].port = procs[i].port
                                 /\ procs'[i].awaited = procs[i].awaited
                                 /\ procs'[i].admitted = procs[i].admitted
  <2> DEFINE e == [procs[k] EXCEPT !.state = state]
  <2>1. /\ e \in Process /\ e.port = procs[k].port
        /\ e.awaited = procs[k].awaited /\ e.admitted = procs[k].admitted
    BY <1>2 DEF Process
  <2> HIDE DEF e
  <2>2. /\ [procs EXCEPT ![k] = e] \in Seq(Process)
        /\ Len([procs EXCEPT ![k] = e]) = Len(procs)
    BY <1>2, <2>1, ExceptSeq
  <2>3. /\ DOMAIN [procs EXCEPT ![k] = e] = DOMAIN procs
        /\ \A i \in DOMAIN procs : [procs EXCEPT ![k] = e][i] = IF i = k THEN e ELSE procs[i]
    OBVIOUS
  <2>4. procs' = [procs EXCEPT ![k] = e]
    BY <1>3 DEF e
  <2> QED
    BY <2>1, <2>2, <2>3, <2>4
<1>5. AdmittedHaveLeft'
  BY <1>1, <1>4 DEF ServiceInv, AdmittedHaveLeft, vars
<1>6. /\ UNCHANGED <<games, token>> /\ \A i : Alone(i)' = Alone(i) /\ Players(i)' = Players(i)
  BY <1>1 DEF vars, session, Alone, Players
<1>7. ASSUME NEW i \in DOMAIN procs PROVE Kept(procs'[i], games[i], Alone(i), token)
  <2>1. Kept(procs[i], games[i], Alone(i), token)
    BY DEF ServiceInv, EveryPlaceIsKept, Kept, Players
  <2>2. /\ procs'[i].port = procs[i].port /\ procs'[i].awaited = procs[i].awaited
        /\ procs'[i].admitted = procs[i].admitted
    BY <1>4
  <2> QED
    BY <2>1, <2>2 DEF Kept
<1>8. EveryPlaceIsKept'
  BY <1>4, <1>6, <1>7 DEF ServiceInv, EveryPlaceIsKept, Kept, Players
<1> QED
  BY <1>5, <1>8

\* A token that is awaited gives its player a place, for good.
LEMMA ConnectingKeepsPlaces ==
  ASSUME ServiceInv, NEW s \in Sessions, NEW i, Connect(s, i)
  PROVE  AdmittedHaveLeft' /\ EveryPlaceIsKept'
<1>1. /\ procs \in Seq(Process) /\ Len(procs) \in Nat /\ DOMAIN games = DOMAIN procs
      /\ DOMAIN procs = 1..Len(procs) /\ \A j \in DOMAIN procs : procs[j] \in Process
  BY ProcessOfEachGame DEF ServiceInv, AdmittedHaveLeft
<1>2. PICK k \in DOMAIN procs :
        /\ procs[k].state = "listening" /\ procs[k].port = games[i].port
        /\ token[s] \in procs[k].awaited
        /\ procs' = [procs EXCEPT ![k].awaited = @ \ {token[s]}, ![k].admitted = @ \cup {s}]
  BY DEF Connect, Expected
<1>3. i \in DOMAIN procs /\ s \in Players(i) /\ ~Plays(s, k) /\ UNCHANGED vars
  BY DEF Connect
<1>4. s \notin procs[k].admitted
  BY <1>2, <1>3 DEF Plays
<1>5. s \in accepted \ players
  <2>1. i \in DOMAIN games
    BY <1>1, <1>3
  <2>2. PICK p \in games[i].roster : s = games[i].told[p]
    BY <1>3 DEF Players
  <2>3. s \in games[i].roster
    BY <2>1, <2>2 DEF ServiceInv, MasterInv, EveryoneTold
  <2> QED
    BY <2>1, <2>3 DEF ServiceInv, MasterInv, PlayedHaveLeft
<1> DEFINE q == [procs[k] EXCEPT !.awaited = @ \ {token[s]}, !.admitted = @ \cup {s}]
<1>6. /\ q \in Process /\ q.port = procs[k].port
      /\ q.awaited = procs[k].awaited \ {token[s]} /\ q.admitted = procs[k].admitted \cup {s}
  BY <1>1 DEF Process
<1>7. procs' = [procs EXCEPT ![k] = q]
  BY <1>1, <1>2
<1> HIDE DEF q
<1>8. /\ procs' \in Seq(Process) /\ Len(procs') = Len(procs) /\ DOMAIN procs' = DOMAIN procs
      /\ \A j \in DOMAIN procs : procs'[j] = IF j = k THEN q ELSE procs[j]
  BY <1>1, <1>6, <1>7, ExceptSeq
<1>9. AdmittedHaveLeft'
  BY <1>3, <1>5, <1>6, <1>8 DEF ServiceInv, AdmittedHaveLeft, vars
<1>10. \A j \in DOMAIN procs : Kept(procs[j], games[j], Alone(j), token)
  BY DEF ServiceInv, EveryPlaceIsKept, Kept, Players
<1>11. Kept(q, games[k], Alone(k), token)
  <2> DEFINE A == procs[k].awaited
             B == procs[k].admitted
             t == token[s]
  <2>1. /\ procs[k].port = games[k].port
        /\ A \cup {token[r] : r \in B} = {games[k].tokens[p] : p \in games[k].roster}
        /\ Cardinality(A) + Cardinality(B) = MatchSize(games[k].mode)
        /\ Alone(k) => B \subseteq Players(k)
    BY <1>10 DEF Kept, Players
  <2>2. IsFiniteSet(A) /\ IsFiniteSet(B)
    <3>1. games[k] \in Game
      BY <1>1, ElementOfSeq, LenProperties DEF ServiceInv, MasterInv, TypeOK
    <3>2. games[k].roster \subseteq Sessions /\ B \subseteq Sessions
      <4>1. procs[k] \in Process
        BY <1>1
      <4> QED
        BY <3>1, <4>1 DEF Game, Process
    <3>3. IsFiniteSet(games[k].roster) /\ IsFiniteSet(B)
      BY <3>2, SessionsAssumption, FS_Subset
    <3> DEFINE f == games[k].tokens
    <3>4. \A p, r \in games[k].roster : f[p] = f[r] => p = r
      BY <1>1 DEF ServiceInv, MasterInv, GamesAreDisjoint
    <3> HIDE DEF f
    <3>5. IsFiniteSet({f[p] : p \in games[k].roster})
      BY <3>3, <3>4, DistinctTokens
    <3>6. A \subseteq {f[p] : p \in games[k].roster}
      BY <2>1 DEF f
    <3> QED
      BY <3>3, <3>5, <3>6, FS_Subset
  <2>3. t \in A /\ s \notin B
    BY <1>2, <1>4
  <2> HIDE DEF A, B, t
  <2>4. /\ Cardinality(A \ {t}) = Cardinality(A) - 1
        /\ Cardinality(B \cup {s}) = Cardinality(B) + 1
        /\ Cardinality(A) \in Nat /\ Cardinality(B) \in Nat
    BY <2>2, <2>3, FS_RemoveElement, FS_AddElement, FS_CardinalityType
  <2>5. Cardinality(A \ {t}) + Cardinality(B \cup {s}) = MatchSize(games[k].mode)
    BY <2>1, <2>4
  <2>6. (A \ {t}) \cup {token[r] : r \in B \cup {s}} = A \cup {token[r] : r \in B}
    BY <2>3 DEF t
  <2>7. ASSUME Alone(k) PROVE B \cup {s} \subseteq Players(k)
    <3>1. i = k
      BY <1>1, <1>2, <1>3, <2>1, <2>7 DEF Alone
    <3> QED
      BY <1>3, <2>1, <2>7, <3>1
  <2>8. q.awaited = A \ {t} /\ q.admitted = B \cup {s} /\ q.port = games[k].port
    BY <1>6, <2>1 DEF A, B, t
  <2> QED
    BY <2>1, <2>5, <2>6, <2>7, <2>8 DEF Kept, Players
<1>12. /\ UNCHANGED <<games, token>> /\ \A j : Alone(j)' = Alone(j) /\ Players(j)' = Players(j)
  BY <1>3 DEF vars, session, Alone, Players
<1>13. \A j \in DOMAIN procs : Kept(procs'[j], games[j], Alone(j), token)
  BY <1>8, <1>10, <1>11
<1>14. EveryPlaceIsKept'
  BY <1>8, <1>12, <1>13 DEF ServiceInv, EveryPlaceIsKept, Kept, Players
<1> QED
  BY <1>9, <1>14

\* Every step of the service keeps the places of its players.
LEMMA StepIsService ==
  ASSUME Unruly = {}, ServiceInv, [ServiceNext]_all PROVE ServiceInv'
<1>1. [Next]_vars
  BY DEF ServiceNext, MasterStep, Launch, Kill, Connect, Becomes, all
<1>2. MasterInv'
  BY <1>1, StepIsMaster DEF ServiceInv
<1>3. CASE UNCHANGED <<games, procs>>
  BY <1>1, <1>2, <1>3, NoGameStarted DEF ServiceInv
<1>4. CASE MasterStep
  <2>1. CASE games' = games
    BY <1>3, <1>4, <2>1 DEF MasterStep
  <2>2. CASE games' # games
    <3>1. procs' = Append(procs, Spawned(games'[Len(games')]))
      BY <1>4, <2>2 DEF MasterStep
    <3>2. PICK s \in Sessions, m \in Modes : StartMatch(s, m)
      BY <1>1, <2>2, OnlyMatchesStartGames
    <3> QED
      BY <1>1, <1>2, <3>1, <3>2, GameStarted DEF ServiceInv
  <2> QED
    BY <2>1, <2>2
<1>5. ASSUME NEW i, Launch(i) \/ Kill(i) PROVE ServiceInv'
  <2>1. i \in DOMAIN procs /\ \E state \in {"gone", "deaf", "listening"} : Becomes(i, state)
    BY <1>5 DEF Launch, Kill
  <2> QED
    BY <1>2, <2>1, BecomingKeepsPlaces DEF ServiceInv
<1>6. ASSUME NEW i, NEW s \in Sessions, Connect(s, i) PROVE ServiceInv'
  BY <1>2, <1>6, ConnectingKeepsPlaces DEF ServiceInv
<1>7. CASE UNCHANGED all
  BY <1>3, <1>7 DEF all, vars
<1> QED
  BY <1>4, <1>5, <1>6, <1>7 DEF ServiceNext

(***************************************************************************)
(* With polite clients, and whatever becomes of the processes, each game   *)
(* server that was spawned has a place for every player of its game: its   *)
(* port is the one they were told, and it awaits or has admitted as many   *)
(* as its mode needs. It admits only them if its port was no other game's. *)
(***************************************************************************)
THEOREM EveryPlayerHasAPlace ==
  ASSUME Unruly = {} PROVE ServiceSpec => []EveryPlaceIsKept
<1>1. ServiceInit => ServiceInv
  <2> SUFFICES ASSUME ServiceInit PROVE ServiceInv
    OBVIOUS
  <2>1. procs = <<>> /\ games = <<>>
    BY DEF ServiceInit, Init
  <2>2. AdmittedHaveLeft /\ EveryPlaceIsKept
    BY <2>1 DEF AdmittedHaveLeft, EveryPlaceIsKept
  <2> QED
    BY <2>2, InitIsMaster DEF ServiceInit, ServiceInv
<1>2. ServiceInv /\ [ServiceNext]_all => ServiceInv'
  BY StepIsService
<1>3. ServiceInv => EveryPlaceIsKept
  BY DEF ServiceInv
<1> QED
  BY <1>1, <1>2, <1>3, PTL DEF ServiceSpec
=============================================================================
