----------------------- MODULE PlayerPoolGamesProofs -----------------------
(***************************************************************************)
(* Theorems about the games that the master server starts: their ports,    *)
(* their tokens, who is told of them, and that nobody is in two; and that  *)
(* the server implements the lobby.                                        *)
(***************************************************************************)
EXTENDS PlayerPoolProofs, SequenceTheorems

-----------------------------------------------------------------------------
(* Remainders, for the port counter *)

\* Every integer is a multiple of P and its remainder.
LEMMA Division ==
  ASSUME NEW P \in Int, P > 0, NEW x \in Int
  PROVE  \E q \in Int : \E r \in 0..(P - 1) : x = P * q + r /\ x % P = r
<1>1. x = P * (x \div P) + (x % P)
  BY SMTT(30)
<1>2. x \div P \in Int
  OBVIOUS
<1>3. x % P \in 0..(P - 1)
  OBVIOUS
<1> QED
  BY <1>1, <1>2, <1>3

\* A multiple of P and a number below P determine the remainder.
LEMMA Remainder ==
  ASSUME NEW P \in Nat \ {0}, NEW q \in Int, NEW r \in 0..(P - 1)
  PROVE  (P * q + r) % P = r
OBVIOUS

\* The only multiple of P between -P and P is 0.
LEMMA SmallMultiple ==
  ASSUME NEW P \in Nat \ {0}, NEW d \in Int, P * d < P, -P < P * d
  PROVE  d = 0
OBVIOUS

\* A counter that wraps at each increment has wrapped as a whole.
LEMMA WrapOnce ==
  ASSUME NEW P \in Nat \ {0}, NEW x \in Int
  PROVE  ((x % P) + 1) % P = (x + 1) % P
<1>1. PICK q \in Int, r \in 0..(P - 1) : x = P * q + r /\ x % P = r
  BY Division
<1>2. CASE r + 1 < P
  <2>1. r + 1 \in 0..(P - 1) /\ (P * q + (r + 1)) % P = r + 1
    BY <1>2, Remainder
  <2>2. (P * 0 + (r + 1)) % P = r + 1
    BY <1>2, Remainder
  <2> QED
    BY <1>1, <2>1, <2>2
<1>3. CASE r + 1 = P
  <2>1. q + 1 \in Int /\ 0 \in 0..(P - 1)
    OBVIOUS
  <2>2. (P * (q + 1) + 0) % P = 0 /\ (P * 1 + 0) % P = 0
    BY <2>1, Remainder
  <2>3. x + 1 = P * (q + 1) + 0 /\ (x % P) + 1 = P * 1 + 0
    BY <1>1, <1>3
  <2> QED
    BY <2>2, <2>3
<1> QED
  BY <1>2, <1>3

\* Numbers less than P apart have different remainders.
LEMMA NearbyRemaindersDiffer ==
  ASSUME NEW P \in Nat \ {0}, NEW x \in Int, NEW y \in Int, x < y, y - x < P
  PROVE  x % P # y % P
<1>1. P \in Int /\ P > 0
  OBVIOUS
<1>2. PICK q \in Int, r \in 0..(P - 1) : x = P * q + r /\ x % P = r
  BY <1>1, Division
<1>3. PICK k \in Int, l \in 0..(P - 1) : y = P * k + l /\ y % P = l
  BY <1>1, Division
<1> SUFFICES ASSUME x % P = y % P PROVE FALSE
  OBVIOUS
<1> DEFINE d == k - q
<1>4. y - x = P * d /\ P * d < P /\ -P < P * d /\ d \in Int
  BY <1>2, <1>3
<1> HIDE DEF d
<1>5. d = 0
  BY <1>4, SmallMultiple
<1>6. y - x = P * 0
  BY <1>4, <1>5
<1> QED
  BY <1>6

-----------------------------------------------------------------------------
(* The games only grow, one match at a time *)

\* Appending adds one element behind the others, which keep their places.
LEMMA Appended ==
  ASSUME NEW S, NEW q \in Seq(S), NEW e
  PROVE  /\ Len(q) \in Nat
         /\ DOMAIN q = 1..Len(q)
         /\ Len(Append(q, e)) = Len(q) + 1
         /\ DOMAIN Append(q, e) = 1..(Len(q) + 1)
         /\ \A i \in DOMAIN q : Append(q, e)[i] = q[i]
         /\ Append(q, e)[Len(q) + 1] = e
<1> DEFINE T == S \cup {e}
<1>1. q \in Seq(T) /\ e \in T
  BY SeqMonotonic
<1> HIDE DEF T
<1>2. Append(q, e) \in Seq(T) /\ Len(Append(q, e)) = Len(q) + 1
  BY <1>1, AppendProperties
<1>3. /\ \A i \in 1..Len(q) : Append(q, e)[i] = q[i]
      /\ Append(q, e)[Len(q) + 1] = e
  BY <1>1, AppendProperties
<1> QED
  BY <1>1, <1>2, <1>3, LenProperties

\* What a match adds to the games: the group is the queue and who completes it.
LEMMA MatchGames ==
  ASSUME TypeOK, NEW s \in Sessions, NEW m \in Modes, StartMatch(s, m)
  PROVE  /\ games' = Append(games, Announcement(m, queues[m] \cup {s}))
         /\ nextPort' = NextPort(nextPort)
         /\ Cardinality(queues[m] \cup {s}) = MatchSize(m)
         /\ queues[m] \cup {s} \subseteq Sessions
         /\ \A p \in queues[m] \cup {s} : Target(p) \in Sessions
<1>1. CanStartMatch(AddPlayer(queues, s, m), m)
  BY DEF StartMatch, Joined
<1>2. Extracted(Joined(s, m), m) = queues[m] \cup {s}
  BY <1>1, MatchTakesTheQueue DEF Joined, TypeOK
<1>3. Cardinality(queues[m] \cup {s}) = MatchSize(m)
  BY <1>1 DEF CanStartMatch, AddPlayer, TypeOK
<1> QED
  BY <1>2, <1>3 DEF StartMatch, TypeOK

\* The old games stay, the new one is the last.
LEMMA MatchAppends ==
  ASSUME TypeOK, NEW s \in Sessions, NEW m \in Modes, StartMatch(s, m)
  PROVE  /\ Len(games) \in Nat
         /\ DOMAIN games = 1..Len(games)
         /\ Len(games') = Len(games) + 1
         /\ DOMAIN games' = 1..(Len(games) + 1)
         /\ \A i \in DOMAIN games : games'[i] = games[i]
         /\ games'[Len(games) + 1] = Announcement(m, queues[m] \cup {s})
<1>1. games' = Append(games, Announcement(m, queues[m] \cup {s}))
  BY MatchGames
<1>2. games \in Seq(Game)
  BY DEF TypeOK
<1> QED
  BY <1>1, <1>2, Appended

\* No other handler touches the games or the port counter.
LEMMA OnlyMatchesStartGames ==
  ASSUME [Next]_vars
  PROVE  \/ UNCHANGED <<games, nextPort>>
         \/ \E s \in Sessions, m \in Modes : StartMatch(s, m)
BY DEF Next, HandlePlayerPacket, HandleQueueJoin, AcceptVanished, Stop, Accept, Receive,
       PeerClose, HandleError, HandleAuthenticate, RefuseQueueJoin, WaitInQueue,
       HandleQueueLeave, HandleUnexpected, StartMatchCrashes, vars

-----------------------------------------------------------------------------
(* Ports *)

\* The counter and the ports are those of the number of games.
PortsInTurn ==
  /\ nextPort = (FirstPort + Len(games)) % PortSpace
  /\ \A i \in DOMAIN games : games[i].port = (FirstPort + i - 1) % PortSpace

\* Every step gives a new game the port whose turn it is.
LEMMA StepKeepsTheTurn == TypeOK /\ PortsInTurn /\ [Next]_vars => PortsInTurn'
<1> SUFFICES ASSUME TypeOK, PortsInTurn, [Next]_vars PROVE PortsInTurn'
  OBVIOUS
<1>1. CASE UNCHANGED <<games, nextPort>>
  BY <1>1 DEF PortsInTurn
<1>2. ASSUME NEW s \in Sessions, NEW m \in Modes, StartMatch(s, m) PROVE PortsInTurn'
  <2> DEFINE n == Len(games)
  <2>1. /\ n \in Nat /\ DOMAIN games = 1..n
        /\ Len(games') = n + 1 /\ DOMAIN games' = 1..(n + 1)
        /\ \A i \in 1..n : games'[i] = games[i]
        /\ games'[n + 1] = Announcement(m, queues[m] \cup {s})
    BY <1>2, MatchAppends
  <2>2. nextPort' = (nextPort + 1) % PortSpace
    BY <1>2, MatchGames DEF NextPort
  <2>3. nextPort = (FirstPort + n) % PortSpace
    BY DEF PortsInTurn
  <2>4. games'[n + 1].port = nextPort
    BY <2>1 DEF Announcement, GetNextPort
  <2>5. \A i \in 1..n : games'[i].port = (FirstPort + i - 1) % PortSpace
    BY <2>1 DEF PortsInTurn
  <2> HIDE DEF n
  <2>6. FirstPort \in Int /\ PortSpace \in Nat \ {0}
    BY PortAssumption
  <2>7. nextPort' = (FirstPort + n + 1) % PortSpace
    <3> DEFINE x == FirstPort + n
    <3>1. x \in Int
      BY <2>1, <2>6
    <3>2. nextPort' = ((x % PortSpace) + 1) % PortSpace
      BY <2>2, <2>3
    <3> HIDE DEF x
    <3>3. nextPort' = (x + 1) % PortSpace
      BY <2>6, <3>1, <3>2, WrapOnce
    <3> QED
      BY <3>3 DEF x
  <2>8. FirstPort + (n + 1) = FirstPort + n + 1 /\ FirstPort + (n + 1) - 1 = FirstPort + n
    BY <2>1, <2>6
  <2>9. \A i \in 1..(n + 1) : i \in 1..n \/ i = n + 1
    BY <2>1
  <2>10. games'[n + 1].port = (FirstPort + (n + 1) - 1) % PortSpace
    BY <2>3, <2>4, <2>8
  <2>11. \A i \in 1..(n + 1) : games'[i].port = (FirstPort + i - 1) % PortSpace
    BY <2>5, <2>9, <2>10
  <2> QED
    BY <2>1, <2>7, <2>8, <2>11 DEF PortsInTurn
<1> QED
  BY <1>1, <1>2, OnlyMatchesStartGames

\* Ports taken in turn differ for a whole turn.
LEMMA TurnsAreDistinct == TypeOK /\ PortsInTurn => PortsDistinct
<1> SUFFICES ASSUME TypeOK, PortsInTurn, NEW i \in DOMAIN games, NEW j \in DOMAIN games,
                    i < j, j - i < PortSpace
             PROVE  games[i].port # games[j].port
  BY DEF PortsDistinct
<1>1. i \in Nat /\ j \in Nat
  BY LenProperties DEF TypeOK
<1> DEFINE x == FirstPort + i - 1
           y == FirstPort + j - 1
<1>2. x \in Int /\ y \in Int /\ x < y /\ y - x < PortSpace /\ PortSpace \in Nat \ {0}
  BY <1>1, PortAssumption
<1>3. games[i].port = x % PortSpace /\ games[j].port = y % PortSpace
  BY DEF PortsInTurn
<1> HIDE DEF x, y
<1> QED
  BY <1>2, <1>3, NearbyRemaindersDiffer

\* The first port is the one of game 1.
LEMMA InitTurn == Init => PortsInTurn
<1> SUFFICES ASSUME Init PROVE PortsInTurn
  OBVIOUS
<1>1. Len(games) = 0 /\ DOMAIN games = {} /\ nextPort = FirstPort
  BY DEF Init
<1>2. FirstPort \in 0..(PortSpace - 1) /\ PortSpace \in Nat \ {0}
  BY PortAssumption
<1>3. (PortSpace * 0 + FirstPort) % PortSpace = FirstPort
  BY <1>2, Remainder
<1>4. PortSpace * 0 + FirstPort = FirstPort /\ FirstPort + 0 = FirstPort
  BY <1>2
<1> QED
  BY <1>1, <1>3, <1>4 DEF PortsInTurn

\* The ports are those of the number of games, whatever the clients do.
THEOREM PortsGoRound == Spec => []PortsInTurn
<1>1. TypeOK /\ PortsInTurn /\ [Next]_vars => PortsInTurn'
  BY StepKeepsTheTurn
<1> QED
  BY <1>1, InitTurn, TypeCorrect, PTL DEF Spec

(***************************************************************************)
(* Two games have different ports as long as the counter of GameSpawner    *)
(* (GameSpawner.hpp:34-46) has not come round between them, whatever the   *)
(* clients do.                                                             *)
(***************************************************************************)
THEOREM NoPortIsSharedWithinATurn == Spec => []PortsDistinct
BY PortsGoRound, TypeCorrect, TurnsAreDistinct, PTL

-----------------------------------------------------------------------------
(* Tokens *)

(***************************************************************************)
(* Whoever waits in a queue holds a token, and if it is no longer          *)
(* connected, no packet of it is left that could clear the token.          *)
(***************************************************************************)
QueuedHoldTokens ==
  \A s \in Sessions : Queued(s) =>
    /\ token[s] # NoToken
    /\ s \in players \/ pending[s] \in {Failed, Idle}

\* Every step keeps tokens with the sessions in the queues.
LEMMA StepKeepsTokens == TypeOK /\ QueuedHoldTokens /\ [Next]_vars => QueuedHoldTokens'
<1> SUFFICES ASSUME TypeOK, QueuedHoldTokens, [Next]_vars, NEW r \in Sessions, Queued(r)'
             PROVE  /\ token'[r] # NoToken
                    /\ r \in players' \/ pending'[r] \in {Failed, Idle}
  BY DEF QueuedHoldTokens
<1> USE DEF TypeOK
<1>1. PICK k \in Modes : r \in queues'[k]
  BY DEF Queued
<1>2. Queued(r) => /\ token[r] # NoToken
                   /\ r \in players \/ pending[r] \in {Failed, Idle}
  BY DEF QueuedHoldTokens
<1>3. CASE UNCHANGED <<players, token, queues, pending>>
  BY <1>1, <1>2, <1>3 DEF Queued
<1>4. ASSUME NEW s \in Sessions,
             Accept(s) \/ PeerClose(s) \/ \E packet \in Packets : Receive(s, packet)
      PROVE  /\ token'[r] # NoToken
             /\ r \in players' \/ pending'[r] \in {Failed, Idle}
  <2>1. Queued(r) /\ token' = token
    BY <1>1, <1>4 DEF Accept, PeerClose, Receive, session, Queued
  <2>2. pending[s] = Armed => pending[s] \notin {Failed, Idle}
    BY ReadKinds
  <2> QED
    BY <1>2, <1>4, <2>1, <2>2 DEF Accept, PeerClose, Receive
<1>5. ASSUME NEW s \in Sessions, NEW tok, NEW n, Disconnect(s, tok, n),
             \A q \in Sessions \ {s} : token'[q] = token[q],
             token'[s] = token[s] \/ pending[s] \notin {Failed, Idle}
      PROVE  /\ token'[r] # NoToken
             /\ r \in players' \/ pending'[r] \in {Failed, Idle}
  <2>1. Queued(r)
    BY <1>1, <1>5 DEF Disconnect, Remove, Queued
  <2>2. r = s => s \notin players
    BY <1>1, <1>5 DEF Disconnect, Remove
  <2> QED
    BY <1>2, <1>5, <2>1, <2>2 DEF Disconnect
<1>6. ASSUME NEW s \in Sessions, HandleAuthenticate(s)
      PROVE  /\ token'[r] # NoToken
             /\ r \in players' \/ pending'[r] \in {Failed, Idle}
  <2>1. PICK t \in Tokens \cup {NoToken} :
          /\ pending[s] = Authenticate(t)
          /\ token' = [token EXCEPT ![s] = t]
          /\ AuthenticateOk(s, t) \/ AuthenticateFails(s, t)
    BY <1>6 DEF HandleAuthenticate
  <2>2. pending[s] \notin {Failed, Idle}
    BY <2>1, ReadKinds
  <2>3. CASE AuthenticateOk(s, t)
    <3>1. Queued(r) /\ t # NoToken /\ players' = players
      BY <1>1, <2>3, NullsAssumption DEF AuthenticateOk, Queued
    <3>2. r # s => pending'[r] = pending[r] /\ token'[r] = token[r]
      BY <2>1, <2>3 DEF AuthenticateOk
    <3> QED
      BY <1>2, <2>1, <2>2, <3>1, <3>2
  <2>4. CASE AuthenticateFails(s, t)
    <3>1. PICK n : Disconnect(s, t, n)
      BY <2>4 DEF AuthenticateFails
    <3> QED
      BY <1>5, <2>1, <2>2, <3>1
  <2> QED
    BY <2>1, <2>3, <2>4
<1>7. ASSUME NEW s \in Sessions, HandleQueueLeave(s)
      PROVE  /\ token'[r] # NoToken
             /\ r \in players' \/ pending'[r] \in {Failed, Idle}
  <2>1. r # s /\ Queued(r) /\ token' = token
    BY <1>1, <1>7 DEF HandleQueueLeave, Remove, Queued, session
  <2> QED
    BY <1>2, <1>7, <2>1 DEF HandleQueueLeave
<1>8. ASSUME NEW s \in Sessions, NEW m \in Modes, WaitInQueue(s, m)
      PROVE  /\ token'[r] # NoToken
             /\ r \in players' \/ pending'[r] \in {Failed, Idle}
  <2>1. token' = token /\ players' = players /\ token[s] # NoToken
    BY <1>8 DEF WaitInQueue, session
  <2>2. r # s => Queued(r) /\ pending'[r] = pending[r]
    BY <1>1, <1>8 DEF WaitInQueue, Joined, AddPlayer, Queued
  <2>3. r = s => s \in players \/ pending'[s] = Failed
    BY <1>8 DEF WaitInQueue, Rearmed
  <2> QED
    BY <1>2, <2>1, <2>2, <2>3
<1>9. ASSUME NEW s \in Sessions, NEW m \in Modes, StartMatch(s, m)
      PROVE  /\ token'[r] # NoToken
             /\ r \in players' \/ pending'[r] \in {Failed, Idle}
  <2>1. PICK gone :
          /\ players' = players \ gone
          /\ queues' = [j \in Modes |-> [queues EXCEPT ![m] = {}][j] \ gone]
          /\ pending' = [AfterClose(gone) EXCEPT ![s] = Rearmed(s, players \ gone)]
    BY <1>9, MatchQueues
  <2>2. Queued(r) /\ r \notin gone
    BY <1>1, <2>1 DEF Queued
  <2>3. token' = token
    BY <1>9 DEF StartMatch, session
  <2>4. CASE r = s
    <3>1. pending[s] \notin {Failed, Idle}
      BY <1>9, ReadKinds DEF StartMatch
    <3> QED
      BY <1>2, <2>1, <2>2, <2>3, <2>4, <3>1
  <2>5. CASE r # s
    <3>1. pending'[r] = pending[r]
      BY <2>1, <2>2, <2>5 DEF AfterClose
    <3> QED
      BY <1>2, <2>1, <2>2, <2>3, <3>1
  <2> QED
    BY <2>4, <2>5
<1>10. ASSUME NEW s \in Sessions, HandleError(s) \/ HandleUnexpected(s) \/ RefuseQueueJoin(s)
       PROVE  /\ token'[r] # NoToken
              /\ r \in players' \/ pending'[r] \in {Failed, Idle}
  BY <1>5, <1>10 DEF HandleError, HandleUnexpected, RefuseQueueJoin, session
<1> QED
  BY <1>3, <1>4, <1>6, <1>7, <1>8, <1>9, <1>10
     DEF Next, HandlePlayerPacket, HandleQueueJoin, AcceptVanished, Stop,
         StartMatchCrashes, vars, session

\* Every match has tokens, as long as the queues do.
LEMMA StepKeepsGamesAuthenticated ==
  TypeOK /\ QueuedHoldTokens /\ GamesAreAuthenticated /\ [Next]_vars => GamesAreAuthenticated'
<1> SUFFICES ASSUME TypeOK, QueuedHoldTokens, GamesAreAuthenticated, [Next]_vars
             PROVE  GamesAreAuthenticated'
  OBVIOUS
<1>1. CASE UNCHANGED games
  BY <1>1 DEF GamesAreAuthenticated
<1>2. ASSUME NEW s \in Sessions, NEW m \in Modes, StartMatch(s, m)
      PROVE  GamesAreAuthenticated'
  <2> DEFINE n == Len(games)
             G == queues[m] \cup {s}
  <2>1. /\ n \in Nat /\ DOMAIN games = 1..n /\ DOMAIN games' = 1..(n + 1)
        /\ \A i \in 1..n : games'[i] = games[i]
        /\ games'[n + 1] = Announcement(m, G)
    BY <1>2, MatchAppends
  <2>2. Cardinality(G) = MatchSize(m) /\ G \subseteq Sessions
    BY <1>2, MatchGames
  <2>3. \A p \in G : token[p] # NoToken
    BY <1>2, <2>2 DEF StartMatch, QueuedHoldTokens, Queued
  <2> HIDE DEF n, G
  <2>4. /\ Cardinality(games'[n + 1].roster) = MatchSize(games'[n + 1].mode)
        /\ \A p \in games'[n + 1].roster : games'[n + 1].tokens[p] # NoToken
    BY <2>1, <2>2, <2>3 DEF Announcement
  <2>5. \A i \in 1..(n + 1) : i \in 1..n \/ i = n + 1
    BY <2>1
  <2> QED
    BY <2>1, <2>4, <2>5 DEF GamesAreAuthenticated
<1> QED
  BY <1>1, <1>2, OnlyMatchesStartGames

(***************************************************************************)
(* Every game is started with as many tokens as its mode has players, none *)
(* of them empty, though a session may clear its token while it is queued  *)
(* (PlayerPool.hpp:44-61) and may wait in several queues.                  *)
(***************************************************************************)
THEOREM GamesAreStartedWithTokens == Spec => []GamesAreAuthenticated
<1>1. Init => QueuedHoldTokens /\ GamesAreAuthenticated
  BY DEF Init, QueuedHoldTokens, Queued, NoQueues, GamesAreAuthenticated
<1>2. /\ TypeOK /\ QueuedHoldTokens /\ [Next]_vars => QueuedHoldTokens'
      /\ TypeOK /\ QueuedHoldTokens /\ GamesAreAuthenticated /\ [Next]_vars
           => GamesAreAuthenticated'
  BY StepKeepsTokens, StepKeepsGamesAuthenticated
<1> QED
  BY <1>1, <1>2, TypeCorrect, PTL DEF Spec

-----------------------------------------------------------------------------
(* One game for a session that keeps its account *)

(***************************************************************************)
(* A session asks for an account only while it has none, so that an entry  *)
(* of the directory is under the nickname its session still has.           *)
(***************************************************************************)
AccountsAreKept ==
  /\ \A s \in Sessions : pending[s].type = "Authenticate" => token[s] = NoToken
  /\ \A k \in Keys : identified[k] \in Sessions =>
       nick[identified[k]] = k /\ token[identified[k]] # NoToken

\* Whoever was told of a game has been disconnected.
ToldHaveLeft ==
  \A i \in DOMAIN games : \A p \in games[i].roster :
    games[i].told[p] # Absent => games[i].told[p] \in accepted \ players

\* Every step keeps the account of a session that has authenticated.
LEMMA StepKeepsAccounts ==
  ASSUME "Reauthenticate" \notin Unruly, TypeOK, AccountsAreKept, [Next]_vars
  PROVE  AccountsAreKept'
<1> USE DEF TypeOK
<1>1. ASSUME UNCHANGED <<identified, token, nick>>,
             \A r \in Sessions : pending'[r] = pending[r] \/ pending'[r] \in {Idle, Armed, Failed}
      PROVE  AccountsAreKept'
  BY <1>1, ReadKinds DEF AccountsAreKept
<1>2. ASSUME NEW s \in Sessions, Accept(s) \/ PeerClose(s) PROVE AccountsAreKept'
  BY <1>1, <1>2 DEF Accept, PeerClose, session
<1>3. ASSUME NEW s \in Sessions, NEW packet \in Packets, Receive(s, packet)
      PROVE  AccountsAreKept'
  BY <1>3 DEF Receive, Permitted, AccountsAreKept, session
<1>4. ASSUME NEW s \in Sessions, NEW tok, NEW n \in Keys, Disconnect(s, tok, n),
             UNCHANGED <<token, nick>>
      PROVE  AccountsAreKept'
  <2>1. \A k \in Keys : identified'[k] = identified[k] \/ identified'[k] = Absent
    BY <1>4 DEF Disconnect, Erase
  <2>2. \A r \in Sessions : pending'[r] = pending[r] \/ pending'[r] = Idle
    BY <1>4 DEF Disconnect
  <2> QED
    BY <1>4, <2>1, <2>2, ReadKinds, NullsAssumption DEF AccountsAreKept
<1>5. ASSUME NEW s \in Sessions, HandleAuthenticate(s) PROVE AccountsAreKept'
  <2>1. PICK t \in Tokens \cup {NoToken} :
          /\ pending[s] = Authenticate(t)
          /\ token' = [token EXCEPT ![s] = t]
          /\ AuthenticateOk(s, t) \/ AuthenticateFails(s, t)
    BY <1>5 DEF HandleAuthenticate
  <2>2. \A k \in Keys : identified[k] # s
    BY <2>1, ReadKinds DEF AccountsAreKept
  <2>3. CASE AuthenticateOk(s, t)
    <3>1. /\ t \in Tokens /\ nick' = [nick EXCEPT ![s] = Account[t]]
          /\ identified' = Emplaced(identified, Account[t], s)
          /\ pending' = [pending EXCEPT ![s] = Rearmed(s, players)]
      BY <2>3 DEF AuthenticateOk
    <3>2. \A k \in Keys : identified'[k] = identified[k] \/ (identified'[k] = s /\ k = Account[t])
      BY <3>1 DEF Emplaced
    <3>3. token'[s] = t /\ nick'[s] = Account[t] /\ t # NoToken
      BY <2>1, <3>1, NullsAssumption
    <3>4. \A r \in Sessions \ {s} : token'[r] = token[r] /\ nick'[r] = nick[r]
      BY <2>1, <3>1
    <3>5. pending'[s].type # "Authenticate"
      BY <3>1, ReadKinds DEF Rearmed
    <3> QED
      BY <2>2, <3>1, <3>2, <3>3, <3>4, <3>5 DEF AccountsAreKept
  <2>4. CASE AuthenticateFails(s, t)
    <3>1. PICK n : nick' = [nick EXCEPT ![s] = n] /\ Disconnect(s, t, n)
      BY <2>4 DEF AuthenticateFails
    <3>2. \A k \in Keys : identified'[k] = identified[k] \/ identified'[k] = Absent
      BY <3>1 DEF Disconnect, Erase
    <3>3. \A r \in Sessions \ {s} : token'[r] = token[r] /\ nick'[r] = nick[r]
      BY <2>1, <3>1
    <3>4. pending' = [pending EXCEPT ![s] = Idle]
      BY <3>1 DEF Disconnect
    <3> QED
      BY <2>2, <3>2, <3>3, <3>4, ReadKinds, NullsAssumption DEF AccountsAreKept
  <2> QED
    BY <2>1, <2>3, <2>4
<1>6. ASSUME NEW s \in Sessions, HandleQueueLeave(s) PROVE AccountsAreKept'
  <2>1. \A k \in Keys : identified'[k] = identified[k] \/ identified'[k] = Absent
    BY <1>6 DEF HandleQueueLeave, Erase
  <2>2. UNCHANGED <<token, nick>> /\ pending' = [pending EXCEPT ![s] = Idle]
    BY <1>6 DEF HandleQueueLeave, session
  <2> QED
    BY <2>1, <2>2, ReadKinds, NullsAssumption DEF AccountsAreKept
<1>7. ASSUME NEW s \in Sessions, NEW m \in Modes, WaitInQueue(s, m) PROVE AccountsAreKept'
  BY <1>1, <1>7 DEF WaitInQueue, Rearmed, session
<1>8. ASSUME NEW s \in Sessions, NEW m \in Modes, StartMatch(s, m) PROVE AccountsAreKept'
  <2> DEFINE G == queues[m] \cup {s}
             gone(C) == {Target(p) : p \in C}
  <2>1. PICK C \in SUBSET G :
          /\ identified' = AfterClosing(G, C)
          /\ pending' = [AfterClose(gone(C)) EXCEPT ![s] = Rearmed(s, players \ gone(C))]
    BY <1>8, MatchQueues
  <2> HIDE DEF G, gone
  <2>2. UNCHANGED <<token, nick>>
    BY <1>8 DEF StartMatch, session
  <2>3. \A k \in Keys : identified'[k] = identified[k] \/ identified'[k] \in {Absent, NullPtr}
    BY <2>1 DEF AfterClosing
  <2>4. \A r \in Sessions : pending'[r] = pending[r] \/ pending'[r] \in {Armed, Failed}
    BY <2>1 DEF AfterClose, Rearmed
  <2> QED
    BY <2>2, <2>3, <2>4, ReadKinds, NullsAssumption DEF AccountsAreKept
<1>9. ASSUME NEW s \in Sessions, HandleError(s) \/ HandleUnexpected(s) \/ RefuseQueueJoin(s)
      PROVE  AccountsAreKept'
  BY <1>4, <1>9 DEF HandleError, HandleUnexpected, RefuseQueueJoin, session
<1>10. CASE AcceptVanished \/ Stop \/ UNCHANGED vars
            \/ \E s \in Sessions, m \in Modes : StartMatchCrashes(s, m)
  BY <1>1, <1>10 DEF AcceptVanished, Stop, StartMatchCrashes, vars, session
<1> QED
  BY <1>2, <1>3, <1>5, <1>6, <1>7, <1>8, <1>9, <1>10
     DEF Next, HandlePlayerPacket, HandleQueueJoin

(***************************************************************************)
(* The loop disconnects every session that was told: a lookup it spoils    *)
(* would have found the session whose disconnection spoils it.             *)
(***************************************************************************)
LEMMA TheToldAreDisconnected ==
  ASSUME TypeOK, AccountsAreKept, NEW G \in SUBSET Sessions, NEW C \in SUBSET G, Closers(G, C),
         \A p \in G : Target(p) \in Sessions, NEW p \in G, Target(p) \in players
  PROVE  Target(p) \in {Target(e) : e \in C}
<1>1. CASE p \in C
  BY <1>1
<1>2. CASE p \notin C
  <2>1. PICK e \in C : Spoils(e, p)
    BY <1>2 DEF Closers
  <2>2. nick[Target(e)] = nick[e]
    BY <2>1 DEF AccountsAreKept, Target, TypeOK
  <2>3. Target(e) = Target(p)
    BY <2>1, <2>2 DEF Spoils, Target
  <2> QED
    BY <2>3
<1> QED
  BY <1>1, <1>2

\* Only Accept() adds a player, and a new one.
LEMMA TheGoneStayGone ==
  ASSUME TypeOK, [Next]_vars
  PROVE  accepted \ players \subseteq accepted' \ players'
<1> SUFFICES ASSUME NEW r \in accepted \ players PROVE r \in accepted' \ players'
  OBVIOUS
<1>1. ASSUME NEW s \in Sessions, NEW m \in Modes, StartMatch(s, m)
      PROVE  r \in accepted' \ players'
  BY <1>1, MatchQueues DEF StartMatch
<1> QED
  BY <1>1 DEF Next, HandlePlayerPacket, HandleQueueJoin, AcceptVanished, Stop, Accept, Receive,
       PeerClose, HandleError, HandleAuthenticate, AuthenticateOk, AuthenticateFails, Disconnect,
       RefuseQueueJoin, WaitInQueue, HandleQueueLeave, HandleUnexpected, StartMatchCrashes, vars

\* Every match disconnects whom it tells, so that nobody is told again.
LEMMA StepKeepsToldOfOneGame ==
  ASSUME TypeOK, AccountsAreKept, ToldHaveLeft, ToldOfOneGame, [Next]_vars
  PROVE  ToldHaveLeft' /\ ToldOfOneGame'
<1>1. CASE UNCHANGED games
  BY <1>1, TheGoneStayGone DEF ToldHaveLeft, ToldOfOneGame
<1>2. ASSUME NEW s \in Sessions, NEW m \in Modes, StartMatch(s, m)
      PROVE  ToldHaveLeft' /\ ToldOfOneGame'
  <2> DEFINE n == Len(games)
             G == queues[m] \cup {s}
             new == games'[n + 1]
  <2>1. /\ n \in Nat /\ DOMAIN games = 1..n /\ DOMAIN games' = 1..(n + 1)
        /\ \A i \in 1..n : games'[i] = games[i]
        /\ new = Announcement(m, G)
    BY <1>2, MatchAppends
  <2>2. G \in SUBSET Sessions /\ \A p \in G : Target(p) \in Sessions
    BY <1>2, MatchGames
  <2>3. PICK C \in SUBSET G :
          Closers(G, C) /\ players' = players \ {Target(p) : p \in C}
    BY <1>2, MatchQueues
  <2>4. accepted' = accepted /\ players \subseteq accepted
    BY <1>2 DEF StartMatch, TypeOK
  <2> HIDE DEF n, G
  <2>5. new.roster = G /\ \A p \in G : new.told[p] = IF Target(p) \in players THEN Target(p) ELSE Absent
    BY <2>1, <2>2 DEF Announcement
  <2> HIDE DEF new
  <2>6. \A p \in G : new.told[p] # Absent => new.told[p] \in players /\ new.told[p] \in accepted' \ players'
    BY <2>2, <2>3, <2>4, <2>5, TheToldAreDisconnected
  <2>7. \A i \in 1..n : \A p \in games[i].roster :
          games[i].told[p] # Absent => /\ games[i].told[p] \notin players
                                       /\ games[i].told[p] \in accepted' \ players'
    BY <2>1, TheGoneStayGone DEF ToldHaveLeft
  <2>8. \A i \in 1..(n + 1) : i \in 1..n \/ i = n + 1
    BY <2>1
  <2>9. ToldHaveLeft'
    BY <2>1, <2>5, <2>6, <2>7, <2>8 DEF ToldHaveLeft, new
  <2>10. \A i \in 1..n : \A p \in games[i].roster, q \in G :
           games[i].told[p] = new.told[q] => games[i].told[p] = Absent
    BY <2>6, <2>7
  <2>11. \A i, j \in 1..n : i # j => \A p \in games[i].roster, q \in games[j].roster :
               games[i].told[p] = games[j].told[q] => games[i].told[p] = Absent
    BY <2>1 DEF ToldOfOneGame
  <2> SUFFICES ASSUME NEW i \in 1..(n + 1), NEW j \in 1..(n + 1), i # j,
                      NEW p \in games'[i].roster, NEW q \in games'[j].roster,
                      games'[i].told[p] = games'[j].told[q]
               PROVE  games'[i].told[p] = Absent
    BY <2>1, <2>9 DEF ToldOfOneGame
  <2>12. CASE i \in 1..n /\ j \in 1..n
    BY <2>1, <2>11, <2>12
  <2>13. CASE i \in 1..n /\ j = n + 1
    BY <2>1, <2>5, <2>10, <2>13 DEF new
  <2>14. CASE i = n + 1 /\ j \in 1..n
    BY <2>1, <2>5, <2>10, <2>14 DEF new
  <2> QED
    BY <2>8, <2>12, <2>13, <2>14
<1> QED
  BY <1>1, <1>2, OnlyMatchesStartGames

(***************************************************************************)
(* If no client asks for a second account on the same connection, no       *)
(* session is told of two games, even when clients share accounts and      *)
(* speak while queued: the lookups by nickname of _startMatch()            *)
(* (PlayerPool.hpp:82-115) tell and disconnect the same sessions.          *)
(***************************************************************************)
THEOREM NobodyIsToldTwice ==
  ASSUME "Reauthenticate" \notin Unruly PROVE Spec => []ToldOfOneGame
<1>1. Init => AccountsAreKept /\ ToldHaveLeft /\ ToldOfOneGame
  BY ReadKinds, NullsAssumption DEF Init, AccountsAreKept, ToldHaveLeft, ToldOfOneGame
<1>2. /\ TypeOK /\ AccountsAreKept /\ [Next]_vars => AccountsAreKept'
      /\ TypeOK /\ AccountsAreKept /\ ToldHaveLeft /\ ToldOfOneGame /\ [Next]_vars
           => ToldHaveLeft' /\ ToldOfOneGame'
  BY StepKeepsAccounts, StepKeepsToldOfOneGame
<1> QED
  BY <1>1, <1>2, TypeCorrect, PTL DEF Spec

-----------------------------------------------------------------------------
(* Polite clients: everyone is told, and plays one game *)

\* The nickname of an authenticated session is the one behind its token.
NicksAreAccounts == \A s \in players : token[s] # NoToken => nick[s] = Account[token[s]]

\* Whoever is in a game has left.
PlayedHaveLeft == \A i \in DOMAIN games : games[i].roster \subseteq accepted \ players

\* Every step keeps the nicknames those of the accounts.
LEMMA StepKeepsNicks ==
  ASSUME TypeOK, PoliteInv, NicksAreAccounts, [Next]_vars
  PROVE  NicksAreAccounts'
<1> SUFFICES ASSUME NEW r \in players', token'[r] # NoToken PROVE nick'[r] = Account[token'[r]]
  BY DEF NicksAreAccounts
<1> USE DEF TypeOK
<1>1. ASSUME UNCHANGED session, players' \subseteq players PROVE nick'[r] = Account[token'[r]]
  BY <1>1 DEF NicksAreAccounts, session
<1>2. ASSUME NEW s \in Sessions, Accept(s) PROVE nick'[r] = Account[token'[r]]
  BY <1>2 DEF Accept, session, NicksAreAccounts, PoliteInv, BlankUntilAuthenticated
<1>3. ASSUME NEW s \in Sessions, HandleAuthenticate(s) PROVE nick'[r] = Account[token'[r]]
  <2>1. PICK t \in Tokens \cup {NoToken} :
          /\ token' = [token EXCEPT ![s] = t]
          /\ AuthenticateOk(s, t) \/ AuthenticateFails(s, t)
    BY <1>3 DEF HandleAuthenticate
  <2>2. CASE AuthenticateOk(s, t)
    BY <2>1, <2>2 DEF AuthenticateOk, NicksAreAccounts
  <2>3. CASE AuthenticateFails(s, t)
    BY <2>1, <2>3 DEF AuthenticateFails, Disconnect, NicksAreAccounts
  <2> QED
    BY <2>1, <2>2, <2>3
<1>4. ASSUME NEW s \in Sessions, NEW m \in Modes, StartMatch(s, m)
      PROVE  nick'[r] = Account[token'[r]]
  BY <1>1, <1>4, MatchQueues DEF StartMatch
<1> QED
  BY <1>1, <1>2, <1>3, <1>4
     DEF Next, HandlePlayerPacket, HandleQueueJoin, AcceptVanished, Stop, Receive,
         PeerClose, HandleError, Disconnect, RefuseQueueJoin, WaitInQueue,
         HandleQueueLeave, HandleUnexpected, StartMatchCrashes, vars, session

\* Each player of game g was told, with the names of the accounts of the others.
WellTold(g) ==
  \A p \in g.roster :
    /\ g.told[p] = p
    /\ g.peers[p] = {Account[g.tokens[q]] : q \in g.roster \ {p}}

(***************************************************************************)
(* The game that a match announces: all of its players are told, under     *)
(* distinct tokens, with the names of the accounts of the others.          *)
(***************************************************************************)
LEMMA PoliteAnnouncement ==
  ASSUME TypeOK, PoliteInv, NicksAreAccounts, NEW s \in Sessions, NEW m \in Modes,
         StartMatch(s, m), NEW G, G = queues[m] \cup {s}, NEW g, g = Announcement(m, G)
  PROVE  /\ g.roster = G
         /\ WellTold(g)
         /\ \A p, q \in G : g.tokens[p] = g.tokens[q] => p = q
<1>1. \A p \in G : /\ p \in players /\ p \in Sessions /\ token[p] # NoToken
                   /\ Target(p) = p /\ identified[nick[p]] = p
  BY PoliteMatch
<1>2. g.roster = G /\ \A p \in G : g.tokens[p] = token[p]
  BY <1>1 DEF Announcement
<1>3. \A p \in G : g.told[p] = p
  BY <1>1 DEF Announcement
<1>4. \A p \in G : nick[p] = Account[token[p]]
  BY <1>1 DEF NicksAreAccounts
<1>5. ASSUME NEW p \in G PROVE g.peers[p] = {Account[g.tokens[q]] : q \in G \ {p}}
  <2>1. g.peers[p] = {nick[Target(q)] : q \in G \ {p}}
    BY <1>1 DEF Announcement, Peers
  <2>2. \A q \in G \ {p} : nick[Target(q)] = Account[g.tokens[q]]
    BY <1>1, <1>2, <1>4
  <2>3. {nick[Target(q)] : q \in G \ {p}} = {Account[g.tokens[q]] : q \in G \ {p}}
    <3> DEFINE f(q) == nick[Target(q)]
               h(q) == Account[g.tokens[q]]
    <3>1. \A q \in G \ {p} : f(q) = h(q)
      BY <2>2
    <3> HIDE DEF f, h
    <3>2. {f(q) : q \in G \ {p}} = {h(q) : q \in G \ {p}}
      BY <3>1
    <3> QED
      BY <3>2 DEF f, h
  <2> QED
    BY <2>1, <2>3
<1>6. \A p, q \in G : g.tokens[p] = g.tokens[q] => p = q
  BY <1>1, <1>2, <1>4
<1> QED
  BY <1>2, <1>3, <1>5, <1>6 DEF WellTold

\* Every match tells all its players.
LEMMA StepKeepsTelling ==
  ASSUME TypeOK, PoliteInv, NicksAreAccounts, EveryoneTold, [Next]_vars
  PROVE  EveryoneTold'
<1>1. CASE UNCHANGED games
  BY <1>1 DEF EveryoneTold
<1>2. ASSUME NEW s \in Sessions, NEW m \in Modes, StartMatch(s, m) PROVE EveryoneTold'
  <2> DEFINE n == Len(games)
             G == queues[m] \cup {s}
             g == Announcement(m, G)
  <2>1. /\ n \in Nat /\ DOMAIN games = 1..n /\ DOMAIN games' = 1..(n + 1)
        /\ \A i \in 1..n : games'[i] = games[i]
        /\ games'[n + 1] = g
    BY <1>2, MatchAppends
  <2>2. WellTold(g)
    <3>1. G = queues[m] \cup {s} /\ g = Announcement(m, G)
      OBVIOUS
    <3> HIDE DEF G, g
    <3> QED
      BY <1>2, <3>1, PoliteAnnouncement
  <2> HIDE DEF n, G, g
  <2>3. \A i \in 1..(n + 1) : i \in 1..n \/ i = n + 1
    BY <2>1
  <2> QED
    BY <2>1, <2>2, <2>3 DEF EveryoneTold, WellTold
<1> QED
  BY <1>1, <1>2, OnlyMatchesStartGames

\* Every match takes players that were in no game.
LEMMA StepKeepsGamesDisjoint ==
  ASSUME TypeOK, PoliteInv, NicksAreAccounts, PlayedHaveLeft, GamesAreDisjoint, [Next]_vars
  PROVE  PlayedHaveLeft' /\ GamesAreDisjoint'
<1>1. CASE UNCHANGED games
  BY <1>1, TheGoneStayGone DEF PlayedHaveLeft, GamesAreDisjoint
<1>2. ASSUME NEW s \in Sessions, NEW m \in Modes, StartMatch(s, m)
      PROVE  PlayedHaveLeft' /\ GamesAreDisjoint'
  <2> DEFINE n == Len(games)
             G == queues[m] \cup {s}
             g == Announcement(m, G)
  <2>1. /\ n \in Nat /\ DOMAIN games = 1..n /\ DOMAIN games' = 1..(n + 1)
        /\ \A i \in 1..n : games'[i] = games[i]
        /\ games'[n + 1] = g
    BY <1>2, MatchAppends
  <2>2. g.roster = G /\ \A p, q \in G : g.tokens[p] = g.tokens[q] => p = q
    <3>1. G = queues[m] \cup {s} /\ g = Announcement(m, G)
      OBVIOUS
    <3> HIDE DEF G, g
    <3> QED
      BY <1>2, <3>1, PoliteAnnouncement
  <2>3. G \subseteq players /\ players' = players \ G
    BY <1>2, PoliteMatch
  <2>4. accepted' = accepted /\ players \subseteq accepted
    BY <1>2 DEF StartMatch, TypeOK
  <2> HIDE DEF n, G, g
  <2>5. \A i \in 1..n : games[i].roster \subseteq accepted \ players
    BY <2>1 DEF PlayedHaveLeft
  <2>6. \A i \in 1..(n + 1) : i \in 1..n \/ i = n + 1
    BY <2>1
  <2>7. PlayedHaveLeft'
    BY <2>1, <2>2, <2>3, <2>4, <2>5, <2>6 DEF PlayedHaveLeft
  <2>8. \A i \in 1..(n + 1) : \A p, q \in games'[i].roster :
          games'[i].tokens[p] = games'[i].tokens[q] => p = q
    BY <2>1, <2>2, <2>6 DEF GamesAreDisjoint
  <2>9. \A i, j \in 1..(n + 1) : i # j => games'[i].roster \cap games'[j].roster = {}
    <3> SUFFICES ASSUME NEW i \in 1..(n + 1), NEW j \in 1..(n + 1), i # j
                 PROVE  games'[i].roster \cap games'[j].roster = {}
      OBVIOUS
    <3>1. CASE i \in 1..n /\ j \in 1..n
      BY <2>1, <3>1 DEF GamesAreDisjoint
    <3>2. CASE i \in 1..n /\ j = n + 1
      BY <2>1, <2>2, <2>3, <2>5, <3>2
    <3>3. CASE i = n + 1 /\ j \in 1..n
      BY <2>1, <2>2, <2>3, <2>5, <3>3
    <3> QED
      BY <2>6, <3>1, <3>2, <3>3
  <2>10. \A i \in 1..(n + 1) : games'[i].roster \cap players' = {}
    BY <2>1, <2>7 DEF PlayedHaveLeft
  <2> QED
    BY <2>1, <2>7, <2>8, <2>9, <2>10 DEF GamesAreDisjoint
<1> QED
  BY <1>1, <1>2, OnlyMatchesStartGames

\* With polite clients, the nickname of a session is that of its account.
THEOREM PoliteClientsKeepTheirNames ==
  ASSUME Unruly = {} PROVE Spec => []NicksAreAccounts
<1>1. Init => NicksAreAccounts
  BY DEF Init, NicksAreAccounts
<1>2. TypeOK /\ PoliteInv /\ NicksAreAccounts /\ [Next]_vars => NicksAreAccounts'
  BY StepKeepsNicks
<1> QED
  BY <1>1, <1>2, TypeCorrect, PoliteClientsKeepTheDirectory, PTL DEF Spec

(***************************************************************************)
(* With polite clients, each player of a game is told of it, with the      *)
(* names of all the others (PlayerPool.hpp:82-115), though the players     *)
(* are looked up by nickname.                                              *)
(***************************************************************************)
THEOREM PoliteClientsAreTold ==
  ASSUME Unruly = {} PROVE Spec => []EveryoneTold
<1>1. Init => EveryoneTold
  BY DEF Init, EveryoneTold
<1>2. TypeOK /\ PoliteInv /\ NicksAreAccounts /\ EveryoneTold /\ [Next]_vars => EveryoneTold'
  BY StepKeepsTelling
<1> QED
  BY <1>1, <1>2, TypeCorrect, PoliteClientsKeepTheDirectory, PoliteClientsKeepTheirNames, PTL
     DEF Spec

(***************************************************************************)
(* With polite clients, the tokens of a game are distinct, and a session   *)
(* is in one game at most and disconnected by then: what the game server,  *)
(* which waits for a set of tokens, relies on (gameserver/Server.hpp).     *)
(***************************************************************************)
THEOREM PoliteClientsPlayOneGame ==
  ASSUME Unruly = {} PROVE Spec => []GamesAreDisjoint
<1>1. Init => PlayedHaveLeft /\ GamesAreDisjoint
  BY DEF Init, PlayedHaveLeft, GamesAreDisjoint
<1>2. TypeOK /\ PoliteInv /\ NicksAreAccounts /\ PlayedHaveLeft /\ GamesAreDisjoint /\ [Next]_vars
        => PlayedHaveLeft' /\ GamesAreDisjoint'
  BY StepKeepsGamesDisjoint
<1> QED
  BY <1>1, <1>2, TypeCorrect, PoliteClientsKeepTheDirectory, PoliteClientsKeepTheirNames, PTL
     DEF Spec

-----------------------------------------------------------------------------
(* The refinement mapping *)

\* What a game is to the lobby.
MatchOf(g) == [port  |-> g.port,
               mode  |-> g.mode,
               group |-> {g.told[p] : p \in g.roster}]

\* The matches of the lobby.
Matches == [i \in DOMAIN games |-> MatchOf(games[i])]

\* The variables of the lobby, by the names they have in the master server.
Mapped == <<status = "running", players, accepted \ players, queues, Matches>>

\* The lobby counts as the server does.
LEMMA LobbyCounts == ASSUME NEW S PROVE Promise!Cardinality(S) = Cardinality(S)
BY DEF Promise!Cardinality, Cardinality

\* A sequence made from each element of another.
LEMMA MappedSequence ==
  ASSUME NEW n \in Nat, NEW f, f = [i \in 1..n |-> f[i]]
  PROVE  \E S : f \in Seq(S) /\ Len(f) = n
<1> DEFINE S == {f[i] : i \in 1..n}
<1>1. f \in [1..n -> S]
  OBVIOUS
<1> HIDE DEF S
<1>2. f \in Seq(S)
  BY <1>1, SeqDef
<1>3. DOMAIN f = 1..n /\ DOMAIN f = 1..Len(f) /\ Len(f) \in Nat
  BY <1>1, <1>2, LenProperties
<1>4. Len(f) = n
  BY <1>3
<1> QED
  BY <1>2, <1>4

\* A function that is another with one more element is the other appended to.
LEMMA AppendedSequence ==
  ASSUME NEW n \in Nat, NEW f, f = [i \in 1..n |-> f[i]], NEW e,
         NEW h, h = [i \in 1..(n + 1) |-> h[i]],
         \A i \in 1..n : h[i] = f[i], h[n + 1] = e
  PROVE  h = Append(f, e)
<1>1. PICK S : f \in Seq(S) /\ Len(f) = n
  BY MappedSequence
<1> DEFINE T == S \cup {e}
<1>2. f \in Seq(T) /\ e \in T
  BY <1>1, SeqMonotonic
<1> HIDE DEF T
<1>3. /\ Append(f, e) \in Seq(T) /\ Len(Append(f, e)) = n + 1
      /\ \A i \in 1..n : Append(f, e)[i] = f[i]
      /\ Append(f, e)[n + 1] = e
  BY <1>1, <1>2, AppendProperties
<1>4. Append(f, e) \in [1..(n + 1) -> T]
  BY <1>3, LenProperties
<1>5. \A i \in 1..(n + 1) : i \in 1..n \/ i = n + 1
  OBVIOUS
<1>6. \A i \in 1..(n + 1) : h[i] = Append(f, e)[i]
  BY <1>3, <1>5
<1> QED
  BY <1>4, <1>6

-----------------------------------------------------------------------------
(* The steps *)

\* A session that is disconnected leaves the lobby; one that is gone is silent.
LEMMA DisconnectIsLeave ==
  ASSUME TypeOK, status = "running", NEW s \in Sessions, NEW tok, NEW n,
         Disconnect(s, tok, n), UNCHANGED <<status, accepted, games>>
  PROVE  Promise!Leave(s) \/ UNCHANGED Mapped
<1>1. CASE s \in players
  <2>1. accepted' \ players' = (accepted \ players) \cup {s}
    BY <1>1 DEF Disconnect, TypeOK
  <2>2. queues' = [m \in Modes |-> queues[m] \ {s}] /\ players' = players \ {s}
    BY <1>1 DEF Disconnect, Remove, TypeOK
  <2> QED
    BY <1>1, <2>1, <2>2 DEF Promise!Leave, Promise!Withdrawn
<1>2. CASE s \notin players
  BY <1>2 DEF Disconnect, Mapped, Matches
<1> QED
  BY <1>1, <1>2

\* A player that joins a queue without completing it waits in the lobby.
LEMMA WaitingIsWait ==
  ASSUME TypeOK, PoliteInv, QueuesBelowMatchSize, NEW s \in Sessions, NEW m \in Modes,
         WaitInQueue(s, m)
  PROVE  Promise!Wait(s, m)
<1>1. s \in players
  BY ReadKinds DEF WaitInQueue, PoliteInv, ReadsAreTimely
<1>2. Below(AddPlayer(queues, s, m))
  BY JoiningStaysBelow DEF WaitInQueue, Joined, QueuesBelowMatchSize, Below, TypeOK
<1>3. AddPlayer(queues, s, m)[m] = queues[m] \cup {s}
  BY DEF AddPlayer, TypeOK
<1>4. Cardinality(queues[m] \cup {s}) < m + 1
  BY <1>2, <1>3 DEF Below, MatchSize
<1>5. /\ status = "running" /\ queues' = [queues EXCEPT ![m] = @ \cup {s}]
      /\ UNCHANGED <<status, accepted, players, games>>
  BY DEF WaitInQueue, Joined, AddPlayer
<1>6. UNCHANGED <<status = "running", players, accepted \ players, Matches>>
  BY <1>5 DEF Matches
<1> QED
  BY <1>1, <1>4, <1>5, <1>6, LobbyCounts DEF Promise!Wait, Matches, MatchOf

\* A match of the server is a match of the lobby: a group, and a fresh port.
LEMMA MatchIsMatch ==
  ASSUME TypeOK, PoliteInv, NicksAreAccounts, PortsInTurn, NEW s \in Sessions, NEW m \in Modes,
         StartMatch(s, m)
  PROVE  Promise!Match(s, m)
<1> DEFINE n == Len(games)
           G == queues[m] \cup {s}
           g == Announcement(m, G)
<1>1. /\ n \in Nat /\ DOMAIN games = 1..n /\ DOMAIN games' = 1..(n + 1)
      /\ \A i \in 1..n : games'[i] = games[i]
      /\ games'[n + 1] = g
  BY MatchAppends
<1>2. Cardinality(G) = m + 1
  BY MatchGames DEF MatchSize
<1>3. /\ \A p \in G : p \in players
      /\ players' = players \ G
      /\ queues' = [k \in Modes |-> [queues EXCEPT ![m] = {}][k] \ G]
  <2>1. G = queues[m] \cup {s}
    OBVIOUS
  <2> HIDE DEF G
  <2> QED
    BY <2>1, PoliteMatch
<1>4. g.roster = G /\ WellTold(g) /\ g.port = nextPort /\ g.mode = m
  <2>1. G = queues[m] \cup {s} /\ g = Announcement(m, G)
    OBVIOUS
  <2>2. g.port = nextPort /\ g.mode = m
    BY DEF Announcement, GetNextPort
  <2> HIDE DEF G, g
  <2> QED
    BY <2>1, <2>2, PoliteAnnouncement
<1>5. queues' = [k \in Modes |-> queues[k] \ G]
  BY <1>3 DEF TypeOK
<1>6. s \in players /\ status = "running" /\ UNCHANGED <<status, accepted>>
  BY <1>3 DEF StartMatch
<1> HIDE DEF n, G, g
<1>7. MatchOf(g) = [port |-> nextPort, mode |-> m, group |-> G]
  <2>1. {g.told[p] : p \in g.roster} = G
    BY <1>4 DEF WellTold
  <2> QED
    BY <1>4, <2>1 DEF MatchOf
<1>8. Matches' = Append(Matches, [port |-> nextPort, mode |-> m, group |-> G])
  <2>1. /\ Matches = [i \in 1..n |-> Matches[i]]
        /\ Matches' = [i \in 1..(n + 1) |-> Matches'[i]]
    BY <1>1 DEF Matches
  <2>2. \A i \in 1..n : Matches'[i] = Matches[i]
    BY <1>1 DEF Matches
  <2>3. Matches'[n + 1] = [port |-> nextPort, mode |-> m, group |-> G]
    BY <1>1, <1>7 DEF Matches
  <2> QED
    BY <1>1, <2>1, <2>2, <2>3, AppendedSequence
<1>9. \A i \in DOMAIN Matches : Len(Matches) - i < PortSpace - 1 => Matches[i].port # nextPort
  <2> SUFFICES ASSUME NEW i \in DOMAIN Matches, Len(Matches) - i < PortSpace - 1
               PROVE  Matches[i].port # nextPort
    OBVIOUS
  <2>1. DOMAIN Matches = 1..n /\ Matches = [j \in 1..n |-> Matches[j]]
    BY <1>1 DEF Matches
  <2>2. Len(Matches) = n
    BY <1>1, <2>1, MappedSequence
  <2> DEFINE x == FirstPort + i - 1
             y == FirstPort + n
  <2>3. x \in Int /\ y \in Int /\ x < y /\ y - x < PortSpace /\ PortSpace \in Nat \ {0}
    BY <1>1, <2>1, <2>2, PortAssumption
  <2>4. Matches[i].port = x % PortSpace
    BY <1>1, <2>1 DEF Matches, MatchOf, PortsInTurn
  <2>5. nextPort = y % PortSpace
    BY DEF PortsInTurn, n
  <2> HIDE DEF x, y
  <2> QED
    BY <2>3, <2>4, <2>5, NearbyRemaindersDiffer
<1>10. accepted' \ players' = (accepted \ players) \cup G
  BY <1>3, <1>6 DEF TypeOK
<1>11. nextPort \in 0..(PortSpace - 1)
  BY DEF TypeOK
<1> QED
  BY <1>2, <1>3, <1>5, <1>6, <1>8, <1>9, <1>10, <1>11, LobbyCounts
     DEF Promise!Match, Promise!Fresh, Promise!Withdrawn, Matches, MatchOf, G

-----------------------------------------------------------------------------
(* The refinement *)

\* What the refinement needs to know of the states of the master server.
LobbyInv ==
  /\ TypeOK
  /\ PoliteInv
  /\ NicksAreAccounts
  /\ PortsInTurn
  /\ QueuesBelowMatchSize

\* Every step of the master server is one of the lobby, or none.
LEMMA StepIsPromised ==
  ASSUME Unruly = {}, LobbyInv, [Next]_vars
  PROVE  [Promise!Next]_Mapped
<1> USE DEF LobbyInv
<1>1. ASSUME UNCHANGED <<status, accepted, players, queues, games>>
      PROVE  UNCHANGED Mapped
  BY <1>1 DEF Mapped, Matches
<1>2. CASE Stop
  BY <1>2 DEF Stop, Promise!Stop, Promise!Next
<1>3. ~AcceptVanished
  BY DEF AcceptVanished
<1>4. ASSUME NEW s \in Sessions, Accept(s) PROVE Promise!Connect(s)
  <2>1. /\ status = "running" /\ s \notin accepted
        /\ accepted' = accepted \cup {s} /\ players' = players \cup {s}
        /\ UNCHANGED <<status, queues, games>>
    BY <1>4 DEF Accept
  <2>2. s \notin players /\ accepted' \ players' = accepted \ players
    BY <2>1 DEF TypeOK
  <2> QED
    BY <2>1, <2>2 DEF Promise!Connect
<1>5. ASSUME NEW s \in Sessions, PeerClose(s) \/ \E packet \in Packets : Receive(s, packet)
      PROVE  UNCHANGED Mapped
  BY <1>1, <1>5 DEF PeerClose, Receive
<1>6. ASSUME NEW s \in Sessions, HandleError(s) \/ HandleUnexpected(s) \/ RefuseQueueJoin(s)
      PROVE  Promise!Leave(s) \/ UNCHANGED Mapped
  BY <1>6, DisconnectIsLeave DEF HandleError, HandleUnexpected, RefuseQueueJoin
<1>7. ASSUME NEW s \in Sessions, HandleAuthenticate(s)
      PROVE  Promise!Leave(s) \/ UNCHANGED Mapped
  <2>1. PICK t \in Tokens \cup {NoToken} :
          /\ status = "running"
          /\ AuthenticateOk(s, t) \/ AuthenticateFails(s, t)
          /\ UNCHANGED <<status, accepted, games>>
    BY <1>7 DEF HandleAuthenticate
  <2>2. CASE AuthenticateOk(s, t)
    BY <1>1, <2>1, <2>2 DEF AuthenticateOk
  <2>3. CASE AuthenticateFails(s, t)
    <3>1. PICK n : Disconnect(s, t, n)
      BY <2>3 DEF AuthenticateFails
    <3> QED
      BY <2>1, <3>1, DisconnectIsLeave
  <2> QED
    BY <2>1, <2>2, <2>3
<1>8. ASSUME NEW s \in Sessions, HandleQueueLeave(s)
      PROVE  Promise!Leave(s) \/ UNCHANGED Mapped
  <2>1. s \notin players => Remove(queues, s) = queues
    BY DEF PoliteInv, QueuedAreAuthenticated, Remove, TypeOK
  <2>2. Disconnect(s, token[s], nick[s])
    BY <1>8, <2>1 DEF HandleQueueLeave, Disconnect
  <2> QED
    BY <1>8, <2>2, DisconnectIsLeave DEF HandleQueueLeave
<1>9. ASSUME NEW s \in Sessions, NEW m \in Modes, WaitInQueue(s, m) PROVE Promise!Wait(s, m)
  BY <1>9, WaitingIsWait
<1>10. ASSUME NEW s \in Sessions, NEW m \in Modes, StartMatch(s, m) PROVE Promise!Match(s, m)
  BY <1>10, MatchIsMatch
<1>11. ASSUME NEW s \in Sessions, NEW m \in Modes PROVE ~StartMatchCrashes(s, m)
  BY PoliteMatchesStart
<1>12. CASE UNCHANGED vars
  BY <1>1, <1>12 DEF vars
<1>13. ASSUME NEW s \in Sessions, HandlePlayerPacket(s) PROVE [Promise!Next]_Mapped
  <2>1. CASE HandleQueueJoin(s)
    BY <1>6, <1>9, <1>10, <1>11, <2>1 DEF HandleQueueJoin, Promise!Next
  <2> QED
    BY <1>6, <1>7, <1>8, <1>13, <2>1 DEF HandlePlayerPacket, Promise!Next
<1> QED
  BY <1>2, <1>3, <1>4, <1>5, <1>12, <1>13 DEF Next, Promise!Next

\* The master server starts as the lobby does.
LEMMA InitIsPromised == Init => Promise!Init
<1> SUFFICES ASSUME Init PROVE Promise!Init
  OBVIOUS
<1>1. Matches = <<>>
  BY DEF Init, Matches
<1> QED
  BY <1>1 DEF Init, NoQueues, Promise!Init, Matches, MatchOf

(***************************************************************************)
(* With polite clients the master server implements the lobby: every       *)
(* handler of PlayerPool.hpp:39-161 is a step of the lobby, or none. A     *)
(* client waits, leaves or is matched, once and for good, and a group is   *)
(* told one port that no recent group was told.                            *)
(***************************************************************************)
THEOREM ServerImplementsLobby ==
  ASSUME Unruly = {} PROVE Spec => ImplementsLobby
<1>1. LobbyInv /\ [Next]_vars => [Promise!Next]_Promise!vars
  BY StepIsPromised DEF Promise!vars, Mapped, Matches, MatchOf
<1>2. Spec => []LobbyInv
  BY TypeCorrect, PoliteClientsKeepTheDirectory, PoliteClientsKeepTheirNames, PortsGoRound,
     NoMatchIsMissed, PTL DEF LobbyInv
<1> QED
  BY <1>1, <1>2, InitIsPromised, PTL DEF Spec, ImplementsLobby, Promise!Spec
=============================================================================
