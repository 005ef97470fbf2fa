-------------------------- MODULE PlayerPoolProofs --------------------------
(***************************************************************************)
(* Theorems about PlayerPool, for any sessions, accounts, modes and ports. *)
(***************************************************************************)
EXTENDS PlayerPool, FiniteSetTheorems, TLAPS

-----------------------------------------------------------------------------
(* The operators the model is built from *)

\* extractGame() takes players of the queue, if the match could start.
LEMMA ExtractedIsQueued ==
  ASSUME NEW q \in [Modes -> SUBSET Sessions], NEW m \in Modes, CanStartMatch(q, m)
  PROVE  /\ Extracted(q, m) \subseteq q[m]
         /\ Cardinality(Extracted(q, m)) = MatchSize(m)
<1> DEFINE P(G) == /\ Cardinality(G) = MatchSize(m)
                   /\ \A p \in G, r \in q[m] \ G : p < r
<1>1. q[m] \in SUBSET q[m] /\ P(q[m])
  BY DEF CanStartMatch
<1>2. \E G \in SUBSET q[m] : P(G)
  BY <1>1
<1>3. Extracted(q, m) = CHOOSE G \in SUBSET q[m] : P(G)
  BY DEF Extracted
<1> HIDE DEF P
<1>4. Extracted(q, m) \in SUBSET q[m] /\ P(Extracted(q, m))
  BY <1>2, <1>3
<1> QED
  BY <1>4 DEF P

\* The queues stay queues.
LEMMA QueueOperators ==
  ASSUME NEW q \in [Modes -> SUBSET Sessions]
  PROVE  /\ \A s \in Sessions, m \in Modes :
              AddPlayer(q, s, m) \in [Modes -> SUBSET Sessions]
         /\ \A s \in Sessions : Remove(q, s) \in [Modes -> SUBSET Sessions]
         /\ \A m \in Modes : AfterExtract(q, m) \in [Modes -> SUBSET Sessions]
BY DEF AddPlayer, Remove, AfterExtract

\* The reads a session can have.
LEMMA ReadsAreReads ==
  /\ Idle \in Reads /\ Armed \in Reads /\ Failed \in Reads
  /\ Packets \subseteq Reads
BY DEF Reads

\* Disconnecting a session keeps the types of what it changes.
LEMMA DisconnectTypes ==
  ASSUME TypeOK, NEW s \in Sessions, NEW tok \in Tokens \cup {NoToken}, NEW n \in Keys,
         Disconnect(s, tok, n)
  PROVE  /\ players' \subseteq accepted
         /\ identified' \in [Keys -> Sessions \cup {Absent, NullPtr}]
         /\ queues' \in [Modes -> SUBSET Sessions]
         /\ pending' \in [Sessions -> Reads]
BY QueueOperators, ReadsAreReads DEF TypeOK, Disconnect, Erase

-----------------------------------------------------------------------------
(* Type correctness *)

\* The master server starts well typed.
LEMMA InitTypes == Init => TypeOK
<1> SUFFICES ASSUME Init PROVE TypeOK
  OBVIOUS
<1>1. nextPort \in 0..(PortSpace - 1)
  BY PortAssumption DEF Init
<1>2. games \in Seq(Game)
  BY DEF Init
<1> QED
  BY <1>1, <1>2, ReadsAreReads DEF Init, TypeOK, NoQueues, Keys

\* A match keeps the types.
LEMMA MatchTypes ==
  ASSUME TypeOK, NEW s \in Sessions, NEW m \in Modes, StartMatch(s, m)
  PROVE  TypeOK'
<1> DEFINE full == Joined(s, m)
           G    == Extracted(full, m)
<1>1. full \in [Modes -> SUBSET Sessions]
  BY QueueOperators DEF TypeOK, Joined
<1>2. G \subseteq Sessions
  <2>1. CanStartMatch(full, m)
    BY DEF StartMatch
  <2> QED
    BY <1>1, <2>1, ExtractedIsQueued
<1>3. AfterExtract(full, m) \in [Modes -> SUBSET Sessions]
  BY <1>1, QueueOperators
<1>4. \A p \in G : Target(p) \in Sessions
  BY DEF StartMatch
<1> HIDE DEF G, full
<1>5. Announcement(m, G) \in Game
  <2>1. nextPort \in 0..(PortSpace - 1)
    BY DEF TypeOK
  <2>2. [p \in Sessions |-> IF p \in G THEN token[p] ELSE NoToken]
          \in [Sessions -> Tokens \cup {NoToken}]
    BY DEF TypeOK
  <2>3. [p \in Sessions |-> IF p \in G /\ Target(p) \in players THEN Target(p) ELSE Absent]
          \in [Sessions -> Sessions \cup {Absent}]
    BY <1>4
  <2>4. [p \in Sessions |-> IF p \in G THEN Peers(G, p) ELSE {}] \in [Sessions -> SUBSET Keys]
    <3>1. \A p : Peers(G, p) \subseteq Keys
      BY <1>4 DEF Peers, TypeOK
    <3> QED
      BY <3>1
  <2> QED
    BY <1>2, <2>1, <2>2, <2>3, <2>4 DEF Announcement, GetNextPort, Game
<1>6. games' \in Seq(Game)
  <2>1. games' = Append(games, Announcement(m, G))
    BY DEF StartMatch, G, full
  <2> QED
    BY <1>5, <2>1 DEF TypeOK
<1>7. nextPort' \in 0..(PortSpace - 1)
  <2>1. nextPort' = (nextPort + 1) % PortSpace
    BY DEF StartMatch, NextPort
  <2> QED
    BY <2>1, PortAssumption DEF TypeOK
<1>8. PICK C \in SUBSET G :
        /\ identified' = AfterClosing(G, C)
        /\ players' = players \ {Target(p) : p \in C}
        /\ queues' = [k \in Modes |-> AfterExtract(full, m)[k] \ {Target(p) : p \in C}]
        /\ pending' = [AfterClose({Target(p) : p \in C}) EXCEPT
                         ![s] = Rearmed(s, players \ {Target(p) : p \in C})]
  BY DEF StartMatch, G, full
<1>9. identified' \in [Keys -> Sessions \cup {Absent, NullPtr}]
  BY <1>8 DEF AfterClosing, TypeOK
<1>10. queues' \in [Modes -> SUBSET Sessions]
  BY <1>3, <1>8
<1>11. pending' \in [Sessions -> Reads]
  BY <1>8, ReadsAreReads DEF AfterClose, Rearmed, TypeOK
<1>12. players' \subseteq accepted
  BY <1>8 DEF TypeOK
<1>13. UNCHANGED <<status, accepted, token, nick>>
  BY DEF StartMatch, session
<1> QED
  BY <1>6, <1>7, <1>9, <1>10, <1>11, <1>12, <1>13 DEF TypeOK

\* Every step keeps the types.
LEMMA StepTypes == TypeOK /\ [Next]_vars => TypeOK'
<1> SUFFICES ASSUME TypeOK, [Next]_vars PROVE TypeOK'
  OBVIOUS
<1> USE ReadsAreReads
<1>1. CASE AcceptVanished \/ Stop
  BY <1>1 DEF AcceptVanished, Stop, session, TypeOK
<1>2. ASSUME NEW s \in Sessions, Accept(s) PROVE TypeOK'
  BY <1>2 DEF Accept, session, TypeOK
<1>3. ASSUME NEW s \in Sessions, NEW packet \in Packets, Receive(s, packet) PROVE TypeOK'
  BY <1>3 DEF Receive, session, TypeOK
<1>4. ASSUME NEW s \in Sessions, PeerClose(s) PROVE TypeOK'
  BY <1>4 DEF PeerClose, session, TypeOK
<1>5. ASSUME NEW s \in Sessions, HandleError(s) \/ HandleUnexpected(s) \/ RefuseQueueJoin(s)
      PROVE TypeOK'
  <2>1. /\ Disconnect(s, token[s], nick[s])
        /\ UNCHANGED <<status, accepted, token, nick, nextPort, games>>
    BY <1>5 DEF HandleError, HandleUnexpected, RefuseQueueJoin, session
  <2>2. token[s] \in Tokens \cup {NoToken} /\ nick[s] \in Keys
    BY DEF TypeOK
  <2> QED
    BY <2>1, <2>2, DisconnectTypes DEF TypeOK
<1>6. ASSUME NEW s \in Sessions, HandleAuthenticate(s) PROVE TypeOK'
  <2>1. PICK t \in Tokens \cup {NoToken} :
          /\ token' = [token EXCEPT ![s] = t]
          /\ AuthenticateOk(s, t) \/ AuthenticateFails(s, t)
          /\ UNCHANGED <<status, accepted, nextPort, games>>
    BY <1>6 DEF HandleAuthenticate
  <2>2. token' \in [Sessions -> Tokens \cup {NoToken}]
    BY <2>1 DEF TypeOK
  <2>3. CASE AuthenticateOk(s, t)
    <3>1. t \in Tokens /\ Account[t] \in Keys
      BY <2>3, AccountAssumption DEF AuthenticateOk, Keys
    <3> QED
      BY <2>1, <2>2, <2>3, <3>1 DEF AuthenticateOk, Emplaced, Rearmed, TypeOK
  <2>4. CASE AuthenticateFails(s, t)
    <3>1. PICK n \in {nick[s]} \cup {Account[u] : u \in {t} \cap Tokens} :
            /\ nick' = [nick EXCEPT ![s] = n]
            /\ Disconnect(s, t, n)
      BY <2>4 DEF AuthenticateFails
    <3>2. n \in Keys
      BY AccountAssumption DEF Keys, TypeOK
    <3> QED
      BY <2>1, <2>2, <3>1, <3>2, DisconnectTypes DEF TypeOK
  <2> QED
    BY <2>1, <2>3, <2>4
<1>7. ASSUME NEW s \in Sessions, HandleQueueLeave(s) PROVE TypeOK'
  BY <1>7, QueueOperators DEF HandleQueueLeave, Erase, session, TypeOK
<1>8. ASSUME NEW s \in Sessions, NEW m \in Modes, WaitInQueue(s, m) PROVE TypeOK'
  BY <1>8, QueueOperators DEF WaitInQueue, Joined, Rearmed, session, TypeOK
<1>9. ASSUME NEW s \in Sessions, NEW m \in Modes, StartMatch(s, m) PROVE TypeOK'
  BY <1>9, MatchTypes
<1>10. ASSUME NEW s \in Sessions, NEW m \in Modes, StartMatchCrashes(s, m) PROVE TypeOK'
  BY <1>10 DEF StartMatchCrashes, session, TypeOK
<1>11. CASE UNCHANGED vars
  BY <1>11 DEF vars, session, TypeOK
<1> QED
  BY <1>1, <1>2, <1>3, <1>4, <1>5, <1>6, <1>7, <1>8, <1>9, <1>10, <1>11
     DEF Next, HandlePlayerPacket, HandleQueueJoin

(***************************************************************************)
(* Every reachable state of the master server is well typed, whatever the  *)
(* clients do: the state of PlayerPool.hpp:163-167.                        *)
(***************************************************************************)
THEOREM TypeCorrect == Spec => []TypeOK
<1>1. Init => TypeOK
  BY InitTypes
<1>2. TypeOK /\ [Next]_vars => TypeOK'
  BY StepTypes
<1> QED
  BY <1>1, <1>2, PTL DEF Spec

-----------------------------------------------------------------------------
(* The queues never hold a whole match *)

\* Every queue is below the size of its match.
Below(q) == \A m \in Modes : Cardinality(q[m]) < MatchSize(m)

\* Queues that only lose players stay below the size of the match.
LEMMA ShrinkingStaysBelow ==
  ASSUME NEW q \in [Modes -> SUBSET Sessions], NEW r \in [Modes -> SUBSET Sessions],
         Below(q), \A m \in Modes : r[m] \subseteq q[m]
  PROVE  Below(r)
<1> SUFFICES ASSUME NEW m \in Modes PROVE Cardinality(r[m]) < MatchSize(m)
  BY DEF Below
<1>1. IsFiniteSet(q[m]) /\ IsFiniteSet(r[m])
  BY SessionsAssumption, FS_Subset
<1>2. Cardinality(r[m]) <= Cardinality(q[m])
  BY <1>1, FS_Subset
<1>3. Cardinality(r[m]) \in Nat /\ Cardinality(q[m]) \in Nat
  BY <1>1, FS_CardinalityType
<1>4. Cardinality(q[m]) < MatchSize(m) /\ MatchSize(m) \in Nat
  BY ModesAssumption DEF Below, MatchSize
<1> QED
  BY <1>2, <1>3, <1>4

\* A player that joins a queue and does not complete the match leaves it below.
LEMMA JoiningStaysBelow ==
  ASSUME NEW q \in [Modes -> SUBSET Sessions], NEW s \in Sessions, NEW m \in Modes,
         Below(q), ~CanStartMatch(AddPlayer(q, s, m), m)
  PROVE  Below(AddPlayer(q, s, m))
<1>1. AddPlayer(q, s, m) = [q EXCEPT ![m] = q[m] \cup {s}]
  BY DEF AddPlayer
<1>2. IsFiniteSet(q[m])
  BY SessionsAssumption, FS_Subset
<1>3. /\ Cardinality(q[m]) \in Nat
      /\ Cardinality(q[m] \cup {s})
           = IF s \in q[m] THEN Cardinality(q[m]) ELSE Cardinality(q[m]) + 1
  BY <1>2, FS_AddElement, FS_CardinalityType
<1>4. Cardinality(q[m] \cup {s}) # MatchSize(m)
  BY <1>1 DEF CanStartMatch
<1>5. Cardinality(q[m]) < MatchSize(m) /\ MatchSize(m) \in Nat
  BY ModesAssumption DEF Below, MatchSize
<1>6. Cardinality(q[m] \cup {s}) < MatchSize(m)
  BY <1>3, <1>4, <1>5
<1> QED
  BY <1>1, <1>6 DEF Below

\* A match takes the whole queue it completes, and nobody from the others.
LEMMA MatchTakesTheQueue ==
  ASSUME NEW q \in [Modes -> SUBSET Sessions], NEW s \in Sessions, NEW m \in Modes,
         CanStartMatch(AddPlayer(q, s, m), m)
  PROVE  /\ Extracted(AddPlayer(q, s, m), m) = q[m] \cup {s}
         /\ AfterExtract(AddPlayer(q, s, m), m) = [q EXCEPT ![m] = {}]
<1> DEFINE full == AddPlayer(q, s, m)
<1>1. full = [q EXCEPT ![m] = q[m] \cup {s}] /\ full \in [Modes -> SUBSET Sessions]
  BY QueueOperators DEF AddPlayer
<1>2. /\ Extracted(full, m) \subseteq full[m]
      /\ Cardinality(Extracted(full, m)) = MatchSize(m)
  BY <1>1, ExtractedIsQueued
<1>3. Cardinality(full[m]) = MatchSize(m)
  BY DEF CanStartMatch
<1>4. IsFiniteSet(full[m])
  BY <1>1, SessionsAssumption, FS_Subset
<1> HIDE DEF full
<1>5. Extracted(full, m) = full[m]
  BY <1>2, <1>3, <1>4, FS_Subset
<1>6. AfterExtract(full, m) = [full EXCEPT ![m] = {}]
  BY <1>1, <1>5 DEF AfterExtract
<1>7. [full EXCEPT ![m] = {}] = [q EXCEPT ![m] = {}]
  BY <1>1
<1>8. full[m] = q[m] \cup {s}
  BY <1>1
<1> QED
  BY <1>5, <1>6, <1>7, <1>8 DEF full

\* What a match does to the sessions and the queues.
LEMMA MatchQueues ==
  ASSUME TypeOK, NEW s \in Sessions, NEW m \in Modes, StartMatch(s, m)
  PROVE  \E C \in SUBSET (queues[m] \cup {s}) :
           /\ Closers(queues[m] \cup {s}, C)
           /\ identified' = AfterClosing(queues[m] \cup {s}, C)
           /\ players' = players \ {Target(p) : p \in C}
           /\ queues' = [k \in Modes |-> [queues EXCEPT ![m] = {}][k] \ {Target(p) : p \in C}]
           /\ pending' = [AfterClose({Target(p) : p \in C}) EXCEPT
                            ![s] = Rearmed(s, players \ {Target(p) : p \in C})]
<1>1. CanStartMatch(AddPlayer(queues, s, m), m)
  BY DEF StartMatch, Joined
<1>2. /\ Extracted(Joined(s, m), m) = queues[m] \cup {s}
      /\ AfterExtract(Joined(s, m), m) = [queues EXCEPT ![m] = {}]
  BY <1>1, MatchTakesTheQueue DEF Joined, TypeOK
<1> QED
  BY <1>2 DEF StartMatch

\* Every step leaves the queues below the size of a match.
LEMMA StepKeepsBelow ==
  TypeOK /\ QueuesBelowMatchSize /\ [Next]_vars => QueuesBelowMatchSize'
<1> SUFFICES ASSUME TypeOK, QueuesBelowMatchSize, [Next]_vars
             PROVE  Below(queues')
  BY DEF QueuesBelowMatchSize, Below
<1>1. Below(queues) /\ queues \in [Modes -> SUBSET Sessions]
  BY DEF QueuesBelowMatchSize, Below, TypeOK
<1>2. queues' \in [Modes -> SUBSET Sessions]
  BY StepTypes DEF TypeOK
<1>3. ASSUME \A k \in Modes : queues'[k] \subseteq queues[k] PROVE Below(queues')
  BY <1>1, <1>2, <1>3, ShrinkingStaysBelow
<1>4. ASSUME UNCHANGED queues PROVE Below(queues')
  BY <1>1, <1>4
<1>5. ASSUME NEW s \in Sessions, NEW tok, NEW n, Disconnect(s, tok, n)
      PROVE  Below(queues')
  <2>1. \A k \in Modes : queues'[k] \subseteq queues[k]
    BY <1>1, <1>5 DEF Disconnect, Remove
  <2> QED
    BY <2>1, <1>3
<1>6. ASSUME NEW s \in Sessions, HandleAuthenticate(s) PROVE Below(queues')
  BY <1>4, <1>5, <1>6 DEF HandleAuthenticate, AuthenticateOk, AuthenticateFails
<1>7. ASSUME NEW s \in Sessions, HandleQueueLeave(s) PROVE Below(queues')
  BY <1>1, <1>3, <1>7 DEF HandleQueueLeave, Remove
<1>8. ASSUME NEW s \in Sessions, NEW m \in Modes, WaitInQueue(s, m) PROVE Below(queues')
  BY <1>1, <1>8, JoiningStaysBelow DEF WaitInQueue, Joined
<1>9. ASSUME NEW s \in Sessions, NEW m \in Modes, StartMatch(s, m) PROVE Below(queues')
  <2>1. PICK gone : queues' = [k \in Modes |-> [queues EXCEPT ![m] = {}][k] \ gone]
    BY <1>9, MatchQueues
  <2>2. \A k \in Modes : queues'[k] \subseteq queues[k]
    BY <1>1, <2>1
  <2> QED
    BY <2>2, <1>3
<1>10. ASSUME NEW s \in Sessions, HandleError(s) \/ HandleUnexpected(s) \/ RefuseQueueJoin(s)
       PROVE  Below(queues')
  BY <1>5, <1>10 DEF HandleError, HandleUnexpected, RefuseQueueJoin
<1> QED
  BY <1>4, <1>6, <1>7, <1>8, <1>9, <1>10
     DEF Next, HandlePlayerPacket, HandleQueueJoin, AcceptVanished, Stop, Accept,
         Receive, PeerClose, StartMatchCrashes, vars

(***************************************************************************)
(* No queue ever holds as many players as its match needs, or more, when   *)
(* a handler has returned: the comparison of canStartMatch() with ==       *)
(* (MatchMaker.hpp:37-40) misses no match, whatever the clients do.        *)
(***************************************************************************)
THEOREM NoMatchIsMissed == Spec => []QueuesBelowMatchSize
<1>1. Init => QueuesBelowMatchSize
  BY FS_EmptySet, ModesAssumption DEF Init, NoQueues, QueuesBelowMatchSize, MatchSize
<1>2. TypeOK /\ QueuesBelowMatchSize /\ [Next]_vars => QueuesBelowMatchSize'
  BY StepKeepsBelow
<1> QED
  BY <1>1, <1>2, TypeCorrect, PTL DEF Spec

-----------------------------------------------------------------------------
(* No connected session is deaf *)

\* Every step keeps a read in progress for each connected session.
LEMMA StepKeepsHearing == TypeOK /\ NoDeafSession /\ [Next]_vars => NoDeafSession'
<1> SUFFICES ASSUME TypeOK, NoDeafSession, [Next]_vars, NEW r \in players'
             PROVE  pending'[r] # Idle
  BY DEF NoDeafSession
<1> USE DEF NoDeafSession, TypeOK
<1>1. Idle # Armed /\ Idle # Failed /\ Idle \notin Packets
  BY DEF Idle, Armed, Failed, Packets, Authenticate, QueueJoin, QueueLeave, Unexpected
<1>2. CASE UNCHANGED <<players, pending>>
  BY <1>2
<1>3. ASSUME NEW s \in Sessions,
             Accept(s) \/ PeerClose(s) \/ \E packet \in Packets : Receive(s, packet)
      PROVE  pending'[r] # Idle
  BY <1>1, <1>3 DEF Accept, PeerClose, Receive
<1>4. ASSUME NEW s \in Sessions, NEW tok, NEW n, Disconnect(s, tok, n)
      PROVE  pending'[r] # Idle
  BY <1>4 DEF Disconnect
<1>5. ASSUME NEW s \in Sessions, HandleAuthenticate(s) PROVE pending'[r] # Idle
  <2>1. CASE \E tok, n : Disconnect(s, tok, n)
    BY <1>4, <2>1
  <2>2. CASE UNCHANGED players /\ pending' = [pending EXCEPT ![s] = Rearmed(s, players)]
    BY <1>1, <2>2 DEF Rearmed
  <2> QED
    BY <1>5, <2>1, <2>2 DEF HandleAuthenticate, AuthenticateOk, AuthenticateFails
<1>6. ASSUME NEW s \in Sessions, HandleQueueLeave(s) PROVE pending'[r] # Idle
  BY <1>6 DEF HandleQueueLeave
<1>7. ASSUME NEW s \in Sessions, NEW m \in Modes, WaitInQueue(s, m)
      PROVE  pending'[r] # Idle
  BY <1>1, <1>7 DEF WaitInQueue, Rearmed
<1>8. ASSUME NEW s \in Sessions, NEW m \in Modes, StartMatch(s, m)
      PROVE  pending'[r] # Idle
  <2>1. PICK gone : /\ players' = players \ gone
                    /\ pending' = [AfterClose(gone) EXCEPT ![s] = Rearmed(s, players \ gone)]
    BY <1>8, MatchQueues
  <2> QED
    BY <1>1, <2>1 DEF AfterClose, Rearmed
<1>9. ASSUME NEW s \in Sessions, HandleError(s) \/ HandleUnexpected(s) \/ RefuseQueueJoin(s)
      PROVE  pending'[r] # Idle
  BY <1>4, <1>9 DEF HandleError, HandleUnexpected, RefuseQueueJoin
<1> QED
  BY <1>2, <1>3, <1>5, <1>6, <1>7, <1>8, <1>9
     DEF Next, HandlePlayerPacket, HandleQueueJoin, AcceptVanished, Stop, StartMatchCrashes, vars

(***************************************************************************)
(* A connected session always has a read that waits, or a completed one    *)
(* whose handler will run: no handler, of its own or of another session,   *)
(* breaks its chain of reads (PlayerPool.hpp:117-161) while it stays.      *)
(***************************************************************************)
THEOREM NoSessionIsDeaf == Spec => []NoDeafSession
<1>1. Init => NoDeafSession
  BY DEF Init, NoDeafSession
<1>2. TypeOK /\ NoDeafSession /\ [Next]_vars => NoDeafSession'
  BY StepKeepsHearing
<1> QED
  BY <1>1, <1>2, TypeCorrect, PTL DEF Spec

-----------------------------------------------------------------------------
(* Polite clients: the directory leads to the sessions that play *)

\* The reads differ in their type, and Authenticate packets in their token.
LEMMA ReadKinds ==
  /\ Idle.type = "Idle" /\ Armed.type = "Armed" /\ Failed.type = "Failed"
  /\ \A t : Authenticate(t).type = "Authenticate"
  /\ \A m : QueueJoin(m).type = "QueueJoin"
  /\ QueueLeave.type = "QueueLeave" /\ Unexpected.type = "Unexpected"
  /\ \A t, u : Authenticate(t) = Authenticate(u) => t = u
BY DEF Idle, Armed, Failed, Authenticate, QueueJoin, QueueLeave, Unexpected

(***************************************************************************)
(* _disconnectPlayer(s), with the token and the nickname that its info     *)
(* holds by then, keeps the invariant if the entry it erases is the only   *)
(* one of s and of nobody else.                                            *)
(***************************************************************************)
LEMMA DisconnectIsPolite ==
  ASSUME TypeOK, PoliteInv, NEW s \in accepted,
         NEW tok \in Tokens \cup {NoToken}, NEW n \in Keys,
         Disconnect(s, tok, n), UNCHANGED <<status, accepted>>,
         token' = [token EXCEPT ![s] = tok], nick' = [nick EXCEPT ![s] = n],
         s \in players => \A k \in Keys : identified[k] = s => k = n /\ tok # NoToken,
         \A r \in players \ {s} : s \in players /\ token[r] # NoToken => nick[r] # n
  PROVE  PoliteInv'
<1> USE DEF TypeOK
<1>1. /\ players' = players \ {s} /\ s \in Sessions
      /\ queues' \in [Modes -> SUBSET Sessions]
      /\ \A m \in Modes : queues'[m] = queues[m] \ {s}
      /\ \A r \in Sessions : r # s => /\ token'[r] = token[r] /\ nick'[r] = nick[r]
                                      /\ pending'[r] = pending[r]
      /\ pending'[s] = Idle
  BY DEF Disconnect, Remove, PoliteInv, QueuedAreAuthenticated
<1>2. \A k \in Keys : identified'[k] # Absent => /\ identified'[k] = identified[k]
                                                 /\ identified[k] # s
  BY DEF Disconnect, Erase, PoliteInv, DirectoryIsSound
<1>3. \A k \in Keys : k # n \/ s \notin players => identified'[k] = identified[k]
  BY DEF Disconnect, Erase
<1>4. status' # "crashed"
  BY DEF PoliteInv
<1>5. DirectoryIsSound'
  BY <1>1, <1>2 DEF PoliteInv, DirectoryIsSound
<1>6. DirectoryIsComplete'
  <2> SUFFICES ASSUME NEW r \in players', token'[r] # NoToken
               PROVE  nick'[r] \in Nicks /\ identified'[nick'[r]] = r
    BY DEF DirectoryIsComplete
  <2>1. r \in players \ {s} /\ token[r] # NoToken /\ nick'[r] = nick[r]
    BY <1>1
  <2>2. nick[r] \in Nicks /\ nick[r] \in Keys /\ identified[nick[r]] = r
    BY <2>1 DEF PoliteInv, DirectoryIsComplete
  <2>3. s \in players => nick[r] # n
    BY <2>1
  <2> QED
    BY <1>3, <2>1, <2>2, <2>3
<1>7. QueuedAreAuthenticated'
  BY <1>1 DEF PoliteInv, QueuedAreAuthenticated
<1>8. BlankUntilAuthenticated'
  BY <1>1 DEF PoliteInv, BlankUntilAuthenticated
<1>9. ReadsAreTimely'
  BY <1>1, ReadKinds DEF PoliteInv, ReadsAreTimely, Queued
<1>10. AccountsAreExclusive'
  BY <1>1, ReadKinds DEF PoliteInv, AccountsAreExclusive, Exclusive
<1> QED
  BY <1>4, <1>5, <1>6, <1>7, <1>8, <1>9, <1>10 DEF PoliteInv

\* A session that is disconnected with the token and nickname it had.
LEMMA LeavingIsPolite ==
  ASSUME TypeOK, PoliteInv, NEW s \in Sessions, pending[s] # Idle,
         Disconnect(s, token[s], nick[s]), UNCHANGED <<status, accepted, session>>
  PROVE  PoliteInv'
<1> USE DEF TypeOK
<1>1. s \in accepted /\ token[s] \in Tokens \cup {NoToken} /\ nick[s] \in Keys
  BY DEF PoliteInv, BlankUntilAuthenticated
<1>2. token' = [token EXCEPT ![s] = token[s]] /\ nick' = [nick EXCEPT ![s] = nick[s]]
  BY DEF session
<1>3. \A k \in Keys : identified[k] = s => k = nick[s] /\ token[s] # NoToken
  BY NullsAssumption DEF PoliteInv, DirectoryIsSound
<1>4. \A r \in players \ {s} : s \in players /\ token[r] # NoToken => nick[r] # nick[s]
  <2> SUFFICES ASSUME NEW r \in players \ {s}, s \in players, token[r] # NoToken,
                      nick[r] = nick[s]
               PROVE  FALSE
    OBVIOUS
  <2>1. identified[nick[s]] = r /\ nick[s] \in Nicks
    BY DEF PoliteInv, DirectoryIsComplete
  <2>2. token[s] = NoToken
    BY <2>1 DEF PoliteInv, DirectoryIsComplete
  <2>3. nick[s] = NoNick
    BY <2>2 DEF PoliteInv, BlankUntilAuthenticated
  <2> QED
    BY <2>1, <2>3, NullsAssumption
<1> QED
  BY <1>1, <1>2, <1>3, <1>4, DisconnectIsPolite

\* Authenticate keeps the invariant of polite clients.
LEMMA AuthenticateIsPolite ==
  ASSUME TypeOK, PoliteInv, NEW s \in Sessions, HandleAuthenticate(s)
  PROVE  PoliteInv'
<1> USE DEF TypeOK
<1>1. PICK t \in Tokens \cup {NoToken} :
        /\ pending[s] = Authenticate(t)
        /\ token' = [token EXCEPT ![s] = t]
        /\ AuthenticateOk(s, t) \/ AuthenticateFails(s, t)
        /\ UNCHANGED <<status, accepted>>
  BY DEF HandleAuthenticate
<1>2. s \in players /\ s \in accepted /\ token[s] = NoToken /\ nick[s] = NoNick
  BY <1>1, ReadKinds DEF PoliteInv, ReadsAreTimely, BlankUntilAuthenticated
<1>3. t \in Tokens => Exclusive(s, t) /\ Account[t] \in Nicks /\ Account[t] \in Keys
  BY <1>1, <1>2, AccountAssumption DEF PoliteInv, AccountsAreExclusive, Keys
<1>4. \A k \in Keys : identified[k] # s
  BY <1>2, NullsAssumption DEF PoliteInv, DirectoryIsSound
<1>5. ~Queued(s)
  BY <1>2 DEF PoliteInv, QueuedAreAuthenticated, Queued
<1>6. CASE AuthenticateOk(s, t)
  <2>1. /\ t \in Tokens /\ t # NoToken
        /\ nick' = [nick EXCEPT ![s] = Account[t]]
        /\ identified' = Emplaced(identified, Account[t], s)
        /\ pending' = [pending EXCEPT ![s] = Armed]
        /\ UNCHANGED <<status, accepted, players, queues>>
    BY <1>1, <1>2, <1>6, NullsAssumption DEF AuthenticateOk, Rearmed
  <2>2. identified[Account[t]] = Absent
    <3> SUFFICES ASSUME identified[Account[t]] # Absent PROVE FALSE
      OBVIOUS
    <3>1. /\ identified[Account[t]] \in players \ {s}
          /\ nick[identified[Account[t]]] = Account[t]
      BY <1>3, <1>4, <2>1 DEF PoliteInv, DirectoryIsSound
    <3> QED
      BY <1>3, <2>1, <3>1 DEF Exclusive
  <2>3. identified' = [identified EXCEPT ![Account[t]] = s]
    BY <2>1, <2>2 DEF Emplaced
  <2> DEFINE Same(r) == token'[r] = token[r] /\ nick'[r] = nick[r]
  <2>4. /\ token'[s] = t /\ nick'[s] = Account[t]
         /\ \A r \in Sessions : r # s => Same(r)
    BY <1>1, <2>1
  <2>5. DirectoryIsSound'
    <3> SUFFICES ASSUME NEW k \in Keys, identified'[k] # Absent
                 PROVE  /\ identified'[k] \in players
                        /\ nick'[identified'[k]] = k
                        /\ token'[identified'[k]] # NoToken
      BY <2>1 DEF DirectoryIsSound
    <3>1. CASE k = Account[t]
      BY <1>2, <1>3, <2>1, <2>3, <2>4, <3>1
    <3>2. CASE k # Account[t]
      <4>1. identified'[k] = identified[k] /\ identified[k] # s
        BY <1>4, <2>3, <3>2
      <4>2. /\ identified[k] \in players /\ nick[identified[k]] = k
            /\ token[identified[k]] # NoToken
        BY <4>1 DEF PoliteInv, DirectoryIsSound
      <4> QED
        BY <2>4, <4>1, <4>2
    <3> QED
      BY <3>1, <3>2
  <2>6. DirectoryIsComplete'
    <3> SUFFICES ASSUME NEW r \in players, token'[r] # NoToken
                 PROVE  nick'[r] \in Nicks /\ identified'[nick'[r]] = r
      BY <2>1 DEF DirectoryIsComplete
    <3>1. CASE r = s
      BY <1>3, <2>1, <2>3, <2>4, <3>1
    <3>2. CASE r # s
      <4>1. nick[r] \in Nicks /\ identified[nick[r]] = r /\ Same(r)
        BY <2>4, <3>2 DEF PoliteInv, DirectoryIsComplete
      <4>2. nick[r] # Account[t]
        BY <1>3, <2>1, <3>2 DEF Exclusive
      <4> QED
        BY <2>3, <4>1, <4>2
    <3> QED
      BY <3>1, <3>2
  <2>7. QueuedAreAuthenticated' /\ BlankUntilAuthenticated'
    BY <1>1, <1>2, <2>1 DEF PoliteInv, QueuedAreAuthenticated, BlankUntilAuthenticated
  <2>8. ReadsAreTimely'
    BY <1>1, <1>2, <2>1, ReadKinds DEF PoliteInv, ReadsAreTimely, Queued
  <2>9. AccountsAreExclusive'
    <3> SUFFICES ASSUME NEW r \in players, NEW u \in Tokens, pending'[r] = Authenticate(u),
                        NEW q \in players \ {r}
                 PROVE  /\ nick'[q] # Account[u]
                        /\ \A v \in Tokens : pending'[q] = Authenticate(v) => Account[v] # Account[u]
      BY <2>1 DEF AccountsAreExclusive, Exclusive
    <3>1. r # s /\ pending[r] = Authenticate(u)
      BY <2>1, ReadKinds
    <3>2. Exclusive(r, u)
      BY <3>1 DEF PoliteInv, AccountsAreExclusive
    <3>3. CASE q = s
      BY <1>1, <1>2, <2>1, <3>1, <3>2, <3>3, ReadKinds DEF Exclusive
    <3>4. CASE q # s
      BY <2>1, <3>2, <3>4 DEF Exclusive
    <3> QED
      BY <3>3, <3>4
  <2> QED
    BY <2>1, <2>5, <2>6, <2>7, <2>8, <2>9 DEF PoliteInv
<1>7. CASE AuthenticateFails(s, t)
  <2>1. PICK n \in {nick[s]} \cup {Account[u] : u \in {t} \cap Tokens} :
          nick' = [nick EXCEPT ![s] = n] /\ Disconnect(s, t, n)
    BY <1>7 DEF AuthenticateFails
  <2>2. n \in Keys
    BY <1>3
  <2>3. \A r \in players \ {s} : token[r] # NoToken => nick[r] # n
    BY <1>2, <1>3, NullsAssumption DEF PoliteInv, DirectoryIsComplete, Exclusive
  <2> QED
    BY <1>1, <1>2, <1>4, <2>1, <2>2, <2>3, DisconnectIsPolite
<1> QED
  BY <1>1, <1>6, <1>7

\* So does waiting in a queue that has no match yet.
LEMMA WaitingIsPolite ==
  ASSUME TypeOK, PoliteInv, NEW s \in Sessions, NEW m \in Modes, WaitInQueue(s, m)
  PROVE  PoliteInv'
<1> USE DEF TypeOK
<1>1. /\ pending[s] = QueueJoin(m) /\ token[s] # NoToken
      /\ queues' = [queues EXCEPT ![m] = queues[m] \cup {s}]
      /\ pending' = [pending EXCEPT ![s] = Rearmed(s, players)]
      /\ UNCHANGED <<status, accepted, players, identified, token, nick>>
  BY DEF WaitInQueue, Joined, AddPlayer, session
<1>2. s \in players
  BY <1>1, ReadKinds DEF PoliteInv, ReadsAreTimely
<1>3. pending' = [pending EXCEPT ![s] = Armed]
  BY <1>1, <1>2 DEF Rearmed
<1>4. DirectoryIsSound' /\ DirectoryIsComplete' /\ status' # "crashed"
  BY <1>1 DEF PoliteInv, DirectoryIsSound, DirectoryIsComplete
<1>5. QueuedAreAuthenticated' /\ BlankUntilAuthenticated'
  BY <1>1, <1>2 DEF PoliteInv, QueuedAreAuthenticated, BlankUntilAuthenticated
<1>6. ReadsAreTimely'
  BY <1>1, <1>2, <1>3, ReadKinds DEF PoliteInv, ReadsAreTimely, Queued
<1>7. AccountsAreExclusive'
  BY <1>1, <1>3, ReadKinds DEF PoliteInv, AccountsAreExclusive, Exclusive
<1> QED
  BY <1>4, <1>5, <1>6, <1>7 DEF PoliteInv

\* A player who is queued, or asks to be, is found under its own nickname.
LEMMA TargetIsSelf ==
  ASSUME TypeOK, PoliteInv, NEW p \in players, token[p] # NoToken
  PROVE  Target(p) = p /\ nick[p] \in Nicks
BY DEF PoliteInv, DirectoryIsComplete, Target

\* A match of polite clients finds a session for each of its players.
LEMMA PoliteMatchesStart ==
  ASSUME TypeOK, PoliteInv, NEW s \in Sessions, NEW m \in Modes
  PROVE  ~StartMatchCrashes(s, m)
<1> SUFFICES ASSUME StartMatchCrashes(s, m) PROVE FALSE
  OBVIOUS
<1>1. /\ pending[s] = QueueJoin(m) /\ token[s] # NoToken
      /\ CanStartMatch(AddPlayer(queues, s, m), m)
      /\ \E p \in Extracted(AddPlayer(queues, s, m), m) : Target(p) \notin Sessions
  BY DEF StartMatchCrashes, Joined
<1>2. PICK p \in queues[m] \cup {s} : Target(p) \notin Sessions
  BY <1>1, MatchTakesTheQueue DEF TypeOK
<1>3. p \in players /\ token[p] # NoToken
  BY <1>1, ReadKinds DEF PoliteInv, QueuedAreAuthenticated, ReadsAreTimely
<1> QED
  BY <1>2, <1>3, TargetIsSelf DEF TypeOK

(***************************************************************************)
(* The loop that disconnects the players of a match finds each of them     *)
(* under its own nickname: the sessions that go are the group.             *)
(***************************************************************************)
LEMMA PoliteMatch ==
  ASSUME TypeOK, PoliteInv, NEW s \in Sessions, NEW m \in Modes, StartMatch(s, m),
         NEW G, G = queues[m] \cup {s}
  PROVE  /\ \A p \in G : /\ p \in players /\ p \in Sessions /\ token[p] # NoToken
                         /\ Target(p) = p /\ nick[p] \in Nicks /\ identified[nick[p]] = p
         /\ identified' = AfterClosing(G, G)
         /\ players' = players \ G
         /\ queues' = [k \in Modes |-> [queues EXCEPT ![m] = {}][k] \ G]
         /\ pending' = [AfterClose(G) EXCEPT ![s] = Failed]
<1> USE DEF TypeOK
<1>1. pending[s] = QueueJoin(m) /\ token[s] # NoToken
  BY DEF StartMatch
<1>2. s \in players
  BY <1>1, ReadKinds DEF PoliteInv, ReadsAreTimely
<1>3. \A p \in G : /\ p \in players /\ p \in Sessions /\ token[p] # NoToken
                   /\ Target(p) = p /\ nick[p] \in Nicks /\ identified[nick[p]] = p
  <2>1. \A p \in G : p \in players /\ p \in Sessions /\ token[p] # NoToken
    BY <1>1, <1>2 DEF PoliteInv, QueuedAreAuthenticated
  <2> QED
    BY <2>1, TargetIsSelf DEF Target
<1>4. PICK C \in SUBSET G :
        /\ Closers(G, C)
        /\ identified' = AfterClosing(G, C)
        /\ players' = players \ {Target(p) : p \in C}
        /\ queues' = [k \in Modes |-> [queues EXCEPT ![m] = {}][k] \ {Target(p) : p \in C}]
        /\ pending' = [AfterClose({Target(p) : p \in C}) EXCEPT
                         ![s] = Rearmed(s, players \ {Target(p) : p \in C})]
  BY MatchQueues
<1>5. \A e \in G, p \in G : ~Spoils(e, p)
  <2> SUFFICES ASSUME NEW e \in G, NEW p \in G, Spoils(e, p) PROVE FALSE
    OBVIOUS
  <2>1. e < p /\ (e = p \/ nick[e] = nick[p])
    BY <1>3 DEF Spoils
  <2>2. e = p /\ e \in Nat
    BY <1>3, <2>1, SessionsAssumption
  <2> QED
    BY <2>1, <2>2
<1>6. C = G
  BY <1>3, <1>4, <1>5 DEF Closers
<1>7. {Target(p) : p \in C} = G
  BY <1>3, <1>6
<1>8. pending' = [AfterClose(G) EXCEPT ![s] = Failed]
  BY <1>4, <1>7 DEF Rearmed
<1> QED
  BY <1>3, <1>4, <1>6, <1>7, <1>8

\* So does a match.
LEMMA MatchIsPolite ==
  ASSUME TypeOK, PoliteInv, NEW s \in Sessions, NEW m \in Modes, StartMatch(s, m)
  PROVE  PoliteInv'
<1> DEFINE G == queues[m] \cup {s}
<1>1. /\ pending[s] = QueueJoin(m) /\ token[s] # NoToken
      /\ UNCHANGED <<status, accepted, token, nick>>
  BY DEF StartMatch, session
<1>2. s \in G
  OBVIOUS
<1>3. \A p \in G : /\ p \in players /\ p \in Sessions /\ token[p] # NoToken
                   /\ Target(p) = p /\ nick[p] \in Nicks /\ identified[nick[p]] = p
  BY PoliteMatch
<1>4. /\ identified' = AfterClosing(G, G)
      /\ players' = players \ G
      /\ queues' = [k \in Modes |-> [queues EXCEPT ![m] = {}][k] \ G]
      /\ pending' = [AfterClose(G) EXCEPT ![s] = Failed]
  BY PoliteMatch
<1>5. \A r \in G : r = s \/ r \in queues[m]
  OBVIOUS
<1> HIDE DEF G
<1> USE DEF TypeOK
<1>6. /\ players' = players \ G
      /\ \A k \in Modes : queues'[k] \subseteq queues[k] \ G
      /\ queues' \in [Modes -> SUBSET Sessions]
  BY <1>4
<1>7. /\ pending' \in [Sessions -> Reads]
      /\ pending'[s] = Failed
      /\ \A r \in Sessions : r # s =>
           pending'[r] = IF r \in G /\ pending[r] = Armed THEN Failed ELSE pending[r]
  <2>1. AfterClose(G) = [r \in Sessions |-> IF r \in G /\ pending[r] = Armed
                                           THEN Failed ELSE pending[r]]
    BY DEF AfterClose
  <2> QED
    BY <1>2, <1>4, <2>1, ReadsAreReads
<1>8. \A k \in Keys :
         identified'[k] = IF \E e \in G : nick[e] = k THEN Absent ELSE identified[k]
  <2> SUFFICES ASSUME NEW k \in Keys
               PROVE  identified'[k] = IF \E e \in G : nick[e] = k THEN Absent ELSE identified[k]
    OBVIOUS
  <2> DEFINE E == {e \in G : nick[Target(e)] = k /\ token[Target(e)] # NoToken}
  <2>1. identified'[k] = IF E = {} THEN identified[k]
                         ELSE IF \E p \in G : nick[p] = k /\ \A e \in E : e < p
                              THEN NullPtr ELSE Absent
    BY <1>4 DEF AfterClosing
  <2>2. E = {e \in G : nick[e] = k}
    BY <1>3
  <2>3. ~ \E p \in G : nick[p] = k /\ \A e \in E : e < p
    <3> SUFFICES ASSUME NEW p \in G, nick[p] = k, \A e \in E : e < p PROVE FALSE
      OBVIOUS
    <3>1. p \in E /\ p \in Nat
      BY <1>3, <2>2, SessionsAssumption
    <3> HIDE DEF E
    <3>2. p < p
      BY <3>1
    <3> QED
      BY <3>1, <3>2
  <2> HIDE DEF E
  <2> QED
    BY <2>1, <2>2, <2>3
<1>9. status' # "crashed"
  BY <1>1 DEF PoliteInv
<1>10. DirectoryIsSound'
  <2> SUFFICES ASSUME NEW k \in Keys, identified'[k] # Absent
               PROVE  /\ identified'[k] \in players'
                      /\ nick'[identified'[k]] = k
                      /\ token'[identified'[k]] # NoToken
    BY DEF DirectoryIsSound
  <2>1. identified'[k] = identified[k] /\ ~ \E e \in G : nick[e] = k
    BY <1>8
  <2>2. /\ identified[k] \in players /\ nick[identified[k]] = k
        /\ token[identified[k]] # NoToken
    BY <2>1 DEF PoliteInv, DirectoryIsSound
  <2> QED
    BY <1>1, <1>6, <2>1, <2>2
<1>11. DirectoryIsComplete'
  <2> SUFFICES ASSUME NEW r \in players', token'[r] # NoToken
               PROVE  nick'[r] \in Nicks /\ identified'[nick'[r]] = r
    BY DEF DirectoryIsComplete
  <2>1. /\ r \in players \ G /\ nick'[r] = nick[r] /\ nick[r] \in Nicks
        /\ identified[nick[r]] = r /\ nick[r] \in Keys
    BY <1>1, <1>6 DEF PoliteInv, DirectoryIsComplete
  <2>2. ~ \E e \in G : nick[e] = nick[r]
    BY <1>3, <2>1
  <2> QED
    BY <1>8, <2>1, <2>2
<1>12. QueuedAreAuthenticated'
  BY <1>1, <1>6 DEF PoliteInv, QueuedAreAuthenticated
<1>13. BlankUntilAuthenticated'
  <2>1. \A r \in Sessions \ accepted : r \notin G
    BY <1>3
  <2> QED
    BY <1>1, <1>2, <1>6, <1>7, <2>1 DEF PoliteInv, BlankUntilAuthenticated
<1>14. ReadsAreTimely'
  <2> SUFFICES ASSUME NEW r \in Sessions
               PROVE  /\ pending'[r] = Armed => r \in players'
                      /\ pending'[r].type = "Authenticate" => r \in players' /\ token'[r] = NoToken
                      /\ pending'[r].type = "QueueJoin" =>
                           r \in players' /\ \A k \in Modes : r \notin queues'[k]
    BY DEF ReadsAreTimely, Queued
  <2>1. CASE pending'[r] = Failed
    BY <2>1, ReadKinds
  <2>2. CASE pending'[r] = pending[r] /\ r # s /\ (r \in G => pending[r] # Armed)
    <3>1. r \in G => r \in queues[m]
      BY <1>5, <2>2
    <3>2. pending[r] = Armed => r \in players \ G
      BY <2>2 DEF PoliteInv, ReadsAreTimely
    <3>3. pending[r].type = "Authenticate" => r \in players \ G /\ token[r] = NoToken
      BY <1>3 DEF PoliteInv, ReadsAreTimely
    <3>4. pending[r].type = "QueueJoin" =>
            r \in players \ G /\ \A k \in Modes : r \notin queues[k]
      BY <3>1 DEF PoliteInv, ReadsAreTimely, Queued
    <3> QED
      BY <1>1, <1>6, <2>2, <3>2, <3>3, <3>4
  <2> QED
    BY <1>7, <2>1, <2>2
<1>15. AccountsAreExclusive'
  <2>1. \A r \in Sessions, u \in Tokens :
          pending'[r] = Authenticate(u) => pending[r] = Authenticate(u)
    BY <1>7, ReadKinds
  <2> QED
    BY <1>1, <1>6, <2>1 DEF PoliteInv, AccountsAreExclusive, Exclusive
<1> QED
  BY <1>9, <1>10, <1>11, <1>12, <1>13, <1>14, <1>15 DEF PoliteInv

\* A session that leaves its queue, or is in none, leaves the server.
LEMMA QueueLeaveIsPolite ==
  ASSUME TypeOK, PoliteInv, NEW s \in Sessions, HandleQueueLeave(s)
  PROVE  PoliteInv'
<1>1. s \notin players => Remove(queues, s) = queues
  BY DEF PoliteInv, QueuedAreAuthenticated, Remove, TypeOK
<1>2. Disconnect(s, token[s], nick[s])
  BY <1>1 DEF HandleQueueLeave, Disconnect
<1>3. pending[s] # Idle /\ UNCHANGED <<status, accepted, session>>
  BY ReadKinds DEF HandleQueueLeave
<1> QED
  BY <1>2, <1>3, LeavingIsPolite

\* A packet of a polite client.
LEMMA ReceiveIsPolite ==
  ASSUME Unruly = {}, TypeOK, PoliteInv, NEW s \in Sessions, NEW packet \in Packets,
         Receive(s, packet)
  PROVE  PoliteInv'
<1> USE DEF TypeOK
<1>1. /\ pending[s] = Armed /\ Permitted(s, packet)
      /\ pending' = [pending EXCEPT ![s] = packet]
      /\ UNCHANGED <<status, accepted, players, identified, token, nick, queues>>
  BY DEF Receive, session
<1>2. s \in players /\ s \in accepted
  BY <1>1 DEF PoliteInv, ReadsAreTimely
<1>3. packet.type = "Authenticate" =>
        /\ token[s] = NoToken
        /\ packet.token \in Tokens => Exclusive(s, packet.token)
  BY <1>1 DEF Permitted
<1>4. packet.type = "QueueJoin" => ~Queued(s)
  BY <1>1 DEF Permitted
<1>5. packet # Armed
  BY ReadKinds DEF Packets
<1>6. /\ status' # "crashed" /\ DirectoryIsSound' /\ DirectoryIsComplete'
      /\ QueuedAreAuthenticated' /\ BlankUntilAuthenticated'
  BY <1>1, <1>2 DEF PoliteInv, DirectoryIsSound, DirectoryIsComplete,
                    QueuedAreAuthenticated, BlankUntilAuthenticated
<1>7. ReadsAreTimely'
  BY <1>1, <1>2, <1>3, <1>4, <1>5 DEF PoliteInv, ReadsAreTimely, Queued
<1>8. AccountsAreExclusive'
  <2> SUFFICES ASSUME NEW r \in players, NEW t \in Tokens, pending'[r] = Authenticate(t),
                      NEW q \in players \ {r}
               PROVE  /\ nick[q] # Account[t]
                      /\ \A u \in Tokens : pending'[q] = Authenticate(u) => Account[u] # Account[t]
    BY <1>1 DEF AccountsAreExclusive, Exclusive
  <2>1. \A u \in Tokens : packet = Authenticate(u) => Exclusive(s, u)
    BY <1>3 DEF Authenticate
  <2>2. CASE r = s
    BY <1>1, <2>1, <2>2 DEF Exclusive
  <2>3. CASE r # s
    <3>1. Exclusive(r, t)
      BY <1>1, <2>3 DEF PoliteInv, AccountsAreExclusive
    <3>2. CASE q = s
      BY <1>1, <2>1, <2>3, <3>1, <3>2 DEF Exclusive
    <3>3. CASE q # s
      BY <1>1, <3>1, <3>3 DEF Exclusive
    <3> QED
      BY <3>2, <3>3
  <2> QED
    BY <2>2, <2>3
<1> QED
  BY <1>6, <1>7, <1>8 DEF PoliteInv

\* So does every step.
LEMMA StepIsPolite ==
  Unruly = {} /\ TypeOK /\ PoliteInv /\ [Next]_vars => PoliteInv'
<1> SUFFICES ASSUME Unruly = {}, TypeOK, PoliteInv, [Next]_vars PROVE PoliteInv'
  OBVIOUS
<1>1. CASE UNCHANGED vars
  BY <1>1 DEF vars, session, PoliteInv, DirectoryIsSound, DirectoryIsComplete,
              QueuedAreAuthenticated, BlankUntilAuthenticated, ReadsAreTimely,
              AccountsAreExclusive, Exclusive, Queued
<1>2. CASE Stop
  BY <1>2 DEF Stop, session, PoliteInv, DirectoryIsSound, DirectoryIsComplete,
              QueuedAreAuthenticated, BlankUntilAuthenticated, ReadsAreTimely,
              AccountsAreExclusive, Exclusive, Queued
<1>3. ~AcceptVanished
  BY DEF AcceptVanished
<1>4. ASSUME NEW s \in Sessions, Accept(s) PROVE PoliteInv'
  <2>1. /\ s \notin accepted /\ players' = players \cup {s} /\ accepted' = accepted \cup {s}
        /\ pending' = [pending EXCEPT ![s] = Armed]
        /\ UNCHANGED <<status, identified, token, nick, queues>>
    BY <1>4 DEF Accept, session
  <2>2. s \notin players /\ token[s] = NoToken /\ nick[s] = NoNick
    BY <2>1 DEF PoliteInv, BlankUntilAuthenticated, TypeOK
  <2>3. \A t \in Tokens : Account[t] # NoNick
    BY AccountAssumption, NullsAssumption
  <2>4. status' # "crashed" /\ DirectoryIsSound' /\ DirectoryIsComplete'
    BY <2>1, <2>2 DEF PoliteInv, DirectoryIsSound, DirectoryIsComplete
  <2>5. QueuedAreAuthenticated' /\ BlankUntilAuthenticated'
    BY <2>1, <2>2 DEF PoliteInv, QueuedAreAuthenticated, BlankUntilAuthenticated, TypeOK
  <2>6. ReadsAreTimely'
    BY <2>1, <2>2, ReadKinds DEF PoliteInv, ReadsAreTimely, Queued, TypeOK
  <2>7. AccountsAreExclusive'
    BY <2>1, <2>2, <2>3, ReadKinds DEF PoliteInv, AccountsAreExclusive, Exclusive, TypeOK
  <2> QED
    BY <2>4, <2>5, <2>6, <2>7 DEF PoliteInv
<1>5. ASSUME NEW s \in Sessions, NEW packet \in Packets, Receive(s, packet) PROVE PoliteInv'
  BY <1>5, ReceiveIsPolite
<1>6. ASSUME NEW s \in Sessions, PeerClose(s) PROVE PoliteInv'
  <2>1. /\ pending[s] = Armed /\ pending' = [pending EXCEPT ![s] = Failed]
        /\ UNCHANGED <<status, accepted, players, identified, token, nick, queues>>
    BY <1>6 DEF PeerClose, session
  <2>2. s \in accepted
    BY <2>1, ReadKinds DEF PoliteInv, BlankUntilAuthenticated
  <2>3. /\ status' # "crashed" /\ DirectoryIsSound' /\ DirectoryIsComplete'
        /\ QueuedAreAuthenticated' /\ BlankUntilAuthenticated'
    BY <2>1, <2>2 DEF PoliteInv, DirectoryIsSound, DirectoryIsComplete,
                      QueuedAreAuthenticated, BlankUntilAuthenticated, TypeOK
  <2>4. ReadsAreTimely' /\ AccountsAreExclusive'
    BY <2>1, ReadKinds DEF PoliteInv, ReadsAreTimely, AccountsAreExclusive, Exclusive,
                           Queued, TypeOK
  <2> QED
    BY <2>3, <2>4 DEF PoliteInv
<1>7. ASSUME NEW s \in Sessions, HandleError(s) \/ HandleUnexpected(s) \/ RefuseQueueJoin(s)
      PROVE  PoliteInv'
  <2>1. /\ Disconnect(s, token[s], nick[s]) /\ UNCHANGED <<status, accepted, session>>
        /\ pending[s] # Idle
    BY <1>7, ReadKinds DEF HandleError, HandleUnexpected, RefuseQueueJoin
  <2> QED
    BY <2>1, LeavingIsPolite
<1>8. ASSUME NEW s \in Sessions, NEW m \in Modes PROVE ~StartMatchCrashes(s, m)
  BY PoliteMatchesStart
<1> QED
  BY <1>1, <1>2, <1>3, <1>4, <1>5, <1>6, <1>7, <1>8, AuthenticateIsPolite,
     QueueLeaveIsPolite, WaitingIsPolite, MatchIsPolite
     DEF Next, HandlePlayerPacket, HandleQueueJoin

\* The invariant of polite clients holds of a server without clients.
LEMMA InitIsPolite == Init => PoliteInv
BY ReadKinds, NullsAssumption
   DEF Init, PoliteInv, DirectoryIsSound, DirectoryIsComplete, QueuedAreAuthenticated,
       BlankUntilAuthenticated, ReadsAreTimely, AccountsAreExclusive, NoQueues

(***************************************************************************)
(* With polite clients, the directory of identified players and the        *)
(* authenticated sessions stay inverse to each other (PlayerPool.hpp:58-65 *)
(* and 132-140), and nothing that was read or queued outlives them.        *)
(***************************************************************************)
THEOREM PoliteClientsKeepTheDirectory ==
  ASSUME Unruly = {} PROVE Spec => []PoliteInv
<1>1. Init => PoliteInv
  BY InitIsPolite
<1>2. TypeOK /\ PoliteInv /\ [Next]_vars => PoliteInv'
  BY StepIsPolite
<1> QED
  BY <1>1, <1>2, TypeCorrect, PTL DEF Spec

(***************************************************************************)
(* With polite clients, _startMatch() (PlayerPool.hpp:82-115) never        *)
(* dereferences a null session.                                            *)
(***************************************************************************)
THEOREM PoliteClientsNeverCrashTheServer ==
  ASSUME Unruly = {} PROVE Spec => []NeverCrashes
<1>1. PoliteInv => NeverCrashes
  BY DEF PoliteInv, NeverCrashes
<1> QED
  BY <1>1, PoliteClientsKeepTheDirectory, PTL

(***************************************************************************)
(* With polite clients, whoever waits in a queue is connected, and is the  *)
(* session that its nickname leads to.                                     *)
(***************************************************************************)
THEOREM PoliteClientsAreReachable ==
  ASSUME Unruly = {} PROVE Spec => []QueuedAreReachable
<1>1. TypeOK /\ PoliteInv => QueuedAreReachable
  BY TargetIsSelf DEF PoliteInv, QueuedAreAuthenticated, QueuedAreReachable
<1> QED
  BY <1>1, PoliteClientsKeepTheDirectory, TypeCorrect, PTL
=============================================================================
