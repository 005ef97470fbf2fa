----------------------------- MODULE GameProofs -----------------------------
(***************************************************************************)
(* A game server implements Game, and announces its players together; in   *)
(* a game of polite players all of them hear of each other and may move.   *)
(***************************************************************************)
EXTENDS GameServerProofs

-----------------------------------------------------------------------------
(* Announcements *)

\* The announcements of a sequence are counted one by one.
LEMMA AnnouncementsAppended ==
  ASSUME NEW q \in Seq(Notices), NEW e \in Notices
  PROVE  /\ IsFiniteSet(Announcements(q)) /\ Cardinality(Announcements(q)) \in Nat
         /\ Announcements(Append(q, e)) =
              Announcements(q) \cup (IF e.type = "CreatePlayer" THEN {Len(q) + 1} ELSE {})
         /\ Cardinality(Announcements(Append(q, e))) =
              Cardinality(Announcements(q)) + (IF e.type = "CreatePlayer" THEN 1 ELSE 0)
<1> DEFINE n == Len(q)
           p == Append(q, e)
<1>1. /\ n \in Nat /\ DOMAIN q = 1..n /\ DOMAIN p = 1..(n + 1)
      /\ \A i \in 1..n : p[i] = q[i]
      /\ p[n + 1] = e
  BY Appended
<1>2. IsFiniteSet(1..n) /\ Announcements(q) \subseteq 1..n
  <2>1. 1 \in Int /\ n \in Int
    BY <1>1
  <2> QED
    BY <1>1, <2>1, FS_Interval DEF Announcements
<1>3. IsFiniteSet(Announcements(q)) /\ Cardinality(Announcements(q)) \in Nat
  BY <1>2, FS_Subset, FS_CardinalityType
<1>4. \A i : i \in 1..(n + 1) <=> i \in 1..n \/ i = n + 1
  BY <1>1
<1> HIDE DEF n, p
<1>5. Announcements(p) = Announcements(q) \cup (IF e.type = "CreatePlayer" THEN {n + 1} ELSE {})
  BY <1>1, <1>4 DEF Announcements
<1>6. n + 1 \notin Announcements(q)
  BY <1>1, <1>2
<1>7. Cardinality(Announcements(p)) =
        Cardinality(Announcements(q)) + (IF e.type = "CreatePlayer" THEN 1 ELSE 0)
  <2>1. CASE e.type = "CreatePlayer"
    BY <1>3, <1>5, <1>6, <2>1, FS_AddElement
  <2>2. CASE e.type # "CreatePlayer"
    BY <1>3, <1>5, <2>2
  <2> QED
    BY <2>1, <2>2
<1> QED
  BY <1>3, <1>5, <1>7 DEF n, p

\* Taking the first notice takes its announcement, and no other.
LEMMA AnnouncementsTaken ==
  ASSUME NEW q \in Seq(Notices), q # <<>>
  PROVE  /\ Cardinality(Announcements(q)) \in Nat /\ Cardinality(Announcements(Tail(q))) \in Nat
         /\ Cardinality(Announcements(q)) =
              Cardinality(Announcements(Tail(q)))
                + (IF Head(q).type = "CreatePlayer" THEN 1 ELSE 0)
         /\ Announcements(q) = {} =>
              Announcements(Tail(q)) = {} /\ Head(q).type # "CreatePlayer"
<1> DEFINE r == Tail(q)
           m == Len(r)
           A == Announcements(q)
           B == Announcements(r)
           C == A \ {1}
           f == [i \in B |-> i + 1]
<1>1. /\ r \in Seq(Notices) /\ m \in Nat /\ DOMAIN r = 1..m
      /\ Len(q) = m + 1 /\ DOMAIN q = 1..(m + 1)
      /\ Head(q) = q[1] /\ \A i \in 1..m : r[i] = q[i + 1]
  <2>1. /\ r \in Seq(Notices) /\ Len(r) = Len(q) - 1 /\ \A i \in 1..Len(r) : r[i] = q[i + 1]
    BY HeadTailProperties
  <2>2. Len(q) \in Nat /\ DOMAIN q = 1..Len(q) /\ Len(r) \in Nat /\ DOMAIN r = 1..Len(r)
    BY <2>1, LenProperties
  <2> QED
    BY <2>1, <2>2, Taken
<1> HIDE DEF r, m
<1>2. /\ IsFiniteSet(A) /\ IsFiniteSet(B)
      /\ A \subseteq 1..(m + 1) /\ B \subseteq 1..m
  <2>1. 1 \in Int /\ m \in Int /\ m + 1 \in Int
    BY <1>1
  <2>2. IsFiniteSet(1..m) /\ IsFiniteSet(1..(m + 1))
    BY <2>1, FS_Interval
  <2>3. A \subseteq 1..(m + 1) /\ B \subseteq 1..m
    BY <1>1 DEF Announcements
  <2> QED
    BY <2>2, <2>3, FS_Subset
<1>3. \A i \in 1..m : i \in B <=> i + 1 \in A
  BY <1>1 DEF Announcements
<1>4. 1 \in A <=> Head(q).type = "CreatePlayer"
  <2>1. 1 \in 1..(m + 1)
    BY <1>1
  <2> QED
    BY <1>1, <2>1 DEF Announcements
<1> HIDE DEF A, B
<1>5. f \in Bijection(B, C)
  <2>1. \A i \in B : i \in 1..m /\ i + 1 \in C
    BY <1>1, <1>2, <1>3 DEF C
  <2>2. \A j \in C : j - 1 \in B /\ f[j - 1] = j
    <3> SUFFICES ASSUME NEW j \in C PROVE j - 1 \in B /\ f[j - 1] = j
      OBVIOUS
    <3>1. j \in 1..(m + 1) /\ j # 1 /\ j \in A
      BY <1>2 DEF C
    <3>2. j - 1 \in 1..m /\ (j - 1) + 1 = j
      BY <1>1, <3>1
    <3> QED
      BY <1>3, <3>1, <3>2
  <2>3. f \in [B -> C]
    BY <2>1
  <2>4. \A i, j \in B : f[i] = f[j] => i = j
    BY <1>2
  <2> QED
    BY <2>2, <2>3, <2>4 DEF Bijection, Injection, Surjection, IsInjective
<1>6. IsFiniteSet(C) /\ Cardinality(C) = Cardinality(B)
  <2> HIDE DEF f, C
  <2>1. ExistsBijection(B, C) /\ IsFiniteSet(B)
    BY <1>2, <1>5 DEF ExistsBijection
  <2> QED
    BY <2>1, FS_Bijection
<1>7. /\ Cardinality(A) = Cardinality(C) + (IF 1 \in A THEN 1 ELSE 0)
      /\ Cardinality(A) \in Nat /\ Cardinality(B) \in Nat
  <2>1. CASE 1 \in A
    <3>1. Cardinality(C) = Cardinality(A) - 1
      BY <1>2, <2>1, FS_RemoveElement
    <3> QED
      BY <1>2, <2>1, <3>1, FS_CardinalityType
  <2>2. CASE 1 \notin A
    <3>1. C = A
      BY <2>2
    <3>2. Cardinality(A) \in Nat /\ Cardinality(B) \in Nat
      BY <1>2, FS_CardinalityType
    <3> HIDE DEF C
    <3> QED
      BY <2>2, <3>1, <3>2
  <2> QED
    BY <2>1, <2>2
<1>8. A = {} => B = {} /\ 1 \notin A
  BY <1>2, <1>3
<1> QED
  BY <1>4, <1>6, <1>7, <1>8 DEF A, B, r

\* Short sequences of notices.
LEMMA FewAnnouncements ==
  /\ <<>> \in Seq(Notices) /\ Announcements(<<>>) = {} /\ Cardinality(Announcements(<<>>)) = 0
  /\ \A n \in Names : Announcements(<<SetPosition(n)>>) = {}
<1>1. Announcements(<<>>) = {}
  BY DEF Announcements
<1>2. \A n \in Names : Announcements(<<SetPosition(n)>>) = {}
  BY NoticeKinds DEF Announcements, SetPosition
<1> QED
  BY <1>1, <1>2, FS_EmptySet

-----------------------------------------------------------------------------
(* All the players are announced, together *)

\* What a step does to the players and to the notices.
LEMMA OnlyTheseMakeNotices ==
  ASSUME TypeInv, [Next]_vars
  PROVE  \/ UNCHANGED <<players, outbox, published>>
         \/ /\ outbox = <<>> /\ UNCHANGED published
            /\ \E entry \in Entries : AuthenticateOk(entry) \/ HandleMove(entry)
         \/ BroadcastEnds
<1>1. CASE HandlePacket
  <2> DEFINE entry == Head(queue)
  <2>1. /\ HandleAuthenticate(entry) \/ HandleMove(entry)
        /\ pc = "drain" /\ UNCHANGED published
    BY <1>1 DEF HandlePacket
  <2>2. entry \in Entries
    BY <1>1, Taken DEF HandlePacket, TypeInv, TypeOK
  <2> HIDE DEF entry
  <2>3. outbox = <<>>
    BY <2>1 DEF TypeInv, OutboxIsSent
  <2> QED
    BY <2>1, <2>2, <2>3 DEF HandleAuthenticate, AuthenticateFails, AuthenticateRefused
<1>2. CASE ChangesPhase
  BY <1>2, OnlyThePhase DEF broadcast
<1>3. CASE ~HandlePacket /\ ~BroadcastEnds /\ ~ChangesPhase
  BY <1>3 DEF ChangesPhase, Next, Stop, AcceptError, Accept, Receive, PeerClose, IoStep,
              IoPacket, IoError, GameStep, BroadcastBegins, BroadcastWrites, vars, broadcast
<1> QED
  BY <1>1, <1>2, <1>3

\* The notice that a broadcast has brought to its end.
LEMMA NoticePublished ==
  ASSUME TypeInv, BroadcastEnds
  PROVE  /\ outbox # <<>> /\ Head(outbox) \in Notices /\ Head(outbox) = outbox[1]
         /\ 1 \in DOMAIN outbox
         /\ outbox' = Tail(outbox) /\ published' = Append(published, Head(outbox))
         /\ outbox' \in Seq(Notices)
         /\ \A i \in DOMAIN outbox' : i + 1 \in DOMAIN outbox /\ outbox'[i] = outbox[i + 1]
         /\ UNCHANGED players
<1>1. /\ outbox # <<>> /\ outbox \in Seq(Notices)
      /\ outbox' = Tail(outbox) /\ published' = Append(published, Head(outbox))
      /\ UNCHANGED players
  BY DEF BroadcastEnds, Iterating, TypeInv, OutboxIsSent, TypeOK
<1> QED
  BY <1>1, Taken

(***************************************************************************)
(* The invariant behind the announcements: either every ship waits for the *)
(* others in _players, or there is no token left to wait for.              *)
(***************************************************************************)
AnnouncedOrWaiting ==
  \/ /\ Len(batch) = Cardinality(created)
     /\ Announcements(outbox) = {} /\ Announcements(published) = {}
  \/ batch = <<>> /\ authToks = {}

\* The player who comes waits for the others, or is the last of them.
LEMMA LastOrWaiting ==
  ASSUME TypeInv, AnnouncedOrWaiting, NEW entry \in Entries, AuthenticateOk(entry)
  PROVE  LET all == Append(batch, CreatePlayer(ShipOf(entry).nick))
         IN  /\ CreatePlayer(ShipOf(entry).nick) \in Notices
             /\ Len(batch) = Cardinality(created)
             /\ Announcements(outbox) = {} /\ Announcements(published) = {}
             /\ \/ batch' = all /\ outbox' = <<>> /\ Len(all) = Cardinality(created')
                \/ batch' = <<>> /\ outbox' = all /\ authToks' = {}
<1> DEFINE n == ShipOf(entry).nick
           t == entry.packet.token
           all == Append(batch, CreatePlayer(n))
<1>1. n = NickOf[t]
  BY DEF ShipOf
<1>2. /\ t \in authToks /\ n \in Nicks /\ authToks' = authToks \ {t}
      /\ created' = created \cup {ShipOf(entry)}
  BY <1>1, TokenBecomesShip DEF ShipOf
<1>3. /\ batch' = IF BatchComplete(all) THEN <<>> ELSE all
      /\ outbox' = IF BatchComplete(all) THEN all ELSE <<>>
  BY <1>1 DEF AuthenticateOk
<1>4. CreatePlayer(n) \in Notices
  BY <1>2, NoticeKinds
<1> HIDE DEF n, t
<1>5. Len(all) = Len(batch) + 1 /\ Len(batch) \in Nat
  BY <1>4, Appended DEF TypeInv, TypeOK
<1> HIDE DEF all
<1>6. /\ Len(batch) = Cardinality(created)
      /\ Announcements(outbox) = {} /\ Announcements(published) = {}
  BY <1>2 DEF AnnouncedOrWaiting
<1>7. /\ IsFiniteSet(authToks) /\ Cardinality(authToks) \in Nat /\ Cardinality(created) \in Nat
      /\ Cardinality(authToks \ {t}) = Cardinality(authToks) - 1
      /\ Cardinality(created') = Cardinality(created) + 1
  <2>1. ShipOf(entry).id = NextID
    BY DEF ShipOf
  <2> QED
    BY <1>2, <2>1, OneMoreShip
<1>8. CASE BatchComplete(all)
  <2>1. Len(all) = Mode + 1
    BY <1>8 DEF BatchComplete
  <2>2. /\ Cardinality(created) + Cardinality(authToks) = Cardinality(Tokens)
        /\ Cardinality(Tokens) <= Mode + 1 /\ Cardinality(Tokens) \in Nat /\ Mode \in Nat
    BY Counts, ModeAssumption DEF TypeInv, TokensBecomeShips
  <2>3. Cardinality(authToks) >= 1
    <3>1. Cardinality(authToks \ {t}) \in Nat
      BY <1>7, FS_RemoveElement, FS_CardinalityType
    <3> QED
      BY <1>7, <3>1
  <2>4. Cardinality(authToks') = 0
    BY <1>2, <1>5, <1>6, <1>7, <2>1, <2>2, <2>3
  <2>5. IsFiniteSet(authToks')
    BY <1>2, <1>7, FS_RemoveElement
  <2>6. authToks' = {}
    BY <2>4, <2>5, FS_EmptySet
  <2> QED
    BY <1>3, <1>4, <1>6, <1>8, <2>6 DEF n, all
<1>9. CASE ~BatchComplete(all)
  BY <1>3, <1>4, <1>5, <1>6, <1>7, <1>9 DEF n, all
<1> QED
  BY <1>8, <1>9

\* Every step keeps each ship announced once, or about to be.
LEMMA StepAnnounced ==
  TypeInv /\ AnnouncedOrWaiting /\ PlayersAnnouncedTogether /\ [Next]_vars =>
    (AnnouncedOrWaiting /\ PlayersAnnouncedTogether)'
<1> DEFINE count(q) == Cardinality(Announcements(q))
<1> SUFFICES ASSUME TypeInv, AnnouncedOrWaiting, PlayersAnnouncedTogether, [Next]_vars
             PROVE  /\ AnnouncedOrWaiting'
                    /\ count(published') + count(outbox') + count(batch') = Cardinality(created')
  BY DEF PlayersAnnouncedTogether, AnnouncedOrWaiting
<1>0. /\ batch \in Seq(Notices) /\ outbox \in Seq(Notices) /\ published \in Seq(Notices)
      /\ count(published) + count(outbox) + count(batch) = Cardinality(created)
      /\ count(<<>>) = 0
  BY FewAnnouncements DEF TypeInv, TypeOK, PlayersAnnouncedTogether
<1>1. CASE UNCHANGED <<players, outbox, published>>
  BY <1>0, <1>1 DEF AnnouncedOrWaiting, players
<1>2. ASSUME outbox = <<>>, UNCHANGED published, NEW entry \in Entries, AuthenticateOk(entry)
      PROVE  /\ AnnouncedOrWaiting'
             /\ count(published') + count(outbox') + count(batch') = Cardinality(created')
  <2> DEFINE e == CreatePlayer(ShipOf(entry).nick)
             all == Append(batch, e)
  <2>1. /\ e \in Notices /\ e.type = "CreatePlayer"
        /\ Len(batch) = Cardinality(created) /\ Announcements(published) = {}
        /\ \/ batch' = all /\ outbox' = <<>> /\ Len(all) = Cardinality(created')
           \/ batch' = <<>> /\ outbox' = all /\ authToks' = {}
    BY <1>2, LastOrWaiting, NoticeKinds
  <2>2. count(all) = count(batch) + 1 /\ count(batch) \in Nat
    BY <1>0, <2>1, AnnouncementsAppended
  <2>3. Cardinality(created') = Cardinality(created) + 1
    <3>1. ShipOf(entry).id = NextID /\ entry.packet.token \in authToks
      BY <1>2 DEF ShipOf, AuthenticateOk
    <3> QED
      BY <1>2, <3>1, OneMoreShip, TokenBecomesShip
  <2> HIDE DEF e, all
  <2>4. AnnouncedOrWaiting'
    BY <1>2, <2>1, FewAnnouncements DEF AnnouncedOrWaiting
  <2> HIDE DEF count
  <2>5. count(published) \in Nat
    BY <1>0, AnnouncementsAppended, FewAnnouncements, <2>1, FS_EmptySet DEF count
  <2>6. count(batch) + count(published) = Cardinality(created)
    BY <1>0, <1>2, <2>2, <2>5
  <2> QED
    BY <1>0, <1>2, <2>1, <2>2, <2>3, <2>4, <2>5, <2>6
<1>3. ASSUME outbox = <<>>, UNCHANGED published, NEW entry \in Entries, HandleMove(entry)
      PROVE  /\ AnnouncedOrWaiting'
             /\ count(published') + count(outbox') + count(batch') = Cardinality(created')
  <2> DEFINE n == entry.packet.ettName
  <2>1. n \in Names
    <3>1. entry.packet \in Packets /\ entry.packet.type = "Move"
      BY <1>3 DEF HandleMove, Entries
    <3> QED
      BY <3>1, ReadKinds
  <2>2. /\ UNCHANGED <<authToks, created, batch>>
        /\ outbox' = <<SetPosition(n)>> \/ outbox' = outbox
    BY <1>3 DEF HandleMove
  <2>3. Announcements(outbox') = {} /\ count(outbox') = 0
    BY <1>3, <2>1, <2>2, FewAnnouncements, FS_EmptySet
  <2> QED
    BY <1>0, <1>3, <2>2, <2>3 DEF AnnouncedOrWaiting
<1>4. CASE BroadcastEnds
  <2> DEFINE h == Head(outbox)
  <2>1. /\ outbox # <<>> /\ h \in Notices /\ UNCHANGED players
        /\ outbox' = Tail(outbox) /\ published' = Append(published, h)
    BY <1>4, NoticePublished
  <2>2. /\ count(outbox) \in Nat /\ count(outbox') \in Nat
        /\ count(outbox) = count(outbox') + (IF h.type = "CreatePlayer" THEN 1 ELSE 0)
        /\ Announcements(outbox) = {} =>
             Announcements(outbox') = {} /\ h.type # "CreatePlayer"
    BY <1>0, <2>1, AnnouncementsTaken
  <2>3. /\ count(published) \in Nat
        /\ count(published') = count(published) + (IF h.type = "CreatePlayer" THEN 1 ELSE 0)
        /\ h.type # "CreatePlayer" => Announcements(published') = Announcements(published)
    BY <1>0, <2>1, AnnouncementsAppended
  <2>4. AnnouncedOrWaiting'
    BY <2>1, <2>2, <2>3 DEF AnnouncedOrWaiting, players
  <2> HIDE DEF count, h
  <2>5. count(batch') = count(batch) /\ Cardinality(created') = Cardinality(created)
    BY <2>1 DEF players
  <2>6. count(batch) \in Nat
    BY <1>0, <2>1, AnnouncementsAppended DEF count
  <2>7. count(published') + count(outbox') + count(batch') = Cardinality(created')
    BY <1>0, <2>2, <2>3, <2>5, <2>6
  <2> QED
    BY <2>4, <2>7 DEF count
<1> QED
  BY <1>1, <1>2, <1>3, <1>4, OnlyTheseMakeNotices

\* The invariant of the announcements.
LEMMA AnnouncedHolds == Spec => [](TypeInv /\ AnnouncedOrWaiting /\ PlayersAnnouncedTogether)
<1>1. Init => AnnouncedOrWaiting /\ PlayersAnnouncedTogether
  <2> SUFFICES ASSUME Init PROVE AnnouncedOrWaiting /\ PlayersAnnouncedTogether
    OBVIOUS
  <2>1. batch = <<>> /\ outbox = <<>> /\ published = <<>> /\ created = {}
    BY DEF Init
  <2>2. Len(batch) = 0 /\ Cardinality(created) = 0
    BY <2>1, FS_EmptySet
  <2> QED
    BY <2>1, <2>2, FewAnnouncements DEF AnnouncedOrWaiting, PlayersAnnouncedTogether
<1> QED
  BY <1>1, InitTypes, StepTypes, StepAnnounced, PTL DEF Spec

(***************************************************************************)
(* For any mode and any connections, every ship has one CreatePlayer,      *)
(* waiting in _players, on its way or broadcast; and none is broadcast as  *)
(* long as a token is expected.                                            *)
(***************************************************************************)
THEOREM PlayersHearOfEachOther == Spec => []PlayersAnnouncedTogether
BY AnnouncedHolds, PTL

-----------------------------------------------------------------------------
(* The refinement *)

\* Seats of Game: what a ship keeps for good.
SeatOf(s) == [from |-> s.from, token |-> s.token, nick |-> s.nick]
Seats == {SeatOf(s) : s \in created}
Mapped == <<authToks, Seats, published>>

\* The notices that a move of a ship may have: its name, or no name.
MovesOf(s) == {SetPosition(n) : n \in {s.nick, NoName}}

(***************************************************************************)
(* The invariant behind the refinement: what waits in _players announces   *)
(* ships, each once; what is on its way tells of ships, under their name   *)
(* or none, and announces each once, and none that was announced before.   *)
(***************************************************************************)
NoticesAreOfSeats ==
  /\ \A i \in DOMAIN batch : \E s \in created : batch[i] = CreatePlayer(s.nick)
  /\ \A i, j \in DOMAIN batch : batch[i] = batch[j] => i = j
  /\ \A i \in DOMAIN outbox : \E s \in created :
       \/ outbox[i] = CreatePlayer(s.nick) /\ outbox[i] \notin ToSet(published)
       \/ outbox[i] \in MovesOf(s)
  /\ \A i, j \in DOMAIN outbox : outbox[i] = outbox[j] => i = j

\* A sequence that grows has what it had, and the new element.
LEMMA GrownSequence ==
  ASSUME NEW q \in Seq(Notices), NEW e \in Notices
  PROVE  \A i \in DOMAIN Append(q, e) :
           \/ i \in DOMAIN q /\ Append(q, e)[i] = q[i]
           \/ i = Len(q) + 1 /\ Append(q, e)[i] = e
<1> DEFINE p == Append(q, e)
           n == Len(q)
<1>1. /\ n \in Nat /\ DOMAIN q = 1..n /\ DOMAIN p = 1..(n + 1)
      /\ \A i \in DOMAIN q : p[i] = q[i]
      /\ p[n + 1] = e
  BY Appended
<1>2. \A i \in 1..(n + 1) : i \in 1..n \/ i = n + 1
  BY <1>1
<1> HIDE DEF p, n
<1>3. \A i \in DOMAIN p : (i \in DOMAIN q /\ p[i] = q[i]) \/ (i = n + 1 /\ p[i] = e)
  BY <1>1, <1>2
<1> QED
  BY <1>3 DEF p, n

\* The new player's notice is not one of those that wait.
LEMMA NewcomersNotice ==
  ASSUME IdInv, AnnouncedOrWaiting, NoticesAreOfSeats, NEW entry \in Entries,
         AuthenticateOk(entry), \A t, u \in Tokens : NickOf[t] = NickOf[u] => t = u
  PROVE  LET e   == CreatePlayer(ShipOf(entry).nick)
             all == Append(batch, e)
         IN  /\ \A i \in DOMAIN all : \E s \in created' : all[i] = CreatePlayer(s.nick)
             /\ \A i, j \in DOMAIN all : all[i] = all[j] => i = j
<1> DEFINE new == ShipOf(entry)
           e == CreatePlayer(new.nick)
           all == Append(batch, e)
<1>1. /\ new.token \in authToks /\ new.token \in Tokens /\ new.nick = NickOf[new.token]
      /\ created' = created \cup {new} /\ new.nick \in Nicks
  BY TokenBecomesShip DEF IdInv
<1> HIDE DEF new
<1>2. \A s \in created : s.nick # new.nick
  <2> SUFFICES ASSUME NEW s \in created, s.nick = new.nick PROVE FALSE
    OBVIOUS
  <2>1. s.token \in Tokens \ authToks /\ s.nick = NickOf[s.token]
    BY DEF IdInv, OneShipPerToken, ShipsAreNamed
  <2> QED
    BY <1>1, <2>1
<1>3. e \in Notices /\ batch \in Seq(Notices)
  BY <1>1, NoticeKinds DEF IdInv, TypeInv, TypeOK
<1>4. \A i \in DOMAIN batch : batch[i] # e
  BY <1>2, NoticeKinds DEF NoticesAreOfSeats
<1> HIDE DEF e
<1>5. \A i \in DOMAIN all : \/ i \in DOMAIN batch /\ all[i] = batch[i]
                            \/ i = Len(batch) + 1 /\ all[i] = e
  BY <1>3, GrownSequence
<1> HIDE DEF all
<1>6. \A i \in DOMAIN all : \E s \in created' : all[i] = CreatePlayer(s.nick)
  <2>1. e = CreatePlayer(new.nick)
    BY DEF e
  <2> QED
    BY <1>1, <1>5, <2>1 DEF NoticesAreOfSeats
<1>7. \A i, j \in DOMAIN all : all[i] = all[j] => i = j
  BY <1>4, <1>5 DEF NoticesAreOfSeats
<1> QED
  BY <1>6, <1>7 DEF all, e, new

\* A ship may be moved by a name that leads to it, or by the empty name.
LEMMA MovedIsSeated ==
  ASSUME IdInv, NEW entry \in Entries, HandleMove(entry)
  PROVE  /\ UNCHANGED <<authToks, created, batch>>
         /\ \/ UNCHANGED outbox
            \/ \E s \in created : \E e \in MovesOf(s) : outbox' = <<e>>
<1> DEFINE n == entry.packet.ettName
<1>1. /\ UNCHANGED <<authToks, created, batch>>
      /\ \/ /\ CanActOnEntity(entry.id, n) /\ HasEntity(EntityOf(n))
            /\ outbox' = <<SetPosition(n)>>
         \/ UNCHANGED outbox
  BY DEF HandleMove
<1>2. n \in Names /\ entry.id \in Ids
  <2>1. entry.packet \in Packets /\ entry.packet.type = "Move" /\ entry.id \in Ids
    BY DEF HandleMove, Entries
  <2> QED
    BY <2>1, ReadKinds
<1> HIDE DEF n
<1>3. ASSUME CanActOnEntity(entry.id, n), HasEntity(EntityOf(n))
      PROVE  \E s \in created : n = s.nick \/ n = NoName
  BY <1>2, <1>3, NamesOfClients DEF IdInv, HasEntity
<1> QED
  BY <1>1, <1>3 DEF MovesOf

\* Every step keeps the notices those of the seats.
LEMMA StepSeats ==
  ASSUME IdInv, AnnouncedOrWaiting, NoticesAreOfSeats, [Next]_vars,
         \A t, u \in Tokens : NickOf[t] = NickOf[u] => t = u
  PROVE  NoticesAreOfSeats'
<1>0. batch \in Seq(Notices) /\ outbox \in Seq(Notices) /\ published \in Seq(Notices)
  BY DEF IdInv, TypeInv, TypeOK
<1>1. CASE UNCHANGED <<players, outbox, published>>
  BY <1>1 DEF NoticesAreOfSeats, players
<1>2. ASSUME outbox = <<>>, UNCHANGED published, NEW entry \in Entries, AuthenticateOk(entry)
      PROVE  NoticesAreOfSeats'
  <2> DEFINE e == CreatePlayer(ShipOf(entry).nick)
             all == Append(batch, e)
  <2>1. /\ Announcements(published) = {}
        /\ \/ batch' = all /\ outbox' = <<>>
           \/ batch' = <<>> /\ outbox' = all
    BY <1>2, LastOrWaiting DEF IdInv
  <2>2. /\ \A i \in DOMAIN all : \E s \in created' : all[i] = CreatePlayer(s.nick)
        /\ \A i, j \in DOMAIN all : all[i] = all[j] => i = j
    BY <1>2, NewcomersNotice
  <2> HIDE DEF all
  <2>3. \A i \in DOMAIN all : all[i] \notin ToSet(published')
    BY <1>2, <2>1, <2>2, NoticeKinds DEF Announcements, ToSet
  <2>4. DOMAIN <<>> = {}
    OBVIOUS
  <2> QED
    BY <2>1, <2>2, <2>3, <2>4 DEF NoticesAreOfSeats
<1>3. ASSUME outbox = <<>>, UNCHANGED published, NEW entry \in Entries, HandleMove(entry)
      PROVE  NoticesAreOfSeats'
  <2>1. /\ UNCHANGED <<created, batch>>
        /\ \/ UNCHANGED outbox
           \/ \E s \in created : \E e \in MovesOf(s) : outbox' = <<e>>
    BY <1>3, MovedIsSeated
  <2>2. CASE UNCHANGED outbox
    BY <1>3, <2>1, <2>2 DEF NoticesAreOfSeats
  <2>3. ASSUME NEW s \in created, NEW e \in MovesOf(s), outbox' = <<e>>
        PROVE  NoticesAreOfSeats'
    <3>1. DOMAIN outbox' = {1} /\ outbox'[1] = e
      BY <2>3
    <3>2. MovesOf(s)' = MovesOf(s)
      BY DEF MovesOf
    <3> QED
      BY <1>3, <2>1, <2>3, <3>1, <3>2 DEF NoticesAreOfSeats
  <2> QED
    BY <2>1, <2>2, <2>3
<1>4. CASE BroadcastEnds
  <2> DEFINE h == Head(outbox)
  <2>1. /\ h = outbox[1] /\ 1 \in DOMAIN outbox /\ h \in Notices
        /\ published' = Append(published, h)
        /\ \A i \in DOMAIN outbox' : i + 1 \in DOMAIN outbox /\ outbox'[i] = outbox[i + 1]
        /\ UNCHANGED <<created, batch>>
    BY <1>4, NoticePublished DEF IdInv, players
  <2> HIDE DEF h
  <2>2. DOMAIN outbox' \subseteq Nat \ {0}
    <3>1. outbox' \in Seq(Notices)
      BY <1>4, NoticePublished DEF IdInv
    <3> QED
      BY <3>1, LenProperties
  <2>3. ASSUME NEW i \in DOMAIN outbox' PROVE outbox'[i] # h
    <3>1. i + 1 # 1
      BY <2>2
    <3>2. i + 1 \in DOMAIN outbox /\ outbox'[i] = outbox[i + 1]
      BY <2>1
    <3> QED
      BY <2>1, <3>1, <3>2 DEF NoticesAreOfSeats
  <2>4. \A x : x \in ToSet(published') => x \in ToSet(published) \/ x = h
    BY <1>0, <2>1, GrownSequence DEF ToSet
  <2>5. \A i \in DOMAIN outbox' : \E s \in created' :
          \/ outbox'[i] = CreatePlayer(s.nick) /\ outbox'[i] \notin ToSet(published')
          \/ outbox'[i] \in MovesOf(s)
    BY <2>1, <2>3, <2>4 DEF NoticesAreOfSeats
  <2>6. \A i, j \in DOMAIN outbox' : outbox'[i] = outbox'[j] => i = j
    <3> SUFFICES ASSUME NEW i \in DOMAIN outbox', NEW j \in DOMAIN outbox',
                        outbox'[i] = outbox'[j]
                 PROVE  i = j
      OBVIOUS
    <3>1. i + 1 = j + 1
      BY <2>1 DEF NoticesAreOfSeats
    <3> QED
      BY <2>2, <3>1
  <2> QED
    BY <2>1, <2>5, <2>6 DEF NoticesAreOfSeats
<1> QED
  BY <1>1, <1>2, <1>3, <1>4, OnlyTheseMakeNotices DEF IdInv

\* The player who comes takes a seat.
LEMMA AuthenticatingIsAdmit ==
  ASSUME TypeInv, NEW entry \in Entries, AuthenticateOk(entry), UNCHANGED published
  PROVE  Promise!Admit(entry.from, entry.packet.token) /\ entry.packet.token \in Tokens
<1> DEFINE new == ShipOf(entry)
<1>1. /\ new.token \in authToks /\ new.token \in Tokens /\ new.nick = NickOf[new.token]
      /\ new.from = entry.from
      /\ created' = created \cup {new} /\ authToks' = authToks \ {new.token}
  BY TokenBecomesShip
<1>2. new.token = entry.packet.token
  BY DEF ShipOf
<1>3. SeatOf(new) = [from |-> entry.from, token |-> entry.packet.token,
                     nick |-> NickOf[entry.packet.token]]
  BY <1>1, <1>2 DEF SeatOf
<1> HIDE DEF new
<1>4. Seats' = Seats \cup {SeatOf(new)}
  BY <1>1 DEF Seats, SeatOf
<1>5. /\ Seats = {[from |-> s.from, token |-> s.token, nick |-> s.nick] : s \in created}
      /\ Seats' = {[from |-> s.from, token |-> s.token, nick |-> s.nick] : s \in created'}
  BY DEF Seats, SeatOf
<1> QED
  BY <1>1, <1>2, <1>3, <1>4, <1>5 DEF Promise!Admit

\* The notice broadcast introduces a player who sits, or relates a move, or is of
\* no name.
LEMMA PublishingIsTelling ==
  ASSUME IdInv, AnnouncedOrWaiting, NoticesAreOfSeats, BroadcastEnds
  PROVE  Promise!Stray \/ \E s \in Seats : Promise!Introduce(s) \/ Promise!Relate(s)
<1> DEFINE h == Head(outbox)
<1>1. /\ h = outbox[1] /\ 1 \in DOMAIN outbox
      /\ published' = Append(published, h) /\ UNCHANGED players
  BY NoticePublished DEF IdInv
<1> HIDE DEF h
<1>2. Seats' = Seats /\ authToks' = authToks
  BY <1>1 DEF Seats, SeatOf, players
<1>3. PICK u \in created : \/ h = CreatePlayer(u.nick) /\ h \notin ToSet(published)
                           \/ h \in MovesOf(u)
  BY <1>1 DEF NoticesAreOfSeats
<1> DEFINE s == SeatOf(u)
<1>4. s \in Seats /\ s.nick = u.nick
  BY DEF Seats, SeatOf
<1> HIDE DEF s
<1>5. Promise!Publish(h)
  BY <1>1, <1>2 DEF Promise!Publish, Seats, SeatOf
<1>6. CASE h = CreatePlayer(u.nick) /\ h \notin ToSet(published)
  <2>1. authToks = {}
    <3>1. h.type = "CreatePlayer"
      BY <1>6, NoticeKinds
    <3>2. 1 \in Announcements(outbox)
      BY <1>1, <3>1 DEF Announcements
    <3> QED
      BY <3>2 DEF AnnouncedOrWaiting
  <2>2. h = [type |-> "CreatePlayer", nickName |-> s.nick]
    BY <1>4, <1>6 DEF CreatePlayer
  <2>3. h \notin Promise!ToSet(published)
    BY <1>6 DEF Promise!ToSet, ToSet
  <2>4. Promise!Introduce(s)
    BY <1>5, <2>1, <2>2, <2>3 DEF Promise!Introduce
  <2> QED
    BY <1>4, <2>4
<1>7. CASE h = SetPosition(u.nick)
  <2>1. Promise!Relate(s)
    BY <1>4, <1>5, <1>7 DEF Promise!Relate, SetPosition
  <2> QED
    BY <1>4, <2>1
<1>8. CASE h = SetPosition(NoName)
  <2>1. Seats # {}
    BY <1>4
  <2> QED
    BY <1>5, <1>8, <2>1 DEF Promise!Stray, SetPosition, Seats, SeatOf
<1> QED
  BY <1>3, <1>6, <1>7, <1>8 DEF MovesOf

GameInv == IdInv /\ AnnouncedOrWaiting /\ NoticesAreOfSeats

\* A step of the game server is a step of the game, or none.
LEMMA StepIsPromised ==
  ASSUME GameInv, [Next]_vars
  PROVE  [Promise!Next]_Mapped
<1> USE DEF GameInv
<1>0. Seats = {[from |-> s.from, token |-> s.token, nick |-> s.nick] : s \in created}
  BY DEF Seats, SeatOf
<1>1. CASE UNCHANGED <<authToks, created, published>>
  BY <1>1 DEF Mapped, Seats, SeatOf
<1>2. CASE UNCHANGED <<players, outbox, published>>
  BY <1>1, <1>2 DEF players
<1>3. ASSUME UNCHANGED published, NEW entry \in Entries, AuthenticateOk(entry)
      PROVE  Promise!Next
  <2>1. entry.from \in Conns
    BY DEF Entries
  <2> QED
    BY <1>3, <2>1, AuthenticatingIsAdmit DEF IdInv, Promise!Next
<1>4. ASSUME UNCHANGED published, NEW entry \in Entries, HandleMove(entry)
      PROVE  UNCHANGED <<authToks, created, published>>
  BY <1>4 DEF HandleMove
<1>5. CASE BroadcastEnds
  BY <1>0, <1>5, PublishingIsTelling DEF Promise!Next
<1> QED
  BY <1>1, <1>2, <1>3, <1>4, <1>5, OnlyTheseMakeNotices DEF IdInv

(***************************************************************************)
(* A game server whose tokens are of different players implements the      *)
(* game, for any number of players and connections: every handler of       *)
(* gameserver/Server.hpp is a step of the game, or none, whatever the I/O  *)
(* thread does at the same time.  A Move without a name is one of its      *)
(* steps, not of a player who sits: the game is told of it as Stray.       *)
(***************************************************************************)
THEOREM ServerImplementsGame ==
  ASSUME \A t, u \in Tokens : NickOf[t] = NickOf[u] => t = u
  PROVE  Spec => ImplementsGame
<1>1. Init => Promise!Init /\ NoticesAreOfSeats
  <2> SUFFICES ASSUME Init PROVE Promise!Init /\ NoticesAreOfSeats
    OBVIOUS
  <2>1. /\ authToks = Tokens /\ created = {} /\ published = <<>>
        /\ batch = <<>> /\ outbox = <<>>
    BY DEF Init
  <2>2. DOMAIN batch = {} /\ DOMAIN outbox = {}
    BY <2>1
  <2> QED
    BY <2>1, <2>2 DEF Promise!Init, NoticesAreOfSeats
<1>2. IdInv /\ AnnouncedOrWaiting /\ NoticesAreOfSeats /\ [Next]_vars => NoticesAreOfSeats'
  BY StepSeats
<1>3. GameInv /\ [Next]_vars => [Promise!Next]_Promise!vars
  BY StepIsPromised DEF Promise!vars, Mapped, Seats, SeatOf
<1>4. /\ GameInv <=> IdInv /\ AnnouncedOrWaiting /\ NoticesAreOfSeats
      /\ IdInv <=> TypeInv /\ OneShipPerToken /\ ShipsAreNamed /\ NamesLead
  BY DEF GameInv, IdInv
<1> QED
  BY <1>1, <1>2, <1>3, <1>4, ShipsHold, NamesHold, AnnouncedHolds, PTL
     DEF Spec, ImplementsGame, Promise!Spec

-----------------------------------------------------------------------------
(* A game of polite players: each comes once, with a token of its own,     *)
(* stays, and moves its ship when it has heard of all the players.  The    *)
(* threads are as free as ever, and an accept may fail.                    *)

PoliteGame ==
  /\ "Leave" \notin Unruly /\ "MoveAtWill" \notin Unruly
  /\ \A c \in Conns : TokenOf[c] \in Tokens
  /\ \A c, d \in Conns : TokenOf[c] = TokenOf[d] => c = d

-----------------------------------------------------------------------------
(* The parts of the invariant *)

(***************************************************************************)
(* Nobody has heard or moved anything before all the tokens are used, so   *)
(* that whoever could still come comes before the first broadcast.         *)
(***************************************************************************)
MoveUnderWay ==
  \/ \E c \in Conns : pending[c].type = "Move"
  \/ \E k \in DOMAIN queue : queue[k].packet.type = "Move"

Begun ==
  \/ outbox # <<>> \/ published # <<>>
  \/ \E c \in Conns : heard[c] # <<>>
  \/ MoveUnderWay

BegunWhenFull == Begun => authToks = {}

\* Each player presents its own token, and has a ship of that token at most.
OwnTokens ==
  /\ \A c \in Conns : pending[c] # Failed
  /\ \A c \in Conns : pending[c].type = "Authenticate" => pending[c].token = TokenOf[c]
  /\ \A k \in DOMAIN queue : queue[k].packet.type = "Authenticate" =>
       queue[k].packet.token = TokenOf[queue[k].from]
  /\ \A s \in created : s.token = TokenOf[s.from]

\* IDs stay in place: those of packets, and those of the owners of ships.
OwnPlaces ==
  /\ \A k \in DOMAIN queue : /\ queue[k].id + 1 \in DOMAIN clients
                             /\ clients[queue[k].id + 1] = queue[k].from
  /\ \A s \in created : \E i \in DOMAIN clients : clients[i] = s.from /\ names[i - 1] = s.nick
  /\ authToks # {} =>
       \A i \in Ids : names[i] # Absent =>
         /\ i + 1 \in DOMAIN clients
         /\ \E s \in created : s.from = clients[i + 1]

\* The clients in front of the cursor have the notice under way as well.
HeardSoFar(i) == IF i < cursor THEN Append(published, Head(outbox)) ELSE published

HeardInTurn ==
  /\ ~undefined
  /\ cursor > 0 => limit = Len(clients)
  /\ \A c \in Conns : c \notin known => heard[c] = <<>>
  /\ \A i \in DOMAIN clients : heard[clients[i]] = HeardSoFar(i)

GameState == IdInv /\ AnnouncedOrWaiting

PoliteInv == GameState /\ BegunWhenFull /\ OwnTokens /\ OwnPlaces /\ HeardInTurn

-----------------------------------------------------------------------------
(* The steps of polite players *)

\* The queue after a packet has been put into it.
LEMMA PacketQueued ==
  ASSUME TypeInv, NEW c \in Conns, IoPacket(c)
  PROVE  /\ pending[c] \in Packets
         /\ pending' = [pending EXCEPT ![c] = Armed]
         /\ UNCHANGED <<known, clients, players, broadcast, undefined>>
         /\ IdOf(c) \in Ids /\ IdOf(c) + 1 \in DOMAIN clients /\ clients[IdOf(c) + 1] = c
         /\ \A k \in DOMAIN queue' :
              \/ k \in DOMAIN queue /\ queue'[k] = queue[k]
              \/ queue'[k] = [id |-> IdOf(c), from |-> c, packet |-> pending[c]]
<1> DEFINE e == [id |-> IdOf(c), from |-> c, packet |-> pending[c]]
<1>1. /\ pending[c] \in Packets /\ queue' = Append(queue, e)
      /\ pending' = [pending EXCEPT ![c] = Armed]
      /\ UNCHANGED <<known, clients, players, broadcast, undefined>>
  BY DEF IoPacket
<1>2. IdOf(c) \in Ids /\ IdOf(c) + 1 \in DOMAIN clients /\ clients[IdOf(c) + 1] = c
  BY <1>1, ReadersHaveIds, ReadKinds DEF TypeInv
<1>3. e \in Entries
  BY <1>1, <1>2 DEF Entries
<1> HIDE DEF e
<1>4. /\ Len(queue) \in Nat /\ DOMAIN queue = 1..Len(queue)
      /\ DOMAIN queue' = 1..(Len(queue) + 1)
      /\ \A k \in DOMAIN queue : queue'[k] = queue[k]
      /\ queue'[Len(queue) + 1] = e
  BY <1>1, <1>3, Appended DEF TypeInv, TypeOK
<1>5. \A k \in 1..(Len(queue) + 1) : k \in 1..Len(queue) \/ k = Len(queue) + 1
  BY <1>4
<1>6. \A k \in DOMAIN queue' : (k \in DOMAIN queue /\ queue'[k] = queue[k]) \/ queue'[k] = e
  BY <1>4, <1>5
<1> QED
  BY <1>1, <1>2, <1>6 DEF e

\* The queue after a packet has been taken from it.
LEMMA PacketTaken ==
  ASSUME TypeInv, HandlePacket
  PROVE  /\ \A k \in DOMAIN queue' : k + 1 \in DOMAIN queue /\ queue'[k] = queue[k + 1]
         /\ 1 \in DOMAIN queue /\ queue[1] \in Entries
         /\ \/ queue[1].packet.type = "Authenticate" /\ AuthenticateOk(queue[1])
            \/ queue[1].packet.type = "Move" /\ HandleMove(queue[1])
            \/ UNCHANGED <<players, outbox>>
         /\ UNCHANGED <<io, cursor, limit, published, heard, undefined>>
<1>1. /\ queue # <<>> /\ queue' = Tail(queue) /\ queue \in Seq(Entries)
      /\ HandleAuthenticate(Head(queue)) \/ HandleMove(Head(queue))
      /\ UNCHANGED <<io, cursor, limit, published, heard, undefined>>
  BY DEF HandlePacket, TypeInv, TypeOK
<1>2. /\ Head(queue) = queue[1] /\ 1 \in DOMAIN queue /\ Head(queue) \in Entries
      /\ \A k \in DOMAIN queue' : k + 1 \in DOMAIN queue /\ queue'[k] = queue[k + 1]
  BY <1>1, Taken
<1> QED
  BY <1>1, <1>2 DEF HandleAuthenticate, AuthenticateFails, AuthenticateRefused, HandleMove

\* Who is not known yet has a token that is still expected: nothing has begun.
LEMMA NewcomersAreExpected ==
  ASSUME PoliteGame, PoliteInv, NEW c \in Conns, c \notin known
  PROVE  /\ authToks # {} /\ ~Begun
         /\ outbox = <<>> /\ published = <<>> /\ cursor = 0 /\ heard[c] = <<>>
<1>1. authToks # {}
  <2> SUFFICES ASSUME authToks = {} PROVE FALSE
    OBVIOUS
  <2>1. PICK s \in created : s.token = TokenOf[c]
    BY DEF PoliteInv, GameState, IdInv, OneShipPerToken, PoliteGame
  <2>2. s.token = TokenOf[s.from]
    BY DEF PoliteInv, OwnTokens
  <2>3. s.from \in Conns
    BY DEF PoliteInv, GameState, IdInv, TypeInv, TypeOK, Entities
  <2>4. PICK i \in DOMAIN clients : clients[i] = s.from
    BY DEF PoliteInv, OwnPlaces
  <2>5. clients[i] \in known
    BY ElementOfSeq, LenProperties DEF PoliteInv, GameState, IdInv, TypeInv, TypeOK
  <2> QED
    BY <2>1, <2>2, <2>3, <2>4, <2>5 DEF PoliteGame
<1>2. ~Begun
  BY <1>1 DEF PoliteInv, BegunWhenFull
<1>3. outbox = <<>> /\ published = <<>> /\ heard[c] = <<>>
  BY <1>2 DEF Begun
<1>4. cursor = 0
  BY <1>3 DEF PoliteInv, GameState, IdInv, TypeInv, TypeOK, OutboxIsSent
<1> QED
  BY <1>1, <1>2, <1>3, <1>4

\* What polite players never do.
LEMMA NobodyLeaves ==
  ASSUME PoliteGame, PoliteInv, NEW c \in Conns
  PROVE  ~PeerClose(c) /\ ~IoError(c)
BY DEF PoliteGame, PoliteInv, OwnTokens, PeerClose, IoError

\* What a polite player sends: its own token, or a move of a game that began.
LEMMA PoliteSending ==
  ASSUME PoliteGame, PoliteInv, NEW c \in Conns, NEW packet \in Packets, Receive(c, packet)
  PROVE  /\ pending' = [pending EXCEPT ![c] = packet]
         /\ UNCHANGED <<known, clients, queue, players, broadcast, undefined>>
         /\ packet.type = "Authenticate" => packet.token = TokenOf[c]
         /\ packet.type = "Move" => Begun
         /\ packet # Failed
<1>1. /\ pending' = [pending EXCEPT ![c] = packet]
      /\ UNCHANGED <<known, clients, queue, players, broadcast, undefined>>
      /\ packet = Authenticate(TokenOf[c]) \/ Len(heard[c]) > Mode
      /\ packet = Authenticate(TokenOf[c]) \/ packet = Move(Nick(c))
  BY DEF Receive, Permitted, PoliteGame
<1>2. /\ packet.type = "Authenticate" => packet.token = TokenOf[c]
      /\ packet.type = "Move" => packet # Authenticate(TokenOf[c])
  BY <1>1 DEF Authenticate, Move
<1>3. ASSUME Len(heard[c]) > Mode PROVE Begun
  <2>1. heard[c] # <<>>
    BY <1>3, ModeAssumption
  <2> QED
    BY <2>1 DEF Begun
<1> QED
  BY <1>1, <1>2, <1>3, ReadKinds

-----------------------------------------------------------------------------
(* Tokens *)

\* Every step keeps the tokens to their own connections.
LEMMA StepOwnTokens ==
  ASSUME PoliteGame, PoliteInv, [Next]_vars
  PROVE  OwnTokens'
<1> USE DEF PoliteInv, GameState, IdInv
<1>0. pending \in [Conns -> Packets \cup {Idle, Armed, Failed}]
  BY DEF TypeInv, TypeOK
<1>1. CASE UNCHANGED <<pending, queue, created>>
  BY <1>1 DEF OwnTokens
<1>2. ASSUME NEW c \in Conns, Accept(c) PROVE OwnTokens'
  <2>1. pending' = [pending EXCEPT ![c] = Armed] /\ UNCHANGED <<queue, created>>
    BY <1>2 DEF Accept, players
  <2> QED
    BY <1>0, <2>1 DEF OwnTokens, Armed, Failed
<1>3. ASSUME NEW c \in Conns, NEW packet \in Packets, Receive(c, packet) PROVE OwnTokens'
  BY <1>0, <1>3, PoliteSending DEF OwnTokens, players
<1>4. ASSUME NEW c \in Conns, IoPacket(c) PROVE OwnTokens'
  <2>1. /\ pending' = [pending EXCEPT ![c] = Armed] /\ UNCHANGED created
        /\ \A k \in DOMAIN queue' :
              \/ k \in DOMAIN queue /\ queue'[k] = queue[k]
              \/ queue'[k] = [id |-> IdOf(c), from |-> c, packet |-> pending[c]]
    BY <1>4, PacketQueued DEF players
  <2>2. \A k \in DOMAIN queue' : queue'[k].packet.type = "Authenticate" =>
          queue'[k].packet.token = TokenOf[queue'[k].from]
    BY <2>1 DEF OwnTokens
  <2>3. /\ \A d \in Conns : pending'[d] # Failed
        /\ \A d \in Conns : pending'[d].type = "Authenticate" => pending'[d].token = TokenOf[d]
    BY <1>0, <2>1 DEF OwnTokens, Armed, Failed
  <2> QED
    BY <2>1, <2>2, <2>3 DEF OwnTokens
<1>5. CASE HandlePacket
  <2>1. /\ \A k \in DOMAIN queue' : k + 1 \in DOMAIN queue /\ queue'[k] = queue[k + 1]
        /\ 1 \in DOMAIN queue /\ queue[1] \in Entries /\ UNCHANGED pending
    BY <1>5, PacketTaken DEF io
  <2>2. \A s \in created' : s.token = TokenOf[s.from]
    <3>1. CASE queue[1].packet.type = "Authenticate" /\ AuthenticateOk(queue[1])
      <4>1. created' = created \cup {ShipOf(queue[1])}
        BY <2>1, <3>1, TokenBecomesShip
      <4>2. queue[1].packet.token = TokenOf[queue[1].from]
        BY <2>1, <3>1 DEF OwnTokens
      <4> QED
        BY <4>1, <4>2 DEF OwnTokens, ShipOf
    <3>2. CASE HandleMove(queue[1]) \/ UNCHANGED <<players, outbox>>
      <4>1. created' = created
        BY <3>2 DEF HandleMove, players
      <4> QED
        BY <4>1 DEF OwnTokens
    <3> QED
      BY <1>5, <3>1, <3>2, PacketTaken
  <2> QED
    BY <2>1, <2>2 DEF OwnTokens
<1>6. CASE UNCHANGED vars
  BY <1>1, <1>6 DEF vars, io, players
<1>7. CASE Stop \/ AcceptError \/ BroadcastBegins \/ BroadcastWrites \/ BroadcastEnds
             \/ ChangesPhase
  BY <1>1, <1>7, OnlyThePhase
  DEF Stop, AcceptError, BroadcastBegins, BroadcastWrites, BroadcastEnds, io, players
<1> QED
  BY <1>2, <1>3, <1>4, <1>5, <1>6, <1>7, NobodyLeaves
  DEF Next, IoStep, GameStep, ChangesPhase

-----------------------------------------------------------------------------
(* Beginnings *)

\* Tokens are only used up.
LEMMA TokensAreUsedUp ==
  ASSUME TypeInv, [Next]_vars
  PROVE  authToks' \subseteq authToks
<1>1. ASSUME NEW entry \in Entries, AuthenticateOk(entry) PROVE authToks' \subseteq authToks
  BY <1>1, TokenBecomesShip
<1>2. ASSUME NEW entry \in Entries, HandleMove(entry) PROVE authToks' \subseteq authToks
  BY <1>2 DEF HandleMove
<1> QED
  BY <1>1, <1>2, OnlyPacketsActOnPlayers DEF players

\* Every step keeps the game from beginning before all tokens are used.
LEMMA StepBegun ==
  ASSUME PoliteGame, PoliteInv, [Next]_vars
  PROVE  BegunWhenFull'
<1> USE DEF PoliteInv, GameState, IdInv
<1>0. pending \in [Conns -> Packets \cup {Idle, Armed, Failed}]
  BY DEF TypeInv, TypeOK
<1> SUFFICES ASSUME Begun', ~Begun PROVE authToks' = {}
  <2>1. authToks' \subseteq authToks
    BY TokensAreUsedUp
  <2> QED
    BY <2>1 DEF BegunWhenFull
<1>1. CASE UNCHANGED <<pending, queue, outbox, published, heard>>
  BY <1>1 DEF Begun, MoveUnderWay
<1>2. ASSUME NEW c \in Conns, Accept(c) PROVE authToks' = {}
  <2>1. pending' = [pending EXCEPT ![c] = Armed] /\ UNCHANGED <<queue, outbox, published, heard>>
    BY <1>2 DEF Accept, broadcast
  <2> QED
    BY <1>0, <2>1 DEF Begun, MoveUnderWay, Armed
<1>3. ASSUME NEW c \in Conns, NEW packet \in Packets, Receive(c, packet) PROVE authToks' = {}
  <2>1. /\ pending' = [pending EXCEPT ![c] = packet] /\ packet.type # "Move"
        /\ UNCHANGED <<queue, outbox, published, heard>>
    BY <1>3, PoliteSending DEF broadcast
  <2> QED
    BY <1>0, <2>1 DEF Begun, MoveUnderWay
<1>4. ASSUME NEW c \in Conns, IoPacket(c) PROVE authToks' = {}
  <2>1. /\ pending' = [pending EXCEPT ![c] = Armed] /\ UNCHANGED <<outbox, published, heard>>
        /\ \A k \in DOMAIN queue' :
              \/ k \in DOMAIN queue /\ queue'[k] = queue[k]
              \/ queue'[k] = [id |-> IdOf(c), from |-> c, packet |-> pending[c]]
    BY <1>4, PacketQueued DEF broadcast
  <2>2. /\ \A k \in DOMAIN queue' : queue'[k].packet.type # "Move"
        /\ \A d \in Conns : pending'[d].type # "Move"
    BY <1>0, <2>1 DEF Begun, MoveUnderWay, Armed
  <2> QED
    BY <2>1, <2>2 DEF Begun, MoveUnderWay
<1>5. CASE HandlePacket
  <2>1. /\ \A k \in DOMAIN queue' : k + 1 \in DOMAIN queue /\ queue'[k] = queue[k + 1]
        /\ 1 \in DOMAIN queue /\ queue[1] \in Entries
        /\ UNCHANGED <<pending, published, heard>>
    BY <1>5, PacketTaken DEF io
  <2>2. \A k \in DOMAIN queue' : queue'[k].packet.type # "Move"
    BY <2>1 DEF Begun, MoveUnderWay
  <2>3. outbox' # <<>>
    BY <2>1, <2>2 DEF Begun, MoveUnderWay
  <2>4. AuthenticateOk(queue[1])
    <3>1. queue[1].packet.type # "Move" /\ outbox = <<>>
      BY <2>1 DEF Begun, MoveUnderWay
    <3> QED
      BY <1>5, <2>3, <3>1, PacketTaken
  <2> QED
    BY <2>1, <2>3, <2>4, LastOrWaiting
<1>6. CASE BroadcastBegins \/ BroadcastWrites \/ BroadcastEnds
  BY <1>6 DEF BroadcastBegins, BroadcastWrites, BroadcastEnds, Iterating, OutboxIsSent,
              TypeInv, Begun
<1>7. CASE Stop \/ AcceptError \/ ChangesPhase \/ UNCHANGED vars
  BY <1>1, <1>7, OnlyThePhase DEF Stop, AcceptError, vars, io, broadcast
<1> QED
  BY <1>2, <1>3, <1>4, <1>5, <1>6, <1>7, NobodyLeaves
  DEF Next, IoStep, GameStep, ChangesPhase

-----------------------------------------------------------------------------
(* IDs *)

\* A player has one ship: its ID has no name before it authenticates.
LEMMA NewOwnersHaveNoName ==
  ASSUME PoliteGame, PoliteInv, 1 \in DOMAIN queue, queue[1] \in Entries,
         queue[1].packet.type = "Authenticate", AuthenticateOk(queue[1])
  PROVE  names[queue[1].id] = Absent
<1> USE DEF PoliteInv, GameState, IdInv
<1> DEFINE entry == queue[1]
           t == entry.packet.token
<1>1. t \in authToks /\ entry.id \in Ids
  BY DEF AuthenticateOk, Entries
<1>2. t = TokenOf[entry.from] /\ clients[entry.id + 1] = entry.from
  BY DEF OwnTokens, OwnPlaces
<1> SUFFICES ASSUME names[entry.id] # Absent PROVE FALSE
  OBVIOUS
<1>3. PICK s \in created : s.from = entry.from
  BY <1>1, <1>2 DEF OwnPlaces
<1>4. s.token = t
  BY <1>2, <1>3 DEF OwnTokens
<1> QED
  BY <1>1, <1>3, <1>4 DEF OneShipPerToken

\* Every step keeps the places of the players, and the names at them.
LEMMA StepOwnPlaces ==
  ASSUME PoliteGame, PoliteInv, [Next]_vars
  PROVE  OwnPlaces'
<1> USE DEF PoliteInv, GameState, IdInv
<1>0. /\ names \in [Ids -> Names \cup {Absent}]
      /\ clients \in Seq(known) /\ Len(clients) \in Nat /\ DOMAIN clients = 1..Len(clients)
      /\ known \subseteq Conns
  BY LenProperties DEF TypeInv, TypeOK
<1>1. CASE UNCHANGED <<clients, queue, players>>
  BY <1>1 DEF OwnPlaces, players
<1>2. ASSUME NEW c \in Conns, Accept(c) PROVE OwnPlaces'
  <2>1. clients' = Append(clients, c) /\ UNCHANGED <<queue, players>>
    BY <1>2 DEF Accept
  <2>2. /\ DOMAIN clients' = 1..(Len(clients) + 1)
        /\ \A i \in DOMAIN clients : clients'[i] = clients[i]
    <3>1. clients \in Seq(Conns)
      BY <1>0, SeqMonotonic
    <3> QED
      BY <2>1, <3>1, Appended
  <2>3. \A i \in DOMAIN clients : i \in DOMAIN clients' /\ clients'[i] = clients[i]
    BY <1>0, <2>2
  <2> QED
    BY <2>1, <2>3 DEF OwnPlaces, players
<1>3. ASSUME NEW c \in Conns, IoPacket(c) PROVE OwnPlaces'
  BY <1>3, PacketQueued DEF OwnPlaces, players
<1>4. CASE HandlePacket
  <2>1. /\ \A k \in DOMAIN queue' : k + 1 \in DOMAIN queue /\ queue'[k] = queue[k + 1]
        /\ 1 \in DOMAIN queue /\ queue[1] \in Entries /\ UNCHANGED clients
    BY <1>4, PacketTaken DEF io
  <2>2. \A k \in DOMAIN queue' : /\ queue'[k].id + 1 \in DOMAIN clients'
                                 /\ clients'[queue'[k].id + 1] = queue'[k].from
    BY <2>1 DEF OwnPlaces
  <2> DEFINE id == queue[1].id
  <2>3. id \in Ids /\ id + 1 \in DOMAIN clients /\ clients[id + 1] = queue[1].from
    BY <2>1 DEF OwnPlaces, Entries
  <2>4. \A s \in created : \E i \in DOMAIN clients :
          clients[i] = s.from /\ names[i - 1] = s.nick /\ i - 1 \in Ids
    <3>1. \A i \in DOMAIN clients : i - 1 \in Ids
      <4>1. Len(clients) <= Cardinality(Conns) /\ Cardinality(Conns) \in Nat
        <5>1. clients \in Seq(Conns)
          BY <1>0, SeqMonotonic
        <5> QED
          BY <5>1, DistinctFit, ConnsAssumption DEF TypeInv, ClientsAreReaders
      <4> QED
        BY <1>0, <4>1 DEF Ids
    <3> QED
      BY <3>1 DEF OwnPlaces
  <2>5. \A s \in created : s.nick \in Nicks /\ s.nick # Absent
    BY NullsAssumption DEF TypeInv, TypeOK, Entities
  <2> HIDE DEF id
  <2>6. CASE queue[1].packet.type = "Authenticate" /\ AuthenticateOk(queue[1])
    <3> DEFINE new == ShipOf(queue[1])
    <3>1. /\ created' = created \cup {new} /\ new.from = queue[1].from
          /\ authToks' \subseteq authToks
          /\ names' = Emplaced(names, id, new.nick) /\ names[id] = Absent
      BY <2>1, <2>6, TokenBecomesShip, NewOwnersHaveNoName DEF id
    <3> HIDE DEF new
    <3>2. /\ names'[id] = new.nick
          /\ \A i \in Ids : names[i] # Absent => names'[i] = names[i]
          /\ \A i \in Ids : i = id \/ names'[i] = names[i]
      BY <1>0, <2>3, <3>1 DEF Emplaced
    <3>3. \A s \in created' : \E i \in DOMAIN clients' :
            clients'[i] = s.from /\ names'[i - 1] = s.nick
      <4>1. \E i \in DOMAIN clients' : clients'[i] = new.from /\ names'[i - 1] = new.nick
        <5>1. (id + 1) - 1 = id
          BY <2>3 DEF Ids
        <5> QED
          BY <2>1, <2>3, <3>1, <3>2, <5>1
      <4>2. ASSUME NEW s \in created
            PROVE  \E i \in DOMAIN clients' : clients'[i] = s.from /\ names'[i - 1] = s.nick
        BY <2>1, <2>4, <2>5, <3>2
      <4> QED
        BY <3>1, <4>1, <4>2
    <3>4. authToks' # {} =>
            \A i \in Ids : names'[i] # Absent =>
              /\ i + 1 \in DOMAIN clients'
              /\ \E s \in created' : s.from = clients'[i + 1]
      BY <2>1, <2>3, <3>1, <3>2 DEF OwnPlaces
    <3> QED
      BY <2>2, <3>3, <3>4 DEF OwnPlaces
  <2>7. CASE queue[1].packet.type = "Move" /\ HandleMove(queue[1])
    <3>1. /\ UNCHANGED <<authToks, created>> /\ names' = Emplaced(names, id, NoName)
          /\ authToks = {}
      BY <2>1, <2>7 DEF HandleMove, BegunWhenFull, Begun, MoveUnderWay, id
    <3>2. \A i \in Ids : names[i] # Absent => names'[i] = names[i]
      BY <1>0, <2>3, <3>1 DEF Emplaced
    <3>3. \A s \in created' : \E i \in DOMAIN clients' :
            clients'[i] = s.from /\ names'[i - 1] = s.nick
      BY <2>1, <2>4, <2>5, <3>1, <3>2
    <3> QED
      BY <2>2, <3>1, <3>3 DEF OwnPlaces
  <2>8. CASE UNCHANGED <<players, outbox>>
    BY <2>1, <2>2, <2>8 DEF OwnPlaces, players
  <2> QED
    BY <1>4, <2>6, <2>7, <2>8, PacketTaken
<1>5. ASSUME NEW c \in Conns, NEW packet \in Packets, Receive(c, packet) PROVE OwnPlaces'
  BY <1>1, <1>5, PoliteSending
<1>6. CASE Stop \/ AcceptError \/ BroadcastBegins \/ BroadcastWrites \/ BroadcastEnds
             \/ ChangesPhase
  BY <1>1, <1>6, OnlyThePhase
  DEF Stop, AcceptError, BroadcastBegins, BroadcastWrites, BroadcastEnds, io
<1>7. CASE UNCHANGED vars
  BY <1>1, <1>7 DEF vars, io
<1> QED
  BY <1>2, <1>3, <1>4, <1>5, <1>6, <1>7, NobodyLeaves
  DEF Next, IoStep, GameStep, ChangesPhase


-----------------------------------------------------------------------------
(* Hearing *)

\* Every step keeps the clients up to date with the broadcasts.
LEMMA StepHeardInTurn ==
  ASSUME PoliteGame, PoliteInv, [Next]_vars
  PROVE  HeardInTurn'
<1> USE DEF PoliteInv, GameState, IdInv
<1>0. /\ heard \in [Conns -> Seq(Notices)] /\ known \subseteq Conns
      /\ clients \in Seq(known) /\ Len(clients) \in Nat /\ DOMAIN clients = 1..Len(clients)
      /\ \A i \in DOMAIN clients : clients[i] \in known /\ clients[i] \in Conns
      /\ cursor \in Nat
  BY LenProperties, ElementOfSeq DEF TypeInv, TypeOK
<1>1. CASE UNCHANGED <<known, clients, broadcast, undefined>>
  BY <1>1 DEF HeardInTurn, HeardSoFar, broadcast
<1>2. ASSUME NEW c \in Conns, Accept(c) PROVE HeardInTurn'
  <2>1. /\ c \notin known /\ known' = known \cup {c} /\ clients' = Append(clients, c)
        /\ undefined' = (Iterating /\ Grown # capacity) /\ UNCHANGED broadcast
    BY <1>2 DEF Accept
  <2>2. published = <<>> /\ cursor = 0 /\ heard[c] = <<>>
    BY <2>1, NewcomersAreExpected
  <2>3. /\ DOMAIN clients' = 1..(Len(clients) + 1)
        /\ \A i \in DOMAIN clients : clients'[i] = clients[i]
        /\ clients'[Len(clients) + 1] = c
    <3>1. clients \in Seq(Conns)
      BY <1>0, SeqMonotonic
    <3> QED
      BY <2>1, <3>1, Appended
  <2>4. \A i \in DOMAIN clients' : i \in DOMAIN clients \/ i = Len(clients) + 1
    BY <1>0, <2>3
  <2>5. \A i \in DOMAIN clients' : heard[clients'[i]] = published /\ ~(i < cursor)
    BY <1>0, <2>2, <2>3, <2>4 DEF HeardInTurn, HeardSoFar
  <2>6. ~undefined'
    <3>1. ~Iterating
      BY <2>2 DEF Iterating
    <3>2. (Iterating /\ Grown # capacity) = FALSE
      BY <3>1
    <3> QED
      BY <2>1, <3>2
  <2>7. UNCHANGED <<outbox, cursor, limit, published, heard>> /\ ~(cursor > 0)
    BY <2>1, <2>2 DEF broadcast
  <2>8. \A d \in Conns : d \notin known' => heard'[d] = <<>>
    BY <2>1, <2>7 DEF HeardInTurn
  <2>9. \A i \in DOMAIN clients' : heard'[clients'[i]] = HeardSoFar(i)'
    BY <2>5, <2>7 DEF HeardSoFar
  <2> QED
    BY <2>6, <2>7, <2>8, <2>9 DEF HeardInTurn
<1>3. CASE HandlePacket
  <2>1. UNCHANGED <<io, cursor, limit, published, heard, undefined>> /\ cursor = 0
    <3>1. pc = "drain"
      BY <1>3 DEF HandlePacket
    <3> QED
      BY <1>0, <1>3, <3>1, PacketTaken DEF TypeInv, OutboxIsSent
  <2> QED
    BY <1>0, <2>1 DEF HeardInTurn, HeardSoFar, io
<1>4. CASE BroadcastBegins
  <2>1. /\ cursor = 0 /\ cursor' = 1 /\ limit' = Len(clients)
        /\ UNCHANGED <<known, clients, outbox, published, heard, undefined>>
    BY <1>4 DEF BroadcastBegins, io
  <2>2. \A i \in DOMAIN clients : ~(i < 1) /\ ~(i < 0)
    BY <1>0
  <2> QED
    BY <2>1, <2>2 DEF HeardInTurn, HeardSoFar
<1>5. CASE BroadcastWrites
  <2> DEFINE d == clients[cursor]
  <2>1. /\ cursor > 0 /\ cursor <= limit /\ cursor' = cursor + 1
        /\ cursor \in DOMAIN clients =>
             heard' = [heard EXCEPT ![d] = Append(heard[d], Head(outbox))] /\ UNCHANGED undefined
        /\ UNCHANGED <<known, clients, outbox, limit, published>>
    BY <1>5 DEF BroadcastWrites, Iterating, io
  <2>2. limit = Len(clients) /\ cursor \in DOMAIN clients
    BY <1>0, <2>1 DEF HeardInTurn
  <2>3. d \in known /\ heard[d] = published
    BY <1>0, <2>2 DEF HeardInTurn, HeardSoFar
  <2>4. \A i \in DOMAIN clients : i # cursor => clients[i] # d
    BY <2>2 DEF TypeInv, ClientsAreReaders
  <2> HIDE DEF d
  <2>5. ASSUME NEW i \in DOMAIN clients PROVE heard'[clients[i]] = HeardSoFar(i)'
    <3>1. CASE i = cursor
      <4>1. clients[i] = d /\ i < cursor'
        BY <1>0, <2>1, <3>1 DEF d
      <4> QED
        BY <1>0, <2>1, <2>2, <2>3, <4>1 DEF HeardSoFar
    <3>2. CASE i # cursor
      <4>1. heard'[clients[i]] = heard[clients[i]]
        BY <1>0, <2>1, <2>2, <2>4, <3>2
      <4>2. i < cursor' <=> i < cursor
        BY <1>0, <2>1, <3>2
      <4> QED
        BY <2>1, <4>1, <4>2 DEF HeardInTurn, HeardSoFar
    <3> QED
      BY <3>1, <3>2
  <2>6. \A c \in Conns : c \notin known' => heard'[c] = <<>>
    BY <1>0, <2>1, <2>2, <2>3 DEF HeardInTurn
  <2> QED
    BY <2>1, <2>2, <2>5, <2>6 DEF HeardInTurn
<1>6. CASE BroadcastEnds
  <2>1. /\ cursor > 0 /\ cursor > limit /\ cursor' = 0
        /\ published' = Append(published, Head(outbox))
        /\ UNCHANGED <<known, clients, heard, undefined>>
    BY <1>6 DEF BroadcastEnds, Iterating, io
  <2>2. \A i \in DOMAIN clients : i < cursor /\ ~(i < 0)
    BY <1>0, <2>1 DEF HeardInTurn
  <2> QED
    BY <2>1, <2>2 DEF HeardInTurn, HeardSoFar
<1>7. ASSUME NEW c \in Conns, IoPacket(c) PROVE HeardInTurn'
  BY <1>1, <1>7, PacketQueued
<1>8. ASSUME NEW c \in Conns, NEW packet \in Packets, Receive(c, packet) PROVE HeardInTurn'
  BY <1>1, <1>8, PoliteSending
<1>9. CASE Stop \/ AcceptError \/ ChangesPhase
  BY <1>1, <1>9, OnlyThePhase DEF Stop, AcceptError, io
<1>10. CASE UNCHANGED vars
  BY <1>1, <1>10 DEF vars, io
<1> QED
  BY <1>2, <1>3, <1>4, <1>5, <1>6, <1>7, <1>8, <1>9, <1>10, NobodyLeaves
  DEF Next, IoStep, GameStep, ChangesPhase

-----------------------------------------------------------------------------
(* The theorems *)

\* The invariant of a polite game.
LEMMA PoliteHolds ==
  ASSUME PoliteGame
  PROVE  Spec => []PoliteInv
<1>1. Init => BegunWhenFull /\ OwnTokens /\ OwnPlaces /\ HeardInTurn
  BY DEF Init, BegunWhenFull, Begun, MoveUnderWay, OwnTokens, OwnPlaces, HeardInTurn,
         HeardSoFar, Idle, Failed
<1>2. PoliteInv /\ [Next]_vars => (BegunWhenFull /\ OwnTokens /\ OwnPlaces /\ HeardInTurn)'
  BY StepBegun, StepOwnTokens, StepOwnPlaces, StepHeardInTurn
<1>3. /\ PoliteInv <=> /\ GameState
                       /\ BegunWhenFull /\ OwnTokens /\ OwnPlaces /\ HeardInTurn
      /\ GameState <=> /\ TypeInv /\ OneShipPerToken /\ ShipsAreNamed /\ NamesLead
                       /\ AnnouncedOrWaiting
  BY DEF PoliteInv, GameState, IdInv
<1> QED
  BY <1>1, <1>2, <1>3, ShipsHold, NamesHold, AnnouncedHolds, PTL DEF Spec

(***************************************************************************)
(* When the players are polite, _clients neither shrinks nor moves while   *)
(* the game thread walks over it, unguarded though it is: whoever is still *)
(* to come has a token that is expected, and nothing is broadcast before   *)
(* all tokens are used.                                                    *)
(***************************************************************************)
THEOREM PoliteGamesStayDefined ==
  ASSUME PoliteGame
  PROVE  Spec => []StaysDefined
<1>1. PoliteInv => StaysDefined
  BY DEF PoliteInv, HeardInTurn, StaysDefined
<1> QED
  BY <1>1, PoliteHolds, PTL

(***************************************************************************)
(* Between two broadcasts every client of a polite game has heard all that *)
(* was broadcast, in the same order, however the accepts and the reads of  *)
(* the I/O thread come between the writes of the game thread.              *)
(***************************************************************************)
THEOREM PolitePlayersHear ==
  ASSUME PoliteGame
  PROVE  Spec => []EveryoneHears
<1>1. PoliteInv => EveryoneHears
  <2> SUFFICES ASSUME PoliteInv, pc # "send", NEW i \in DOMAIN clients
               PROVE  heard[clients[i]] = published
    BY DEF EveryoneHears
  <2>1. cursor = 0
    BY DEF PoliteInv, GameState, IdInv, TypeInv, TypeOK, OutboxIsSent
  <2>2. ~(i < 0)
    BY LenProperties DEF PoliteInv, GameState, IdInv, TypeInv, TypeOK
  <2> QED
    BY <2>1, <2>2 DEF PoliteInv, HeardInTurn, HeardSoFar
<1> QED
  BY <1>1, PoliteHolds, PTL

(***************************************************************************)
(* A polite player that has a ship may move it: its ID leads to the        *)
(* nickname of its token, and to no name that was entered before.          *)
(***************************************************************************)
THEOREM PolitePlayersMayMove ==
  ASSUME PoliteGame
  PROVE  Spec => []PlayersMayMove
<1>1. PoliteInv => PlayersMayMove
  <2> SUFFICES ASSUME PoliteInv, NEW s \in created
               PROVE  CanActOnEntity(IdOf(s.from), s.nick)
    BY DEF PlayersMayMove
  <2>1. PICK i \in DOMAIN clients : clients[i] = s.from /\ names[i - 1] = s.nick
    BY DEF PoliteInv, OwnPlaces
  <2>2. \A j \in DOMAIN clients : clients[j] = s.from => j = i
    BY <2>1 DEF PoliteInv, GameState, IdInv, TypeInv, ClientsAreReaders
  <2>3. IdOf(s.from) = i - 1
    BY <2>1, <2>2 DEF IdOf
  <2>4. s.nick # Absent
    BY NullsAssumption DEF PoliteInv, GameState, IdInv, TypeInv, TypeOK, Entities
  <2> QED
    BY <2>1, <2>3, <2>4 DEF CanActOnEntity, Emplaced
<1> QED
  BY <1>1, PoliteHolds, PTL
=============================================================================
