-------------------------- MODULE GameServerProofs --------------------------
(***************************************************************************)
(* Theorems about GameServer, for any connections, tokens and players.     *)
(***************************************************************************)
EXTENDS GameServer, FiniteSetTheorems, SequenceTheorems, TLAPS

-----------------------------------------------------------------------------
(* Sequences and sets *)

\* Appending adds one element behind the others, which keep their places.
LEMMA Appended ==
  ASSUME NEW S, NEW q \in Seq(S), NEW e \in S
  PROVE  /\ Append(q, e) \in Seq(S)
         /\ Len(q) \in Nat /\ DOMAIN q = 1..Len(q)
         /\ Len(Append(q, e)) = Len(q) + 1
         /\ DOMAIN Append(q, e) = 1..(Len(q) + 1)
         /\ \A i \in DOMAIN q : Append(q, e)[i] = q[i] /\ q[i] \in S
         /\ Append(q, e)[Len(q) + 1] = e
<1>1. /\ Append(q, e) \in Seq(S) /\ Len(Append(q, e)) = Len(q) + 1
      /\ \A i \in 1..Len(q) : Append(q, e)[i] = q[i]
      /\ Append(q, e)[Len(q) + 1] = e
  BY AppendProperties
<1> QED
  BY <1>1, LenProperties, ElementOfSeq

\* What is left when the first element is taken.
LEMMA Taken ==
  ASSUME NEW S, NEW q \in Seq(S), q # <<>>
  PROVE  /\ Head(q) \in S /\ Head(q) = q[1] /\ 1 \in DOMAIN q
         /\ Tail(q) \in Seq(S)
         /\ \A i \in DOMAIN Tail(q) : i + 1 \in DOMAIN q /\ Tail(q)[i] = q[i + 1]
<1>1. /\ Head(q) \in S /\ Tail(q) \in Seq(S) /\ Len(Tail(q)) = Len(q) - 1
      /\ \A i \in 1..Len(Tail(q)) : Tail(q)[i] = q[i + 1]
  BY HeadTailProperties
<1>2. /\ Len(q) \in Nat /\ DOMAIN q = 1..Len(q)
      /\ Len(Tail(q)) \in Nat /\ DOMAIN Tail(q) = 1..Len(Tail(q))
  BY <1>1, LenProperties
<1>3. Len(q) # 0
  BY EmptySeq
<1> QED
  BY <1>1, <1>2, <1>3

\* Removing an element moves those behind it one place forward.
LEMMA Removed ==
  ASSUME NEW S, NEW q \in Seq(S), NEW k \in DOMAIN q
  PROVE  /\ RemoveAt(q, k) \in Seq(S)
         /\ Len(q) \in Nat /\ DOMAIN q = 1..Len(q)
         /\ Len(RemoveAt(q, k)) = Len(q) - 1
         /\ DOMAIN RemoveAt(q, k) = 1..(Len(q) - 1)
         /\ \A i \in 1..(Len(q) - 1) : RemoveAt(q, k)[i] = IF i < k THEN q[i] ELSE q[i + 1]
<1> DEFINE n == Len(q)
           a == SubSeq(q, 1, k - 1)
           b == SubSeq(q, k + 1, n)
<1>1. n \in Nat /\ DOMAIN q = 1..n /\ k \in 1..n /\ \A i \in 1..n : q[i] \in S
  BY LenProperties, ElementOfSeq
<1> HIDE DEF n
<1>2. /\ a \in Seq(S) /\ Len(a) = k - 1 /\ \A i \in 1..(k - 1) : a[i] = q[i]
  <2>1. 1 \in Int /\ k - 1 \in Int /\ \A i \in 1..(k - 1) : q[i] \in S
    BY <1>1
  <2>2. /\ a \in Seq(S) /\ Len(a) = IF 1 <= k - 1 THEN (k - 1) - 1 + 1 ELSE 0
        /\ \A i \in 1..((k - 1) - 1 + 1) : a[i] = q[1 + i - 1]
    BY <2>1, SubSeqProperties
  <2> QED
    BY <1>1, <2>2
<1>3. /\ b \in Seq(S) /\ Len(b) = n - k /\ \A i \in 1..(n - k) : b[i] = q[i + k]
  <2>1. k + 1 \in Int /\ n \in Int /\ \A i \in (k + 1)..n : q[i] \in S
    BY <1>1
  <2>2. /\ b \in Seq(S) /\ Len(b) = IF k + 1 <= n THEN n - (k + 1) + 1 ELSE 0
        /\ \A i \in 1..(n - (k + 1) + 1) : b[i] = q[(k + 1) + i - 1]
    BY <2>1, SubSeqProperties
  <2> QED
    BY <1>1, <2>2
<1>4. RemoveAt(q, k) = a \o b
  BY DEF RemoveAt, n
<1> HIDE DEF a, b
<1>5. /\ a \o b \in Seq(S) /\ Len(a \o b) = n - 1
      /\ \A i \in 1..(n - 1) : (a \o b)[i] = IF i <= k - 1 THEN a[i] ELSE b[i - (k - 1)]
  <2>1. /\ a \o b \in Seq(S) /\ Len(a \o b) = Len(a) + Len(b)
        /\ \A i \in 1..(Len(a) + Len(b)) :
             (a \o b)[i] = IF i <= Len(a) THEN a[i] ELSE b[i - Len(a)]
    BY <1>2, <1>3, ConcatProperties
  <2>2. Len(a) + Len(b) = n - 1
    BY <1>1, <1>2, <1>3
  <2> QED
    BY <1>2, <2>1, <2>2
<1>6. \A i \in 1..(n - 1) : (a \o b)[i] = IF i < k THEN q[i] ELSE q[i + 1]
  <2> SUFFICES ASSUME NEW i \in 1..(n - 1)
               PROVE  (a \o b)[i] = IF i < k THEN q[i] ELSE q[i + 1]
    OBVIOUS
  <2>1. CASE i < k
    BY <1>1, <1>2, <1>5, <2>1
  <2>2. CASE ~(i < k)
    <3> DEFINE j == i - (k - 1)
    <3>1. j \in 1..(n - k) /\ j + k = i + 1 /\ ~(i <= k - 1)
      BY <1>1, <2>2
    <3>2. (a \o b)[i] = b[j]
      BY <1>5, <3>1
    <3> HIDE DEF j
    <3>3. b[j] = q[i + 1]
      BY <1>3, <3>1
    <3> QED
      BY <2>2, <3>2, <3>3
  <2> QED
    BY <2>1, <2>2
<1>7. DOMAIN (a \o b) = 1..(n - 1)
  BY <1>5, LenProperties
<1> QED
  BY <1>1, <1>4, <1>5, <1>6, <1>7 DEF n

\* A sequence of different elements is not longer than the set they are from.
LEMMA DistinctFit ==
  ASSUME NEW S, IsFiniteSet(S), NEW q \in Seq(S),
         \A i, j \in DOMAIN q : q[i] = q[j] => i = j
  PROVE  Len(q) <= Cardinality(S) /\ Cardinality(S) \in Nat
<1> DEFINE n == Len(q)
<1>1. n \in Nat /\ DOMAIN q = 1..n /\ q \in [1..n -> S]
  BY LenProperties
<1>2. q \in Injection(1..n, S)
  BY <1>1 DEF Injection, IsInjective
<1> HIDE DEF n
<1>3. Cardinality(1..n) = n
  <2>1. 1 \in Int /\ n \in Int /\ (IF 1 > n THEN 0 ELSE n - 1 + 1) = n
    BY <1>1
  <2> QED
    BY <2>1, FS_Interval
<1>4. Cardinality(1..n) <= Cardinality(S)
  BY <1>2, FS_Injection
<1> QED
  BY <1>3, <1>4, FS_CardinalityType DEF n

-----------------------------------------------------------------------------
(* The parts of the invariant, each inductive with the types *)

(***************************************************************************)
(* The I/O thread: the clients are different connections, and those that   *)
(* are read from.                                                          *)
(***************************************************************************)
ClientsAreReaders ==
  /\ \A i, j \in DOMAIN clients : clients[i] = clients[j] => i = j
  /\ \A c \in Conns : pending[c] # Idle <=> \E i \in DOMAIN clients : clients[i] = c

\* The game thread: tokens become ships, which are numbered in turn.
TokensBecomeShips ==
  /\ IsFiniteSet(created)
  /\ Cardinality(created) + Cardinality(authToks) = Cardinality(Tokens)
  /\ \A s \in created : s.id < Cardinality(created) /\ s.y > 200 * Cardinality(authToks)

\* The broadcast: there is something to send as long as it goes on.
OutboxIsSent ==
  /\ pc = "send" <=> outbox # <<>>
  /\ cursor > 0 => pc = "send"

TypeInv == TypeOK /\ ClientsAreReaders /\ TokensBecomeShips /\ OutboxIsSent

-----------------------------------------------------------------------------
(* The operators the model is built from *)

\* The reads differ in their type.
LEMMA ReadKinds ==
  /\ Idle # Armed /\ Idle # Failed /\ Armed # Failed
  /\ \A p \in Packets : p # Idle /\ p # Armed /\ p # Failed
  /\ \A p \in Packets : \/ /\ p.type = "Authenticate"
                           /\ \E c \in Conns : p = Authenticate(TokenOf[c])
                        \/ /\ p.type = "Move"
                           /\ p.ettName \in Names /\ p = Move(p.ettName)
BY DEF Idle, Armed, Failed, Packets, Authenticate, Move

\* The notices differ in their type, and those of one type in their name.
LEMMA NoticeKinds ==
  /\ \A n : CreatePlayer(n).type = "CreatePlayer" /\ SetPosition(n).type = "SetPosition"
  /\ \A n, k : CreatePlayer(n) = CreatePlayer(k) => n = k
  /\ \A n \in Nicks : CreatePlayer(n) \in Notices
  /\ \A n \in Names : SetPosition(n) \in Notices
BY DEF CreatePlayer, SetPosition, Notices

\* The empty name is a name, but not a nickname; "no entry" is neither.
LEMMA NameKinds ==
  /\ Nicks \subseteq Names /\ NoName \in Names /\ NoName \notin Nicks /\ Absent \notin Names
  /\ \A n \in Names : n # NoName => n \in Nicks
BY NullsAssumption DEF Names

\* The numbers that count connections and tokens.
LEMMA Counts ==
  /\ Cardinality(Conns) \in Nat /\ Cardinality(Tokens) \in Nat
  /\ 0 \in EntityIds
  /\ \A i \in EntityIds : i # Absent
  /\ Cardinality(Tokens) <= Mode + 1
BY ConnsAssumption, TokensAssumption, NullsAssumption, FS_CardinalityType DEF EntityIds

\* A connection that is read from has an ID, and _clients has it there.
LEMMA ReadersHaveIds ==
  ASSUME TypeOK, ClientsAreReaders, NEW c \in Conns, pending[c] # Idle
  PROVE  /\ IdOf(c) \in Ids
         /\ IdOf(c) + 1 \in DOMAIN clients
         /\ clients[IdOf(c) + 1] = c
<1> DEFINE k == CHOOSE i \in DOMAIN clients : clients[i] = c
<1>1. k \in DOMAIN clients /\ clients[k] = c
  BY DEF ClientsAreReaders
<1>2. IdOf(c) = k - 1
  BY DEF IdOf
<1> HIDE DEF k
<1>3. /\ clients \in Seq(Conns) /\ Len(clients) \in Nat /\ DOMAIN clients = 1..Len(clients)
  BY SeqMonotonic, LenProperties DEF TypeOK
<1>4. Len(clients) <= Cardinality(Conns) /\ Cardinality(Conns) \in Nat
  BY <1>3, DistinctFit, ConnsAssumption DEF ClientsAreReaders
<1> QED
  BY <1>1, <1>2, <1>3, <1>4 DEF Ids

-----------------------------------------------------------------------------
(* Type correctness *)

\* A game server starts well typed, and reads from all its clients: none.
LEMMA InitTypes == Init => TypeInv
<1> SUFFICES ASSUME Init PROVE TypeInv
  OBVIOUS
<1> USE DEF Init
<1>1. \A S : <<>> \in Seq(S)
  BY EmptySeq
<1>2. Cardinality(Conns) \in Nat /\ Cardinality(Tokens) \in Nat
  BY Counts
<1>3. TypeOK
  <2>1. 0 \in 0..MaxReceived /\ 0 \in 0..(Cardinality(Conns) + 1) /\ 0 \in 0..Cardinality(Conns)
    BY <1>2, ModeAssumption
  <2>2. clients \in Seq(known) /\ Len(clients) <= capacity /\ capacity \in Nat
    BY <1>1
  <2>3. queue \in Seq(Entries)
    BY <1>1
  <2>4. batch \in Seq(Notices) /\ outbox \in Seq(Notices) /\ published \in Seq(Notices)
    BY <1>1
  <2>5. heard \in [Conns -> Seq(Notices)]
    BY <1>1
  <2>6. pending \in [Conns -> Packets \cup {Idle, Armed, Failed}]
    OBVIOUS
  <2>7. /\ names \in [Ids -> Names \cup {Absent}]
        /\ ships \in [Names -> EntityIds \cup {Absent}]
    OBVIOUS
  <2>8. /\ known \subseteq Conns /\ authToks \subseteq Tokens
        /\ created \subseteq Entities /\ moves \subseteq [from : Conns, ettName : Names, ship : EntityIds]
    OBVIOUS
  <2> QED
    BY <2>1, <2>2, <2>3, <2>4, <2>5, <2>6, <2>7, <2>8 DEF TypeOK, Phases
<1>4. ClientsAreReaders
  BY DEF ClientsAreReaders
<1>5. TokensBecomeShips
  BY <1>2, FS_EmptySet DEF TokensBecomeShips
<1>6. OutboxIsSent
  BY DEF OutboxIsSent
<1> QED
  BY <1>3, <1>4, <1>5, <1>6 DEF TypeInv

\* The counting of the ships that a token that becomes one keeps up.
LEMMA OneMoreShip ==
  ASSUME TypeInv, NEW t \in authToks
  PROVE  /\ t \in Tokens /\ NickOf[t] \in Nicks
         /\ NextID \in EntityIds /\ StartPlace \in Places
         /\ IsFiniteSet(authToks)
         /\ Cardinality(authToks) \in Nat /\ Cardinality(created) \in Nat
         /\ Cardinality(authToks \ {t}) = Cardinality(authToks) - 1
         /\ \A s : s.id = NextID =>
              /\ IsFiniteSet(created \cup {s})
              /\ Cardinality(created \cup {s}) = Cardinality(created) + 1
<1> USE DEF TypeInv
<1>1. t \in Tokens /\ NickOf[t] \in Nicks
  BY TokensAssumption DEF TypeOK
<1>2. /\ IsFiniteSet(authToks) /\ Cardinality(authToks) <= Cardinality(Tokens)
      /\ Cardinality(authToks) \in Nat
  BY TokensAssumption, FS_Subset, FS_CardinalityType DEF TypeOK
<1>3. Cardinality(authToks \ {t}) = Cardinality(authToks) - 1
  BY <1>2, FS_RemoveElement
<1>4. Cardinality(authToks \ {t}) \in Nat
  BY <1>2, FS_RemoveElement, FS_CardinalityType
<1>5. IsFiniteSet(created) /\ Cardinality(created) \in Nat
  BY FS_CardinalityType DEF TokensBecomeShips
<1>6. Cardinality(created) <= Cardinality(Tokens) /\ Cardinality(Tokens) \in Nat
  BY <1>2, <1>5, Counts DEF TokensBecomeShips
<1>7. NextID \in EntityIds /\ StartPlace \in Places
  BY <1>2, <1>5, <1>6 DEF NextID, EntityIds, StartPlace, Places
<1>8. ASSUME NEW s, s.id = NextID
      PROVE  /\ IsFiniteSet(created \cup {s})
             /\ Cardinality(created \cup {s}) = Cardinality(created) + 1
  <2>1. s \notin created
    BY <1>5, <1>8 DEF TokensBecomeShips, NextID
  <2> QED
    BY <1>5, <2>1, FS_AddElement
<1> QED
  BY <1>1, <1>2, <1>3, <1>5, <1>7, <1>8

\* An expected token that is authenticated becomes a ship.
LEMMA AuthenticatingTypes ==
  ASSUME TypeInv, NEW entry \in Entries, AuthenticateOk(entry)
  PROVE  /\ authToks' \subseteq Tokens
         /\ names' \in [Ids -> Names \cup {Absent}]
         /\ ships' \in [Names -> EntityIds \cup {Absent}]
         /\ created' \subseteq Entities
         /\ batch' \in Seq(Notices) /\ outbox' \in Seq(Notices)
         /\ moves' = moves
         /\ TokensBecomeShips'
<1> DEFINE t == entry.packet.token
           n == NickOf[t]
           new == [id |-> NextID, from |-> entry.from, token |-> t, nick |-> n, y |-> StartPlace]
           all == Append(batch, CreatePlayer(n))
<1>1. /\ t \in authToks /\ n \in Nicks /\ t \in Tokens
      /\ NextID \in EntityIds /\ StartPlace \in Places
      /\ Cardinality(authToks) \in Nat /\ Cardinality(created) \in Nat
      /\ Cardinality(authToks \ {t}) = Cardinality(authToks) - 1
      /\ \A s : s.id = NextID =>
           /\ IsFiniteSet(created \cup {s})
           /\ Cardinality(created \cup {s}) = Cardinality(created) + 1
  BY OneMoreShip DEF AuthenticateOk
<1>2. /\ names' = Emplaced(names, entry.id, n) /\ ships' = Emplaced(ships, n, NextID)
      /\ created' = created \cup {new} /\ authToks' = authToks \ {t} /\ moves' = moves
      /\ batch' = IF BatchComplete(all) THEN <<>> ELSE all
      /\ outbox' = IF BatchComplete(all) THEN all ELSE <<>>
  BY DEF AuthenticateOk, TokensWithout
<1>3. entry.id \in Ids /\ entry.from \in Conns
  BY DEF Entries
<1>4. new \in Entities /\ new.id = NextID /\ new.y = StartPlace
  BY <1>1, <1>3 DEF Entities
<1> HIDE DEF t, n, new
<1>5. names' \in [Ids -> Names \cup {Absent}] /\ ships' \in [Names -> EntityIds \cup {Absent}]
  BY <1>1, <1>2, <1>3, NameKinds DEF TypeInv, TypeOK, Emplaced
<1>6. authToks' \subseteq Tokens /\ created' \subseteq Entities
  BY <1>1, <1>2, <1>4 DEF TypeInv, TypeOK
<1>7. all \in Seq(Notices) /\ <<>> \in Seq(Notices)
  BY <1>1, NoticeKinds, Appended, EmptySeq DEF TypeInv, TypeOK
<1> HIDE DEF all
<1>8. batch' \in Seq(Notices) /\ outbox' \in Seq(Notices)
  BY <1>2, <1>7
<1>9. /\ Cardinality(created') = Cardinality(created) + 1 /\ IsFiniteSet(created')
      /\ Cardinality(authToks') = Cardinality(authToks) - 1
  BY <1>1, <1>2, <1>4
<1>10. ASSUME NEW s \in created'
       PROVE  s.id < Cardinality(created') /\ s.y > 200 * Cardinality(authToks')
  <2>1. s.y \in Int /\ s.id \in Int
    <3>1. s \in Entities
      BY <1>6, <1>10
    <3>2. s.y \in Places /\ s.id \in EntityIds
      BY <3>1 DEF Entities
    <3> QED
      BY <3>2 DEF Places, EntityIds
  <2>2. CASE s = new
    BY <1>1, <1>4, <1>9, <2>2 DEF NextID, StartPlace
  <2>3. CASE s \in created
    BY <1>1, <1>9, <2>1, <2>3 DEF TypeInv, TokensBecomeShips
  <2> QED
    BY <1>2, <2>2, <2>3
<1>11. TokensBecomeShips'
  BY <1>1, <1>9, <1>10, Counts DEF TypeInv, TokensBecomeShips
<1> QED
  BY <1>2, <1>5, <1>6, <1>8, <1>11

\* A Move changes the maps within their types.
LEMMA MovingTypes ==
  ASSUME TypeInv, NEW entry \in Entries, HandleMove(entry)
  PROVE  /\ names' \in [Ids -> Names \cup {Absent}]
         /\ ships' \in [Names -> EntityIds \cup {Absent}]
         /\ moves' \subseteq [from : Conns, ettName : Names, ship : EntityIds]
         /\ outbox' \in Seq(Notices)
         /\ UNCHANGED <<authToks, created, batch>>
<1> DEFINE n == entry.packet.ettName
<1>1. entry.id \in Ids /\ entry.from \in Conns /\ entry.packet \in Packets
  BY DEF Entries
<1>2. n \in Names
  <2>1. entry.packet.type = "Move"
    BY DEF HandleMove
  <2> QED
    BY <1>1, <2>1, ReadKinds
<1>3. /\ names' = Emplaced(names, entry.id, NoName)
      /\ \/ /\ ships' = Emplaced(ships, n, 0)
            /\ moves' = moves \cup {[from |-> entry.from, ettName |-> n, ship |-> ships'[n]]}
            /\ outbox' = <<SetPosition(n)>>
         \/ UNCHANGED <<ships, moves, outbox>>
      /\ UNCHANGED <<authToks, created, batch>>
  BY DEF HandleMove, EntityOf
<1> HIDE DEF n
<1> USE DEF TypeInv, TypeOK
<1>4. names' \in [Ids -> Names \cup {Absent}]
  BY <1>1, <1>3, NameKinds DEF Emplaced
<1>5. CASE UNCHANGED <<ships, moves, outbox>>
  BY <1>3, <1>4, <1>5
<1>6. CASE /\ ships' = Emplaced(ships, n, 0)
           /\ moves' = moves \cup {[from |-> entry.from, ettName |-> n, ship |-> ships'[n]]}
           /\ outbox' = <<SetPosition(n)>>
  <2>1. ships' \in [Names -> EntityIds \cup {Absent}] /\ ships'[n] \in EntityIds
    BY <1>2, <1>6, Counts DEF Emplaced
  <2>2. <<SetPosition(n)>> \in Seq(Notices)
    BY <1>2, NoticeKinds
  <2> QED
    BY <1>1, <1>2, <1>3, <1>4, <1>6, <2>1, <2>2
<1> QED
  BY <1>3, <1>5, <1>6

\* A new connection is the last client, and is read from.
LEMMA AcceptingTypes ==
  ASSUME TypeInv, NEW c \in Conns, Accept(c)
  PROVE  TypeInv'
<1> USE DEF TypeInv
<1>1. /\ c \notin known /\ known' = known \cup {c} /\ clients' = Append(clients, c)
      /\ capacity' = Grown /\ pending' = [pending EXCEPT ![c] = Armed]
      /\ undefined' = (Iterating /\ Grown # capacity)
      /\ UNCHANGED <<accepting, received, stopped, queue, players, pc, broadcast>>
  BY DEF Accept
<1>2. clients \in Seq(known') /\ c \in known' /\ known' \subseteq Conns
  BY <1>1, SeqMonotonic DEF TypeOK
<1>3. /\ clients' \in Seq(known') /\ Len(clients) \in Nat /\ DOMAIN clients = 1..Len(clients)
      /\ Len(clients') = Len(clients) + 1 /\ DOMAIN clients' = 1..(Len(clients) + 1)
      /\ \A i \in DOMAIN clients : clients'[i] = clients[i]
      /\ clients'[Len(clients) + 1] = c
  BY <1>1, <1>2, Appended
<1>4. capacity' \in Nat /\ Len(clients') <= capacity'
  BY <1>1, <1>3 DEF Grown, TypeOK
<1>5. pending' \in [Conns -> Packets \cup {Idle, Armed, Failed}] /\ undefined' \in BOOLEAN
  BY <1>1 DEF TypeOK
<1>6. TypeOK'
  BY <1>1, <1>2, <1>3, <1>4, <1>5 DEF TypeOK, players, broadcast
<1>7. \A i \in DOMAIN clients : clients[i] # c
  BY <1>1, ElementOfSeq, LenProperties DEF TypeOK
<1>8. \A i \in 1..(Len(clients) + 1) : i \in DOMAIN clients \/ i = Len(clients) + 1
  BY <1>3
<1>9. \A i, j \in DOMAIN clients' : clients'[i] = clients'[j] => i = j
  BY <1>3, <1>7, <1>8 DEF ClientsAreReaders
<1>10. \A d \in Conns : pending'[d] # Idle <=> \E i \in DOMAIN clients' : clients'[i] = d
  <2> SUFFICES ASSUME NEW d \in Conns
               PROVE  pending'[d] # Idle <=> \E i \in DOMAIN clients' : clients'[i] = d
    OBVIOUS
  <2>1. CASE d = c
    <3>1. Len(clients) + 1 \in DOMAIN clients'
      BY <1>3
    <3> QED
      BY <1>1, <1>3, <2>1, <3>1, ReadKinds DEF TypeOK
  <2>2. CASE d # c
    <3>1. pending'[d] = pending[d]
      BY <1>1, <2>2 DEF TypeOK
    <3>2. \A i \in DOMAIN clients : i \in DOMAIN clients'
      BY <1>3
    <3> QED
      BY <1>3, <1>8, <2>2, <3>1, <3>2 DEF ClientsAreReaders
  <2> QED
    BY <2>1, <2>2
<1>11. TokensBecomeShips' /\ OutboxIsSent'
  BY <1>1 DEF TokensBecomeShips, OutboxIsSent, players, broadcast
<1> QED
  BY <1>6, <1>9, <1>10, <1>11 DEF ClientsAreReaders

\* A client that fails is no longer one, and those behind it move up.
LEMMA LeavingTypes ==
  ASSUME TypeInv, NEW c \in Conns, IoError(c)
  PROVE  TypeInv'
<1> USE DEF TypeInv
<1> DEFINE k == IdOf(c) + 1
           n == Len(clients)
<1>1. /\ pending[c] = Failed /\ clients' = RemoveAt(clients, k)
      /\ pending' = [pending EXCEPT ![c] = Idle]
      /\ UNCHANGED <<accepting, known, capacity, received, stopped, queue, players, pc,
                     broadcast, undefined>>
  BY DEF IoError
<1>2. k \in DOMAIN clients /\ clients[k] = c
  BY <1>1, ReadersHaveIds, ReadKinds
<1> HIDE DEF k
<1>3. /\ clients' \in Seq(known) /\ n \in Nat /\ DOMAIN clients = 1..n
      /\ Len(clients') = n - 1 /\ DOMAIN clients' = 1..(n - 1)
      /\ \A i \in 1..(n - 1) : clients'[i] = IF i < k THEN clients[i] ELSE clients[i + 1]
  BY <1>1, <1>2, Removed DEF TypeOK
<1> HIDE DEF n
<1>4. TypeOK'
  <2>1. pending' \in [Conns -> Packets \cup {Idle, Armed, Failed}]
    BY <1>1 DEF TypeOK
  <2>2. Len(clients') <= capacity'
    BY <1>1, <1>3 DEF TypeOK, n
  <2> QED
    BY <1>1, <1>3, <2>1, <2>2 DEF TypeOK, players, broadcast
<1>5. \A i \in 1..n : i # k =>
        \/ i \in 1..(n - 1) /\ clients'[i] = clients[i]
        \/ i - 1 \in 1..(n - 1) /\ clients'[i - 1] = clients[i]
  <2> SUFFICES ASSUME NEW i \in 1..n, i # k
               PROVE  \/ i \in 1..(n - 1) /\ clients'[i] = clients[i]
                      \/ i - 1 \in 1..(n - 1) /\ clients'[i - 1] = clients[i]
    OBVIOUS
  <2>1. k \in 1..n /\ n \in Nat
    BY <1>2, <1>3
  <2>2. CASE i < k
    BY <1>3, <2>1, <2>2
  <2>3. CASE i > k
    <3> DEFINE j == i - 1
    <3>1. j \in 1..(n - 1) /\ ~(j < k) /\ j + 1 = i
      BY <2>1, <2>3
    <3> HIDE DEF j
    <3>2. clients'[j] = clients[i]
      BY <1>3, <3>1
    <3> QED
      BY <3>1, <3>2 DEF j
  <2> QED
    BY <2>1, <2>2, <2>3
<1>6. \A i \in 1..(n - 1) : \E j \in 1..n : /\ j # k /\ clients'[i] = clients[j]
                                            /\ j = IF i < k THEN i ELSE i + 1
  <2> SUFFICES ASSUME NEW i \in 1..(n - 1)
               PROVE  LET j == IF i < k THEN i ELSE i + 1
                      IN  j \in 1..n /\ j # k /\ clients'[i] = clients[j]
    OBVIOUS
  <2>1. k \in 1..n /\ n \in Nat
    BY <1>2, <1>3
  <2> QED
    BY <1>3, <2>1
<1>7. \A i, j \in DOMAIN clients' : clients'[i] = clients'[j] => i = j
  <2> SUFFICES ASSUME NEW i \in 1..(n - 1), NEW j \in 1..(n - 1), clients'[i] = clients'[j]
               PROVE  i = j
    BY <1>3
  <2>1. PICK a \in 1..n : clients'[i] = clients[a] /\ a = IF i < k THEN i ELSE i + 1
    BY <1>6
  <2>2. PICK b \in 1..n : clients'[j] = clients[b] /\ b = IF j < k THEN j ELSE j + 1
    BY <1>6
  <2>3. a = b
    <3>1. a \in DOMAIN clients /\ b \in DOMAIN clients /\ clients[a] = clients[b]
      BY <1>3, <2>1, <2>2
    <3> QED
      BY <3>1 DEF ClientsAreReaders
  <2>4. k \in Int
    BY <1>2, <1>3
  <2> QED
    BY <2>1, <2>2, <2>3, <2>4
<1>8. \A d \in Conns : pending'[d] # Idle <=> \E i \in DOMAIN clients' : clients'[i] = d
  <2> SUFFICES ASSUME NEW d \in Conns
               PROVE  pending'[d] # Idle <=> \E i \in DOMAIN clients' : clients'[i] = d
    OBVIOUS
  <2>1. CASE d = c
    <3>1. \A i \in DOMAIN clients' : clients'[i] # c
      <4> SUFFICES ASSUME NEW i \in 1..(n - 1) PROVE clients'[i] # c
        BY <1>3
      <4>1. PICK j \in 1..n : j # k /\ clients'[i] = clients[j]
        BY <1>6
      <4> QED
        BY <1>2, <1>3, <4>1 DEF ClientsAreReaders
    <3> QED
      BY <1>1, <2>1, <3>1 DEF TypeOK
  <2>2. CASE d # c
    <3>1. pending'[d] = pending[d]
      BY <1>1, <2>2 DEF TypeOK
    <3>2. (\E i \in 1..n : clients[i] = d) <=> \E i \in 1..(n - 1) : clients'[i] = d
      BY <1>2, <1>5, <1>6, <2>2
    <3> QED
      BY <1>3, <3>1, <3>2 DEF ClientsAreReaders
  <2> QED
    BY <2>1, <2>2
<1>9. TokensBecomeShips' /\ OutboxIsSent'
  BY <1>1 DEF TokensBecomeShips, OutboxIsSent, players, broadcast
<1> QED
  BY <1>4, <1>7, <1>8, <1>9 DEF ClientsAreReaders

\* A client whose read changes is still a client, and is still read from.
LEMMA ReadingTypes ==
  ASSUME TypeInv, NEW c \in Conns, NEW p \in Packets \cup {Armed, Failed},
         pending[c] # Idle, pending' = [pending EXCEPT ![c] = p], UNCHANGED clients
  PROVE  /\ pending' \in [Conns -> Packets \cup {Idle, Armed, Failed}]
         /\ ClientsAreReaders'
<1>1. p # Idle
  BY ReadKinds
<1>2. \A d \in Conns : pending'[d] # Idle <=> pending[d] # Idle
  BY <1>1 DEF TypeInv, TypeOK
<1> QED
  BY <1>2 DEF TypeInv, TypeOK, ClientsAreReaders

\* The steps of the game thread that only take it from phase to phase.
ChangesPhase == Terminate \/ FrameEnds \/ FrameBegins \/ Finish

LEMMA OnlyThePhase ==
  ASSUME ChangesPhase
  PROVE  /\ UNCHANGED <<io, queue, players, broadcast, undefined>>
         /\ pc # "send" /\ pc' \in Phases /\ pc' # "send"
         /\ pc' = "dead" => Terminate
BY DEF ChangesPhase, Terminate, FrameEnds, FrameBegins, Finish, Goes, Phases

\* The game thread takes a packet from the queue.
LEMMA HandlingTypes ==
  ASSUME TypeInv, HandlePacket
  PROVE  TypeInv'
<1> DEFINE entry == Head(queue)
<1>1. /\ pc = "drain" /\ queue # <<>> /\ queue' = Tail(queue)
      /\ HandleAuthenticate(entry) \/ HandleMove(entry)
      /\ pc' = IF outbox' = <<>> THEN "drain" ELSE "send"
      /\ UNCHANGED <<io, cursor, limit, published, heard, undefined>>
  BY DEF HandlePacket
<1>2. entry \in Entries /\ queue' \in Seq(Entries)
  BY <1>1, Taken DEF TypeInv, TypeOK
<1> HIDE DEF entry
<1>3. /\ authToks' \subseteq Tokens
      /\ names' \in [Ids -> Names \cup {Absent}]
      /\ ships' \in [Names -> EntityIds \cup {Absent}]
      /\ created' \subseteq Entities
      /\ batch' \in Seq(Notices) /\ outbox' \in Seq(Notices)
      /\ moves' \subseteq [from : Conns, ettName : Names, ship : EntityIds]
      /\ TokensBecomeShips'
  <2>1. CASE AuthenticateOk(entry)
    <3>1. moves \subseteq [from : Conns, ettName : Names, ship : EntityIds]
      BY DEF TypeInv, TypeOK
    <3> QED
      BY <1>2, <2>1, <3>1, AuthenticatingTypes
  <2>2. CASE HandleMove(entry)
    <3>1. /\ authToks \subseteq Tokens /\ created \subseteq Entities /\ batch \in Seq(Notices)
          /\ TokensBecomeShips
      BY DEF TypeInv, TypeOK
    <3>2. UNCHANGED <<authToks, created, batch>>
      BY <1>2, <2>2, MovingTypes
    <3>3. TokensBecomeShips'
      BY <3>1, <3>2 DEF TokensBecomeShips
    <3> QED
      BY <1>2, <2>2, <3>1, <3>2, <3>3, MovingTypes
  <2>3. CASE AuthenticateFails(entry) \/ AuthenticateRefused(entry)
    <3>1. UNCHANGED <<players, outbox>>
      BY <2>3 DEF AuthenticateFails, AuthenticateRefused
    <3> QED
      BY <3>1 DEF TypeInv, TypeOK, TokensBecomeShips, players
  <2> QED
    BY <1>1, <2>1, <2>2, <2>3 DEF HandleAuthenticate
<1>4. TypeOK'
  BY <1>1, <1>2, <1>3 DEF TypeInv, TypeOK, Phases, io
<1>5. ClientsAreReaders'
  BY <1>1 DEF TypeInv, ClientsAreReaders, io
<1>6. OutboxIsSent'
  BY <1>1 DEF TypeInv, OutboxIsSent
<1> QED
  BY <1>3, <1>4, <1>5, <1>6 DEF TypeInv

\* The game thread broadcasts a notice.
LEMMA BroadcastingTypes ==
  ASSUME TypeInv, BroadcastBegins \/ BroadcastWrites \/ BroadcastEnds
  PROVE  TypeInv'
<1> USE DEF TypeInv
<1>1. /\ UNCHANGED <<io, queue, players>>
      /\ pc = "send"
  BY DEF BroadcastBegins, BroadcastWrites, BroadcastEnds, Iterating
<1>2. ClientsAreReaders' /\ TokensBecomeShips'
  BY <1>1 DEF ClientsAreReaders, TokensBecomeShips, io, players
<1>3. outbox # <<>> /\ outbox \in Seq(Notices)
  BY <1>1 DEF OutboxIsSent, TypeOK
<1>4. Head(outbox) \in Notices /\ Tail(outbox) \in Seq(Notices)
  BY <1>3, Taken
<1>5. /\ Len(clients) \in Nat /\ DOMAIN clients = 1..Len(clients)
      /\ \A i \in DOMAIN clients : clients[i] \in Conns
      /\ Len(clients) <= Cardinality(Conns) /\ Cardinality(Conns) \in Nat
  <2>1. clients \in Seq(Conns)
    BY SeqMonotonic DEF TypeOK
  <2> QED
    BY <2>1, DistinctFit, ConnsAssumption, LenProperties, ElementOfSeq DEF ClientsAreReaders
<1>6. CASE BroadcastBegins
  <2>1. /\ cursor' = 1 /\ limit' = Len(clients)
        /\ UNCHANGED <<io, queue, players, pc, outbox, published, heard, undefined>>
    BY <1>6 DEF BroadcastBegins
  <2>2. cursor' \in 0..(Cardinality(Conns) + 1) /\ limit' \in 0..Cardinality(Conns)
    BY <1>5, <2>1
  <2>3. TypeOK'
    BY <2>1, <2>2 DEF TypeOK, io, players
  <2>4. OutboxIsSent'
    BY <1>1, <2>1 DEF OutboxIsSent
  <2> QED
    BY <1>2, <2>3, <2>4
<1>7. CASE BroadcastWrites
  <2>1. /\ cursor <= limit /\ cursor' = cursor + 1
        /\ IF cursor \in DOMAIN clients
           THEN /\ heard' = [heard EXCEPT ![clients[cursor]] = Append(@, Head(outbox))]
                /\ UNCHANGED undefined
           ELSE undefined' = TRUE /\ UNCHANGED heard
        /\ UNCHANGED <<io, queue, players, pc, outbox, limit, published>>
    BY <1>7 DEF BroadcastWrites
  <2>2. cursor' \in 0..(Cardinality(Conns) + 1)
    BY <1>5, <2>1 DEF TypeOK
  <2>3. heard' \in [Conns -> Seq(Notices)] /\ undefined' \in BOOLEAN
    <3>1. CASE cursor \in DOMAIN clients
      <4>1. clients[cursor] \in Conns /\ heard[clients[cursor]] \in Seq(Notices)
        BY <1>5, <3>1 DEF TypeOK
      <4>2. Append(heard[clients[cursor]], Head(outbox)) \in Seq(Notices)
        BY <1>4, <4>1, Appended
      <4> QED
        BY <2>1, <3>1, <4>1, <4>2 DEF TypeOK
    <3>2. CASE cursor \notin DOMAIN clients
      BY <2>1, <3>2 DEF TypeOK
    <3> QED
      BY <3>1, <3>2
  <2>4. TypeOK'
    BY <2>1, <2>2, <2>3 DEF TypeOK, io, players
  <2>5. OutboxIsSent'
    BY <1>1, <2>1 DEF OutboxIsSent
  <2> QED
    BY <1>2, <2>4, <2>5
<1>8. CASE BroadcastEnds
  <2>1. /\ cursor' = 0 /\ limit' = 0
        /\ published' = Append(published, Head(outbox)) /\ outbox' = Tail(outbox)
        /\ pc' = IF Tail(outbox) = <<>> THEN "drain" ELSE "send"
        /\ UNCHANGED <<io, queue, players, heard, undefined>>
    BY <1>8 DEF BroadcastEnds
  <2>2. cursor' \in 0..(Cardinality(Conns) + 1) /\ limit' \in 0..Cardinality(Conns)
    BY <1>5, <2>1
  <2>3. published' \in Seq(Notices) /\ outbox' \in Seq(Notices)
    BY <1>4, <2>1, Appended DEF TypeOK
  <2>4. TypeOK'
    BY <2>1, <2>2, <2>3 DEF TypeOK, Phases, io, players
  <2>5. OutboxIsSent'
    BY <2>1 DEF OutboxIsSent
  <2> QED
    BY <1>2, <2>4, <2>5
<1> QED
  BY <1>6, <1>7, <1>8

\* Every step keeps the types, and every client read from.
LEMMA StepTypes == TypeInv /\ [Next]_vars => TypeInv'
<1> SUFFICES ASSUME TypeInv, [Next]_vars PROVE TypeInv'
  OBVIOUS
<1>1. CASE Stop
  BY <1>1 DEF Stop, TypeInv, TypeOK, ClientsAreReaders, TokensBecomeShips, OutboxIsSent,
              players, broadcast
<1>2. CASE AcceptError
  BY <1>2 DEF AcceptError, TypeInv, TypeOK, ClientsAreReaders, TokensBecomeShips, OutboxIsSent,
              players, broadcast
<1>3. ASSUME NEW c \in Conns, Accept(c) PROVE TypeInv'
  BY <1>3, AcceptingTypes
<1>4. ASSUME NEW c \in Conns, NEW packet \in Packets, Receive(c, packet) PROVE TypeInv'
  <2>1. /\ pending[c] = Armed /\ received < MaxReceived
        /\ pending' = [pending EXCEPT ![c] = packet] /\ received' = received + 1
        /\ UNCHANGED <<accepting, known, clients, capacity, stopped, queue, players, pc,
                       broadcast, undefined>>
    BY <1>4 DEF Receive
  <2>2. pending' \in [Conns -> Packets \cup {Idle, Armed, Failed}] /\ ClientsAreReaders'
    BY <2>1, ReadingTypes, ReadKinds
  <2>3. received' \in 0..MaxReceived
    BY <2>1, ModeAssumption DEF TypeInv, TypeOK
  <2> QED
    BY <2>1, <2>2, <2>3
       DEF TypeInv, TypeOK, TokensBecomeShips, OutboxIsSent, players, broadcast
<1>5. ASSUME NEW c \in Conns, PeerClose(c) PROVE TypeInv'
  <2>1. /\ pending[c] = Armed /\ pending' = [pending EXCEPT ![c] = Failed]
        /\ UNCHANGED <<accepting, known, clients, capacity, received, stopped, queue,
                       players, pc, broadcast, undefined>>
    BY <1>5 DEF PeerClose
  <2>2. pending' \in [Conns -> Packets \cup {Idle, Armed, Failed}] /\ ClientsAreReaders'
    BY <2>1, ReadingTypes, ReadKinds
  <2> QED
    BY <2>1, <2>2 DEF TypeInv, TypeOK, TokensBecomeShips, OutboxIsSent, players, broadcast
<1>6. ASSUME NEW c \in Conns, IoPacket(c) PROVE TypeInv'
  <2> DEFINE e == [id |-> IdOf(c), from |-> c, packet |-> pending[c]]
  <2>1. /\ pending[c] \in Packets
        /\ queue' = Append(queue, e)
        /\ pending' = [pending EXCEPT ![c] = Armed]
        /\ UNCHANGED <<accepting, known, clients, capacity, received, stopped,
                       players, pc, broadcast, undefined>>
    BY <1>6 DEF IoPacket
  <2>2. pending[c] # Idle
    BY <2>1, ReadKinds
  <2>3. e \in Entries
    BY <2>1, <2>2, ReadersHaveIds DEF Entries, TypeInv
  <2> HIDE DEF e
  <2>4. queue' \in Seq(Entries)
    BY <2>1, <2>3, Appended DEF TypeInv, TypeOK
  <2>5. pending' \in [Conns -> Packets \cup {Idle, Armed, Failed}] /\ ClientsAreReaders'
    BY <2>1, <2>2, ReadingTypes
  <2> QED
    BY <2>1, <2>4, <2>5 DEF TypeInv, TypeOK, TokensBecomeShips, OutboxIsSent, players, broadcast
<1>7. ASSUME NEW c \in Conns, IoError(c) PROVE TypeInv'
  BY <1>7, LeavingTypes
<1>8. CASE HandlePacket
  BY <1>8, HandlingTypes
<1>9. CASE BroadcastBegins \/ BroadcastWrites \/ BroadcastEnds
  BY <1>9, BroadcastingTypes
<1>10. CASE ChangesPhase
  BY <1>10, OnlyThePhase DEF TypeInv, TypeOK, ClientsAreReaders, TokensBecomeShips, OutboxIsSent,
               io, players, broadcast
<1>11. CASE UNCHANGED vars
  BY <1>11 DEF TypeInv, TypeOK, ClientsAreReaders, TokensBecomeShips, OutboxIsSent,
               vars, io, players, broadcast
<1> QED
  BY <1>1, <1>2, <1>3, <1>4, <1>5, <1>6, <1>7, <1>8, <1>9, <1>10, <1>11
     DEF Next, IoStep, GameStep, ChangesPhase

\* The invariant of the types.
LEMMA TypesHold == Spec => []TypeInv
BY InitTypes, StepTypes, PTL DEF Spec

(***************************************************************************)
(* Whatever peers, network and signals do, every variable of a game server *)
(* keeps its type: IDs are below the number of connections, entity IDs     *)
(* below the number of tokens, and the loop of broadcastPacket() runs no   *)
(* further than one past the connections there are.                        *)
(***************************************************************************)
THEOREM GameTypes == Spec => []TypeOK
<1>1. TypeInv => TypeOK
  BY DEF TypeInv
<1> QED
  BY <1>1, TypesHold, PTL

(***************************************************************************)
(* The connections that are read from are those in _clients: no handler of *)
(* ServerIOThread leaves a client with nobody to hear it, and none looks   *)
(* for a connection that it has erased.                                    *)
(***************************************************************************)
THEOREM EveryClientIsRead == Spec => []NoDeafClient
<1>1. TypeInv => NoDeafClient
  BY DEF TypeInv, ClientsAreReaders, NoDeafClient, ToSet
<1> QED
  BY <1>1, TypesHold, PTL

-----------------------------------------------------------------------------
(* Ships and names *)

\* What the players are and own changes when their packets are handled.
Handles(entry) ==
  /\ pc = "drain" /\ pc' # "dead"
  /\ queue # <<>> /\ entry = Head(queue)
  /\ UNCHANGED io

\* Only the handlers of packets touch tokens, ships and names.
LEMMA OnlyPacketsActOnPlayers ==
  ASSUME TypeInv, [Next]_vars
  PROVE  \/ UNCHANGED players /\ (pc' = "dead" => pc = "dead" \/ Terminate)
         \/ \E entry \in Entries : /\ Handles(entry)
                                   /\ AuthenticateOk(entry) \/ HandleMove(entry)
<1>1. CASE HandlePacket
  <2> DEFINE entry == Head(queue)
  <2>1. /\ Handles(entry)
        /\ HandleAuthenticate(entry) \/ HandleMove(entry)
    BY <1>1 DEF HandlePacket, Handles
  <2>2. entry \in Entries
    BY <1>1, Taken DEF HandlePacket, TypeInv, TypeOK
  <2> HIDE DEF entry
  <2> QED
    BY <2>1, <2>2 DEF Handles, HandleAuthenticate, AuthenticateFails, AuthenticateRefused
<1>2. CASE ChangesPhase
  BY <1>2, OnlyThePhase
<1>3. CASE ~HandlePacket /\ ~ChangesPhase
  BY <1>3 DEF ChangesPhase, Next, Stop, AcceptError, Accept, Receive, PeerClose, IoStep, IoPacket, IoError,
              GameStep, BroadcastBegins, BroadcastWrites, BroadcastEnds, vars
<1> QED
  BY <1>1, <1>2, <1>3

\* What an expected token becomes.
ShipOf(entry) ==
  [id |-> NextID, from |-> entry.from, token |-> entry.packet.token,
   nick |-> NickOf[entry.packet.token], y |-> StartPlace]

\* What _handleAuth() does with a token that is expected.
LEMMA TokenBecomesShip ==
  ASSUME TypeInv, NEW entry \in Entries, AuthenticateOk(entry)
  PROVE  LET s == ShipOf(entry)
         IN  /\ s.token \in authToks /\ s.token \in Tokens
             /\ s.nick = NickOf[s.token] /\ s.nick \in Nicks
             /\ s.from = entry.from
             /\ created' = created \cup {s} /\ authToks' = authToks \ {s.token}
             /\ s.id \in EntityIds
             /\ \A u \in created : u.id < s.id /\ u.y > s.y /\ u # s
             /\ names' = Emplaced(names, entry.id, s.nick)
             /\ ships' = Emplaced(ships, s.nick, s.id)
             /\ moves' = moves
<1> DEFINE s == ShipOf(entry)
<1>1. /\ s.token = entry.packet.token /\ s.nick = NickOf[s.token] /\ s.id = NextID
      /\ s.from = entry.from /\ s.y = StartPlace
  BY DEF ShipOf
<1>2. /\ s.token \in authToks /\ authToks' = authToks \ {s.token}
      /\ created' = created \cup {s}
      /\ names' = Emplaced(names, entry.id, s.nick)
      /\ ships' = Emplaced(ships, s.nick, s.id)
      /\ moves' = moves
  BY <1>1 DEF AuthenticateOk, TokensWithout, ShipOf
<1> HIDE DEF s
<1>3. s.token \in Tokens /\ s.nick \in Nicks /\ s.id \in EntityIds
  BY <1>1, <1>2, OneMoreShip
<1>4. \A u \in created : u.id < s.id /\ u.y > s.y
  BY <1>1 DEF TypeInv, TokensBecomeShips, NextID, StartPlace
<1>5. s.id \in Int
  BY <1>3 DEF EntityIds
<1>6. \A u \in created : u # s
  BY <1>4, <1>5
<1> QED
  BY <1>1, <1>2, <1>3, <1>4, <1>6 DEF s

\* A ship has the nickname of the token that it is made of.
ShipsAreNamed == \A s \in created : s.nick = NickOf[s.token]

\* Every step keeps one ship per token, each with its name and ID.
LEMMA StepShips ==
  TypeInv /\ OneShipPerToken /\ ShipsAreNamed /\ [Next]_vars => (OneShipPerToken /\ ShipsAreNamed)'
<1> SUFFICES ASSUME TypeInv, OneShipPerToken, ShipsAreNamed, [Next]_vars
             PROVE  (OneShipPerToken /\ ShipsAreNamed)'
  OBVIOUS
<1>1. CASE UNCHANGED players
  BY <1>1 DEF OneShipPerToken, ShipsAreNamed, players
<1>2. ASSUME NEW entry \in Entries, AuthenticateOk(entry)
      PROVE  (OneShipPerToken /\ ShipsAreNamed)'
  <2> DEFINE new == ShipOf(entry)
  <2>1. /\ new.token \in authToks /\ new.token \in Tokens /\ new.nick = NickOf[new.token]
        /\ created' = created \cup {new} /\ authToks' = authToks \ {new.token}
        /\ new.id \in EntityIds
        /\ \A u \in created : u.id < new.id /\ u.y > new.y /\ u # new
    BY <1>2, TokenBecomesShip
  <2> HIDE DEF new
  <2>2. ShipsAreNamed'
    BY <2>1 DEF ShipsAreNamed
  <2>3. {s.token : s \in created'} = Tokens \ authToks'
    BY <2>1 DEF OneShipPerToken, TypeInv, TypeOK
  <2>4. \A u \in created : u.token # new.token
    BY <2>1 DEF OneShipPerToken
  <2>5. \A u \in created : u.id # new.id /\ u.y # new.y
    <3> SUFFICES ASSUME NEW u \in created PROVE u.id # new.id /\ u.y # new.y
      OBVIOUS
    <3>1. u.id < new.id /\ u.y > new.y
      BY <2>1
    <3>2. u \in Entities
      BY DEF TypeInv, TypeOK
    <3>3. u.id \in Int /\ u.y \in Int
      BY <3>2 DEF Entities, EntityIds, Places
    <3> QED
      BY <3>1, <3>3
  <2>6. \A s, t \in created' : s # t => s.token # t.token /\ s.id # t.id /\ s.y # t.y
    BY <2>1, <2>4, <2>5 DEF OneShipPerToken
  <2> QED
    BY <2>2, <2>3, <2>6 DEF OneShipPerToken
<1>3. ASSUME NEW entry \in Entries, HandleMove(entry)
      PROVE  (OneShipPerToken /\ ShipsAreNamed)'
  BY <1>3 DEF HandleMove, OneShipPerToken, ShipsAreNamed
<1> QED
  BY <1>1, <1>2, <1>3, OnlyPacketsActOnPlayers

\* The invariant of the ships.
LEMMA ShipsHold == Spec => [](TypeInv /\ OneShipPerToken /\ ShipsAreNamed)
<1>1. Init => OneShipPerToken /\ ShipsAreNamed
  BY DEF Init, OneShipPerToken, ShipsAreNamed
<1> QED
  BY <1>1, InitTypes, StepTypes, StepShips, PTL DEF Spec

(***************************************************************************)
(* Each token that is no longer expected has made exactly one ship, and no *)
(* two ships share an entity ID or the place where they start: the height  *)
(* that _handleAuth() computes goes down with every token it takes.        *)
(***************************************************************************)
THEOREM TokensMakeShips == Spec => []OneShipPerToken
BY ShipsHold, PTL

(***************************************************************************)
(* The invariant behind names: a nickname that has an entry in             *)
(* _nameToEntityID leads to a ship of that nickname, and the names in      *)
(* _clientIDToNickname have an entry.  The empty name leads to the ship    *)
(* that was created first, the only one whose ID operator[] can make up.   *)
(***************************************************************************)
NamesLead ==
  /\ \A n \in Nicks : ships[n] # Absent => \E s \in created : s.id = ships[n] /\ s.nick = n
  /\ \A i \in Ids : names[i] \in Nicks => ships[names[i]] # Absent
  /\ ships[NoName] # Absent => ships[NoName] = 0 /\ HasEntity(0)
  /\ created # {} => HasEntity(0)
  /\ pc = "dead" => created = {}

\* The name that a client may act on: its own, or the empty one.
LEMMA NamesOfClients ==
  ASSUME TypeInv, NamesLead, NEW id \in Ids, NEW n \in Names, CanActOnEntity(id, n)
  PROVE  \/ /\ n \in Nicks /\ names[id] = n
            /\ EntityOf(n) = ships[n] /\ Emplaced(ships, n, 0) = ships
            /\ \E s \in created : s.id = ships[n] /\ s.nick = n
         \/ n = NoName /\ EntityOf(n) = 0
<1>1. names \in [Ids -> Names \cup {Absent}] /\ ships \in [Names -> EntityIds \cup {Absent}]
  BY DEF TypeInv, TypeOK
<1>2. CASE n = NoName
  BY <1>1, <1>2, NameKinds DEF NamesLead, EntityOf, Emplaced
<1>3. CASE n # NoName
  <2>1. n \in Nicks /\ names[id] = n
    BY <1>1, <1>3, NameKinds DEF CanActOnEntity, Emplaced
  <2>2. ships[n] # Absent
    BY <2>1 DEF NamesLead
  <2> QED
    BY <2>1, <2>2 DEF NamesLead, EntityOf, Emplaced
<1> QED
  BY <1>2, <1>3

\* at() fails for the empty name only, before there is a ship.
LEMMA OnlyNobodyTerminates ==
  ASSUME TypeInv, NamesLead, Terminate
  PROVE  created = {}
<1> DEFINE entry == Head(queue)
           n     == entry.packet.ettName
<1>1. /\ queue # <<>> /\ entry.packet.type = "Move"
      /\ CanActOnEntity(entry.id, n) /\ ~HasEntity(EntityOf(n))
  BY DEF Terminate
<1>2. entry \in Entries
  BY <1>1, Taken DEF TypeInv, TypeOK
<1>3. entry.id \in Ids /\ n \in Names
  BY <1>1, <1>2, ReadKinds DEF Entries
<1> HIDE DEF entry, n
<1>4. ~HasEntity(0)
  BY <1>1, <1>3, NamesOfClients DEF HasEntity
<1> QED
  BY <1>4 DEF NamesLead

\* Every step keeps the names leading to their ships.
LEMMA StepNames == TypeInv /\ NamesLead /\ [Next]_vars => NamesLead'
<1> SUFFICES ASSUME TypeInv, NamesLead, [Next]_vars PROVE NamesLead'
  OBVIOUS
<1>0. /\ names \in [Ids -> Names \cup {Absent}]
      /\ ships \in [Names -> EntityIds \cup {Absent}]
  BY DEF TypeInv, TypeOK
<1>1. CASE UNCHANGED players /\ (pc' = "dead" => pc = "dead" \/ Terminate)
  BY <1>1, OnlyNobodyTerminates DEF NamesLead, HasEntity, players
<1>2. ASSUME NEW entry \in Entries, Handles(entry), AuthenticateOk(entry) PROVE NamesLead'
  <2> DEFINE new == ShipOf(entry)
  <2>1. /\ new.nick \in Nicks /\ new.id \in EntityIds
        /\ created' = created \cup {new}
        /\ names' = Emplaced(names, entry.id, new.nick)
        /\ ships' = Emplaced(ships, new.nick, new.id)
    BY <1>2, TokenBecomesShip
  <2>2. new.id # Absent
    BY <2>1, Counts
  <2>3. HasEntity(0)'
    <3>1. CASE created = {}
      BY <2>1, <3>1, FS_EmptySet DEF ShipOf, NextID, HasEntity
    <3>2. CASE created # {}
      BY <2>1, <3>2 DEF NamesLead, HasEntity
    <3> QED
      BY <3>1, <3>2
  <2> HIDE DEF new
  <2>4. \A n \in Names : ships'[n] = ships[n] \/ (n = new.nick /\ ships'[n] = new.id)
    BY <1>0, <2>1 DEF Emplaced
  <2>5. \A n \in Nicks : ships'[n] # Absent => \E s \in created' : s.id = ships'[n] /\ s.nick = n
    BY <2>1, <2>4, NameKinds DEF NamesLead
  <2>6. ships'[new.nick] # Absent /\ \A n \in Nicks : ships[n] # Absent => ships'[n] # Absent
    BY <1>0, <2>1, <2>2, NameKinds DEF Emplaced
  <2>7. \A i \in Ids : names'[i] = names[i] \/ names'[i] = new.nick
    BY <1>0, <2>1 DEF Emplaced
  <2>8. \A i \in Ids : names'[i] \in Nicks => ships'[names'[i]] # Absent
    BY <2>6, <2>7 DEF NamesLead
  <2>9. ships'[NoName] # Absent => ships'[NoName] = 0
    BY <2>1, <2>4, NameKinds DEF NamesLead
  <2> QED
    BY <1>2, <2>3, <2>5, <2>8, <2>9 DEF NamesLead, Handles
<1>3. ASSUME NEW entry \in Entries, Handles(entry), HandleMove(entry) PROVE NamesLead'
  <2> DEFINE n == entry.packet.ettName
  <2>1. /\ created' = created /\ pc' # "dead"
        /\ names' = Emplaced(names, entry.id, NoName)
        /\ \/ /\ CanActOnEntity(entry.id, n) /\ HasEntity(EntityOf(n))
              /\ ships' = Emplaced(ships, n, 0)
           \/ UNCHANGED ships
    BY <1>3 DEF HandleMove, Handles
  <2>2. n \in Names /\ entry.id \in Ids
    <3>1. entry.packet \in Packets /\ entry.packet.type = "Move" /\ entry.id \in Ids
      BY <1>3 DEF HandleMove, Entries
    <3> QED
      BY <3>1, ReadKinds
  <2> HIDE DEF n
  <2>3. \A i \in Ids : names'[i] = names[i] \/ names'[i] = NoName
    BY <1>0, <2>1 DEF Emplaced
  <2>4. \/ ships' = ships
        \/ n = NoName /\ HasEntity(0) /\ ships' = Emplaced(ships, NoName, 0)
    BY <2>1, <2>2, NamesOfClients
  <2>5. /\ \A k \in Nicks : ships'[k] = ships[k]
        /\ ships'[NoName] # Absent => ships'[NoName] = 0 /\ HasEntity(0)
    BY <1>0, <2>4, NameKinds DEF NamesLead, Emplaced
  <2> QED
    BY <2>1, <2>3, <2>5, NameKinds DEF NamesLead, HasEntity
<1> QED
  BY <1>1, <1>2, <1>3, OnlyPacketsActOnPlayers

\* The invariant of the names.
LEMMA NamesHold == Spec => [](TypeInv /\ NamesLead)
<1>1. Init => NamesLead
  BY NameKinds DEF Init, NamesLead
<1> QED
  BY <1>1, InitTypes, StepTypes, StepNames, PTL DEF Spec

(***************************************************************************)
(* For whatever names the tokens have and the peers send: the nickname     *)
(* that a client may act on leads to the ship made for it, the empty name  *)
(* to a ship as well, and operator[] ends the process for the empty name   *)
(* only, before the first ship is there.                                   *)
(***************************************************************************)
THEOREM NamesLeadToShips == Spec => []NamesHaveShips
<1>1. TypeInv /\ NamesLead => NamesHaveShips
  BY DEF NamesLead, NamesHaveShips
<1> QED
  BY <1>1, NamesHold, PTL

-----------------------------------------------------------------------------
(* IDs of clients *)

(***************************************************************************)
(* The invariant behind moves: as long as nobody has left, a packet in the *)
(* queue carries the ID of the client that sent it, a client ID has the    *)
(* name of a ship that its client authenticated for, and whoever moved a   *)
(* ship by its name authenticated for it.                                  *)
(***************************************************************************)
MovedByOwner(m) ==
  IF m.ettName = NoName THEN m.ship = 0
  ELSE \E s \in created : s.from = m.from /\ s.id = m.ship /\ s.nick = m.ettName

NobodyHasLeft == Len(clients) = Cardinality(known)

PlacesAreKept ==
  /\ IsFiniteSet(known) /\ Len(clients) <= Cardinality(known)
  /\ NobodyHasLeft =>
       /\ \A k \in DOMAIN queue : /\ queue[k].id + 1 \in DOMAIN clients
                                  /\ clients[queue[k].id + 1] = queue[k].from
       /\ \A i \in Ids : names[i] \in Nicks =>
            /\ i + 1 \in DOMAIN clients
            /\ \E s \in created : s.from = clients[i + 1] /\ s.nick = names[i]
       /\ \A m \in moves : MovedByOwner(m)

IdInv == TypeInv /\ OneShipPerToken /\ ShipsAreNamed /\ NamesLead

\* A ship is found by its nickname if no two tokens share one.
LEMMA NicksAreOfOneShip ==
  ASSUME IdInv, \A t, u \in Tokens : NickOf[t] = NickOf[u] => t = u,
         NEW s \in created, NEW u \in created, s.nick = u.nick
  PROVE  s = u
<1>1. s.token \in Tokens /\ u.token \in Tokens
  BY DEF IdInv, TypeInv, TypeOK, Entities
<1>2. s.token = u.token
  BY <1>1 DEF IdInv, ShipsAreNamed
<1> QED
  BY <1>2 DEF IdInv, OneShipPerToken

\* The packets, once handled, keep the places.
LEMMA HandledInPlace ==
  ASSUME IdInv, PlacesAreKept, \A t, u \in Tokens : NickOf[t] = NickOf[u] => t = u,
         NEW entry \in Entries, Handles(entry), queue' = Tail(queue),
         AuthenticateOk(entry) \/ HandleMove(entry)
  PROVE  PlacesAreKept'
<1>0. /\ names \in [Ids -> Names \cup {Absent}]
      /\ ships \in [Names -> EntityIds \cup {Absent}]
      /\ queue \in Seq(Entries)
  BY DEF IdInv, TypeInv, TypeOK
<1>1. UNCHANGED <<known, clients>> /\ queue # <<>> /\ entry = Head(queue)
  BY DEF Handles, io
<1>2. /\ entry = queue[1] /\ 1 \in DOMAIN queue
      /\ \A k \in DOMAIN queue' : k + 1 \in DOMAIN queue /\ queue'[k] = queue[k + 1]
  BY <1>0, <1>1, Taken
<1> SUFFICES ASSUME NobodyHasLeft
             PROVE  /\ \A k \in DOMAIN queue' : /\ queue'[k].id + 1 \in DOMAIN clients
                                                /\ clients[queue'[k].id + 1] = queue'[k].from
                    /\ \A i \in Ids : names'[i] \in Nicks =>
                         /\ i + 1 \in DOMAIN clients
                         /\ \E s \in created' : s.from = clients[i + 1] /\ s.nick = names'[i]
                    /\ \A m \in moves' : MovedByOwner(m)'
  BY <1>1 DEF PlacesAreKept, NobodyHasLeft
<1>3. \A k \in DOMAIN queue' : /\ queue'[k].id + 1 \in DOMAIN clients
                               /\ clients[queue'[k].id + 1] = queue'[k].from
  BY <1>2 DEF PlacesAreKept
<1>4. entry.id + 1 \in DOMAIN clients /\ clients[entry.id + 1] = entry.from
  BY <1>2 DEF PlacesAreKept
<1>5. /\ \A i \in Ids : names[i] \in Nicks =>
           /\ i + 1 \in DOMAIN clients
           /\ \E s \in created : s.from = clients[i + 1] /\ s.nick = names[i]
      /\ \A m \in moves : MovedByOwner(m)
  BY DEF PlacesAreKept
<1>6. CASE AuthenticateOk(entry)
  <2> DEFINE new == ShipOf(entry)
  <2>1. /\ new.from = entry.from /\ created' = created \cup {new}
        /\ names' = Emplaced(names, entry.id, new.nick) /\ moves' = moves
    BY <1>6, TokenBecomesShip DEF IdInv
  <2> HIDE DEF new
  <2>2. \A i \in Ids : \/ names'[i] = names[i]
                       \/ i = entry.id /\ names'[i] = new.nick
    BY <1>0, <2>1 DEF Emplaced
  <2>3. \A i \in Ids : names'[i] \in Nicks =>
          /\ i + 1 \in DOMAIN clients
          /\ \E s \in created' : s.from = clients[i + 1] /\ s.nick = names'[i]
    BY <1>4, <1>5, <2>1, <2>2
  <2>4. \A m \in moves' : MovedByOwner(m)'
    BY <1>5, <2>1 DEF MovedByOwner
  <2> QED
    BY <1>3, <2>3, <2>4
<1>7. CASE HandleMove(entry)
  <2> DEFINE n == entry.packet.ettName
             m == [from |-> entry.from, ettName |-> n, ship |-> EntityOf(n)]
  <2>1. /\ created' = created
        /\ names' = Emplaced(names, entry.id, NoName)
        /\ \/ CanActOnEntity(entry.id, n) /\ moves' = moves \cup {m}
           \/ moves' = moves
    BY <1>7 DEF HandleMove
  <2>2. n \in Names /\ entry.id \in Ids
    <3>1. entry.packet \in Packets /\ entry.packet.type = "Move" /\ entry.id \in Ids
      BY <1>7 DEF HandleMove, Entries
    <3> QED
      BY <3>1, ReadKinds
  <2>3. m.from = entry.from /\ m.ettName = n /\ m.ship = EntityOf(n)
    OBVIOUS
  <2> HIDE DEF n, m
  <2>4. \A i \in Ids : names'[i] = names[i] \/ names'[i] = NoName
    BY <1>0, <2>1 DEF Emplaced
  <2>5. \A i \in Ids : names'[i] \in Nicks =>
          /\ i + 1 \in DOMAIN clients
          /\ \E s \in created' : s.from = clients[i + 1] /\ s.nick = names'[i]
    BY <1>5, <2>1, <2>4, NullsAssumption
  <2>6. ASSUME CanActOnEntity(entry.id, n) PROVE MovedByOwner(m)
    <3>1. CASE n = NoName
      BY <2>2, <2>3, <2>6, <3>1, NamesOfClients, NameKinds DEF IdInv, MovedByOwner
    <3>2. CASE n # NoName
      <4>1. PICK u \in created : names[entry.id] = n /\ u.id = EntityOf(n) /\ u.nick = n
        BY <2>2, <2>6, <3>2, NamesOfClients DEF IdInv
      <4>2. n \in Nicks
        BY <2>2, <3>2 DEF Names
      <4>3. PICK s \in created : s.from = entry.from /\ s.nick = n
        BY <1>4, <1>5, <2>2, <4>1, <4>2
      <4>4. s = u
        BY <4>1, <4>3, NicksAreOfOneShip
      <4> QED
        BY <2>3, <3>2, <4>1, <4>3, <4>4 DEF MovedByOwner
    <3> QED
      BY <3>1, <3>2
  <2>7. \A k \in moves' : MovedByOwner(k)'
    BY <1>5, <2>1, <2>6 DEF MovedByOwner
  <2> QED
    BY <1>3, <2>5, <2>7
<1> QED
  BY <1>6, <1>7

\* What the other steps do to IDs.
LEMMA StepPlaces ==
  ASSUME IdInv, PlacesAreKept, \A t, u \in Tokens : NickOf[t] = NickOf[u] => t = u,
         [Next]_vars
  PROVE  PlacesAreKept'
<1>0. /\ clients \in Seq(known) /\ Len(clients) \in Nat /\ DOMAIN clients = 1..Len(clients)
      /\ queue \in Seq(Entries) /\ known \subseteq Conns /\ Cardinality(known) \in Nat
  BY LenProperties, FS_CardinalityType DEF IdInv, TypeInv, TypeOK, PlacesAreKept
<1>1. CASE UNCHANGED <<clients, known, queue, players>>
  BY <1>1 DEF PlacesAreKept, NobodyHasLeft, players, MovedByOwner
<1>2. ASSUME NEW c \in Conns, Accept(c) PROVE PlacesAreKept'
  <2>1. /\ c \notin known /\ known' = known \cup {c} /\ clients' = Append(clients, c)
        /\ UNCHANGED <<queue, players>>
    BY <1>2 DEF Accept
  <2>2. /\ Len(clients') = Len(clients) + 1 /\ DOMAIN clients' = 1..(Len(clients) + 1)
        /\ \A i \in DOMAIN clients : clients'[i] = clients[i]
    <3>1. clients \in Seq(Conns)
      BY <1>0, SeqMonotonic
    <3> QED
      BY <2>1, <3>1, Appended
  <2>3. \A i \in DOMAIN clients : i \in DOMAIN clients'
    BY <1>0, <2>2
  <2>4. IsFiniteSet(known') /\ Cardinality(known') = Cardinality(known) + 1
    BY <2>1, FS_AddElement DEF PlacesAreKept
  <2>5. Len(clients') <= Cardinality(known') /\ (NobodyHasLeft' => NobodyHasLeft)
    BY <1>0, <2>2, <2>4 DEF PlacesAreKept, NobodyHasLeft
  <2> QED
    BY <2>1, <2>2, <2>3, <2>4, <2>5 DEF PlacesAreKept, players, MovedByOwner
<1>3. ASSUME NEW c \in Conns, IoPacket(c) PROVE PlacesAreKept'
  <2> DEFINE e == [id |-> IdOf(c), from |-> c, packet |-> pending[c]]
  <2>1. /\ pending[c] \in Packets /\ queue' = Append(queue, e)
        /\ UNCHANGED <<known, clients, players>>
    BY <1>3 DEF IoPacket
  <2>2. e \in Entries /\ e.id + 1 \in DOMAIN clients /\ clients[e.id + 1] = e.from
    <3>1. pending[c] # Idle
      BY <2>1, ReadKinds
    <3> QED
      BY <2>1, <3>1, ReadersHaveIds DEF Entries, IdInv, TypeInv
  <2> HIDE DEF e
  <2>3. /\ Len(queue) \in Nat /\ DOMAIN queue = 1..Len(queue)
        /\ DOMAIN queue' = 1..(Len(queue) + 1)
        /\ \A k \in DOMAIN queue : queue'[k] = queue[k]
        /\ queue'[Len(queue) + 1] = e
    BY <1>0, <2>1, <2>2, Appended
  <2>4. \A k \in 1..(Len(queue) + 1) : k \in DOMAIN queue \/ k = Len(queue) + 1
    BY <2>3
  <2>5. NobodyHasLeft => \A k \in DOMAIN queue' : /\ queue'[k].id + 1 \in DOMAIN clients
                                                  /\ clients[queue'[k].id + 1] = queue'[k].from
    BY <2>2, <2>3, <2>4 DEF PlacesAreKept
  <2> QED
    BY <2>1, <2>5 DEF PlacesAreKept, NobodyHasLeft, players, MovedByOwner
<1>4. ASSUME NEW c \in Conns, IoError(c) PROVE PlacesAreKept'
  <2>1. /\ pending[c] = Failed /\ clients' = RemoveAt(clients, IdOf(c) + 1) /\ known' = known
    BY <1>4 DEF IoError
  <2>2. IdOf(c) + 1 \in DOMAIN clients
    BY <2>1, ReadersHaveIds, ReadKinds DEF IdInv, TypeInv
  <2>3. Len(clients') = Len(clients) - 1
    BY <1>0, <2>1, <2>2, Removed
  <2>4. Len(clients') < Cardinality(known')
    BY <1>0, <2>1, <2>3 DEF PlacesAreKept
  <2>5. Len(clients') <= Cardinality(known') /\ ~NobodyHasLeft'
    BY <1>0, <2>1, <2>3, <2>4 DEF NobodyHasLeft
  <2> QED
    BY <2>1, <2>5 DEF PlacesAreKept
<1>5. CASE HandlePacket
  <2> DEFINE entry == Head(queue)
  <2>1. /\ Handles(entry) /\ queue' = Tail(queue) /\ queue # <<>>
        /\ HandleAuthenticate(entry) \/ HandleMove(entry)
    BY <1>5 DEF HandlePacket, Handles
  <2>2. entry \in Entries
    BY <1>0, <2>1, Taken
  <2> HIDE DEF entry
  <2>3. CASE AuthenticateOk(entry) \/ HandleMove(entry)
    BY <2>1, <2>2, <2>3, HandledInPlace
  <2>4. CASE AuthenticateFails(entry) \/ AuthenticateRefused(entry)
    <3>1. UNCHANGED <<known, clients, players>>
      BY <2>1, <2>4 DEF AuthenticateFails, AuthenticateRefused, Handles, io
    <3>2. \A k \in DOMAIN queue' : k + 1 \in DOMAIN queue /\ queue'[k] = queue[k + 1]
      BY <1>0, <2>1, Taken
    <3> QED
      BY <3>1, <3>2 DEF PlacesAreKept, NobodyHasLeft, players, MovedByOwner
  <2> QED
    BY <2>1, <2>3, <2>4 DEF HandleAuthenticate
<1>6. CASE Stop \/ AcceptError \/ BroadcastBegins \/ BroadcastWrites \/ BroadcastEnds
             \/ ChangesPhase
  BY <1>1, <1>6, OnlyThePhase
  DEF Stop, AcceptError, BroadcastBegins, BroadcastWrites, BroadcastEnds, io
<1>7. ASSUME NEW c \in Conns, PeerClose(c) \/ \E packet \in Packets : Receive(c, packet)
      PROVE  PlacesAreKept'
  BY <1>1, <1>7 DEF PeerClose, Receive
<1>8. CASE UNCHANGED vars
  BY <1>1, <1>8 DEF vars, io
<1> QED
  BY <1>2, <1>3, <1>4, <1>5, <1>6, <1>7, <1>8
  DEF Next, IoStep, GameStep, ChangesPhase

(***************************************************************************)
(* As long as nobody has left, whoever moves an entity by its name         *)
(* authenticated with the token that made it, for any number of            *)
(* connections, packets on their way and refused tokens: the ID that       *)
(* ServerIOThread finds with the connection when it reads a packet still   *)
(* is the ID of that connection when the game thread handles it.  The      *)
(* empty name moves the first ship, whoever sends it, and no other.  The   *)
(* tokens are of different players.                                        *)
(***************************************************************************)
THEOREM MoversOwnTheirShips ==
  ASSUME \A t, u \in Tokens : NickOf[t] = NickOf[u] => t = u
  PROVE  Spec => []MoverOwnsShip
<1>1. Init => PlacesAreKept
  <2> SUFFICES ASSUME Init PROVE PlacesAreKept
    OBVIOUS
  <2>1. known = {} /\ clients = <<>> /\ queue = <<>> /\ moves = {} /\ names = [i \in Ids |-> Absent]
    BY DEF Init
  <2>2. IsFiniteSet(known) /\ Cardinality(known) = 0 /\ Len(clients) = 0
    BY <2>1, FS_EmptySet
  <2> QED
    BY <2>1, <2>2, NullsAssumption DEF PlacesAreKept
<1>2. IdInv /\ PlacesAreKept /\ [Next]_vars => PlacesAreKept'
  BY StepPlaces
<1>3. IdInv <=> TypeInv /\ OneShipPerToken /\ ShipsAreNamed /\ NamesLead
  BY DEF IdInv
<1>4. PlacesAreKept => MoverOwnsShip
  BY DEF PlacesAreKept, MoverOwnsShip, NobodyHasLeft, MovedByOwner
<1> QED
  BY <1>1, <1>2, <1>3, <1>4, ShipsHold, NamesHold, PTL DEF Spec
=============================================================================
