----------------------------- MODULE MatchMaker -----------------------------
(***************************************************************************)
(* The queues of the matchmaker (src/Project/rtype/master/MatchMaker.hpp): *)
(* one set of players per mode, ordered by the address of the player.  A   *)
(* player is a number here, the rank of its address, so that the order of  *)
(* the std::set is the order of the numbers.                               *)
(*                                                                         *)
(* The class keeps no other state: its methods are operators from queues   *)
(* to queues, and the component that owns a MatchMaker keeps the queues.   *)
(***************************************************************************)
EXTENDS Integers, FiniteSets

\* A match of mode m needs m + 1 players: Solo is 0, Quatuor is 3.
MatchSize(mode) == mode + 1

NoQueues(modes) == [m \in modes |-> {}]

AddPlayer(queues, p, mode) == [queues EXCEPT ![mode] = @ \cup {p}]

\* Mutant: only the queue of the Solo mode is cleaned.
RemoveSolo(queues, p) ==
  [m \in DOMAIN queues |-> IF m = 0 THEN queues[m] \ {p} ELSE queues[m]]

\* remove() looks into every queue: a player may wait in several.
Remove(queues, p) == [m \in DOMAIN queues |-> queues[m] \ {p}]

\* Mutant: one player too many.
CanStartLate(queues, mode) == Cardinality(queues[mode]) = MatchSize(mode) + 1

CanStartMatch(queues, mode) == Cardinality(queues[mode]) = MatchSize(mode)

\* The players extractGame() pops: the first of the queue in address order.
Extracted(queues, mode) ==
  CHOOSE G \in SUBSET queues[mode] :
    /\ Cardinality(G) = MatchSize(mode)
    /\ \A p \in G, q \in queues[mode] \ G : p < q

AfterExtract(queues, mode) ==
  [queues EXCEPT ![mode] = @ \ Extracted(queues, mode)]
=============================================================================
