---------------------------- MODULE MatchClosing ----------------------------
(***************************************************************************)
(* The last loop of _startMatch() (PlayerPool.hpp:112-114), one iteration  *)
(* at a time, as a reference for the closed form that PlayerPool uses.     *)
(***************************************************************************)
EXTENDS MCPlayerPool

Seqs == INSTANCE SequencesExt

\* _disconnectPlayer(_identifiedPlayers[nickname of p]) in the middle of the loop.
CloseTarget(loop, p) ==
  LET t == loop.identified[nick[p]]
  IN  IF t \notin Sessions
      THEN [loop EXCEPT !.identified[nick[p]] = NullPtr]
      ELSE IF t \notin loop.players THEN loop
      ELSE [players    |-> loop.players \ {t},
            identified |-> Erase(loop.identified, nick[t], token[t]),
            queues     |-> Remove(loop.queues, t)]

AfterLoop(G, m) ==
  Seqs!FoldLeft(CloseTarget,
                [players    |-> players,
                 identified |-> identified,
                 queues     |-> [queues EXCEPT ![m] = @ \ G]],
                Seqs!SetToSortSeq(G, <))

(***************************************************************************)
(* A match leaves the sessions, the directory and the queues as the loop   *)
(* over its players does, whatever accounts the clients share or change    *)
(* (PlayerPool.hpp:53-66 and 112-114).                                     *)
(***************************************************************************)
ClosesLikeTheLoop ==
  [][games' # games =>
       LET g == games'[Len(games')]
       IN  AfterLoop(g.roster, g.mode)
             = [players |-> players', identified |-> identified', queues |-> queues']]_vars
=============================================================================
