---------------------------- MODULE MCGameServer ----------------------------
(***************************************************************************)
(* Instances of GameServer for TLC: the players of a Duo, each with its    *)
(* own token, and a third connection, on which the first player comes      *)
(* again.                                                                  *)
(***************************************************************************)
EXTENDS GameServer

CONSTANTS c1, c2, c3, t1, t2, n1, n2

DuoConns  == {c1, c2}
TrioConns == {c1, c2, c3}
DuoTokens == {t1, t2}
DuoNicks  == {n1, n2}

DuoTokenOf == [c \in TrioConns |-> IF c = c2 THEN t2 ELSE t1]
\* The two connections of the first player are alike.
FirstPlayer == Permutations({c1, c3})

DuoNickOf  == [t \in DuoTokens |-> IF t = t1 THEN n1 ELSE n2]
=============================================================================
