------------------------------ MODULE MCService ------------------------------
(***************************************************************************)
(* An instance of Service for TLC: three sessions for two accounts, so     *)
(* that a player may come back for another game.                           *)
(***************************************************************************)
EXTENDS Service

CONSTANTS t1, t2, n1, n2

TwoTokens == {t1, t2}
TwoNicks  == {n1, n2}
TwoAccounts == [t \in TwoTokens |-> CASE t = t1 -> n1 [] t = t2 -> n2]
=============================================================================
