---------------------------- MODULE MCPlayerPool ----------------------------
(***************************************************************************)
(* Instances of PlayerPool for TLC: three sessions, created in any order   *)
(* of their addresses, and one account for each token.                     *)
(***************************************************************************)
EXTENDS PlayerPool

CONSTANTS t1, t2, t3, n1, n2, n3

ThreeTokens == {t1, t2, t3}
ThreeNicks  == {n1, n2, n3}
ThreeAccounts == [t \in ThreeTokens |-> CASE t = t1 -> n1 [] t = t2 -> n2 [] t = t3 -> n3]

TwoTokens == {t1, t2}
TwoNicks  == {n1, n2}
TwoAccounts == [t \in TwoTokens |-> CASE t = t1 -> n1 [] t = t2 -> n2]
=============================================================================
