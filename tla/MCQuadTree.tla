----------------------------- MODULE MCQuadTree -----------------------------
(* An instance of QuadTree for TLC: ships start at the left of the field.  *)
EXTENDS QuadTree, TLC

\* Forward, backward, and no move at all.
AllSteps == {-1, 0, 1}

LeftStarts == [x : {0}, y : {0, 1, 2}]

\* No entity is special: they are created in any order, at any start.
Ships == Permutations(Ids)
=============================================================================
