------------------------------ MODULE QuadTree ------------------------------
(***************************************************************************)
(* Where the ships are: their bounding boxes, which the scripts of         *)
(* player.lua move, and the tree of entity/QuadTree.hpp that sorts the     *)
(* ships by the place of their centre.                                     *)
(*                                                                         *)
(* A node is its square.  Its children are the quarters of the square, so  *)
(* the tree is the set of the nodes that are subdivided, and the node that *)
(* holds each ship.  The recursion of insert() and remove() along a path   *)
(* of nodes is the set of the nodes on that path which it changes.         *)
(*                                                                         *)
(* Coordinates are integers, and a square of side 1 is never subdivided:   *)
(* that takes more ships with the same centre than a leaf holds, and the   *)
(* game server has no more than four ships in all.                         *)
(***************************************************************************)
EXTENDS Integers, FiniteSets

CONSTANTS
  Ids,       \* the entities
  Field,     \* the side of the square of the root
  NbItems,   \* nbChilds, as the most items of a leaf
  Half,      \* half the side of a ship's box
  Starts,    \* where ships are created: the corner of their box
  Steps,     \* the distances that speed and time of a Move come to: a peer may send
             \* a time of zero, or a negative one
  Reach,     \* bound: how far outside the field a box is followed
  Absent     \* no node, no box

ASSUME IdsAssumption == IsFiniteSet(Ids)
\* The side of the root can be halved down to 1: it is a power of two.
ASSUME FieldAssumption ==
  /\ Field \in Nat \ {0}
  /\ \A d \in 1..Field : Field % d = 0 /\ d # 1 => d % 2 = 0
ASSUME ItemsAssumption == NbItems \in Nat \ {0}
ASSUME BoxAssumption ==
  /\ Half \in Nat
  /\ Starts \subseteq [x : Int, y : Int]
  /\ Steps \subseteq Int /\ Reach \in Nat

\* Field, its half and so on: the numbers that divide a power of two.
Sides == {s \in 1..Field : Field % s = 0}

Nodes == UNION {[side : {s}, x : {i * s : i \in 0..(Field \div s - 1)},
                             y : {i * s : i \in 0..(Field \div s - 1)}] : s \in Sides}

Root == [side |-> Field, x |-> 0, y |-> 0]

ASSUME AbsentAssumption == Absent \notin Nodes /\ Absent \notin [x : Int, y : Int]

\* sf::FloatRect::contains()
Contains(n, p) ==
  /\ n.x <= p.x /\ p.x < n.x + n.side
  /\ n.y <= p.y /\ p.y < n.y + n.side

\* n is m or below m: its corner is in m and it is not larger.
Within(n, m) == n.side <= m.side /\ Contains(m, n)

VARIABLES
  box,    \* the corner of the box of each entity, Absent until it is created
  tree,   \* [split, node, map], see Trees
  status  \* "running", or "crashed" once a null child was followed

vars == <<box, tree, status>>

(***************************************************************************)
(* split: the nodes that have children; node: the node in whose _items an  *)
(* entity is; map: _itemMap.                                               *)
(***************************************************************************)
Trees == [split : SUBSET Nodes,
          node  : [Ids -> Nodes \cup {Absent}],
          map   : [Ids -> Nodes \cup {Absent}]]

TypeOK ==
  /\ box \in [Ids -> [x : Int, y : Int] \cup {Absent}]
  /\ tree \in Trees
  /\ status \in {"running", "crashed"}

Init ==
  /\ box = [i \in Ids |-> Absent]
  /\ tree = [split |-> {}, node |-> [i \in Ids |-> Absent], map |-> [i \in Ids |-> Absent]]
  /\ status = "running"

Created(boxes) == {i \in Ids : boxes[i] # Absent}

Centre(b) == [x |-> b.x + Half, y |-> b.y + Half]

-----------------------------------------------------------------------------
(* insert() *)

Items(t, n) == {i \in Ids : t.node[i] = n}

\* The leaf where the descent for point p ends, if p is on the field.
LeavesAt(split, p) ==
  {n \in Nodes \ split : Contains(n, p) /\ \A m \in Nodes : Within(n, m) /\ n # m => m \in split}

\* The nodes on the path of p that are subdivided when the leaf is full: as
\* long as p falls into the same child as all the items.
Subdivided(leaf, held, boxes, p) ==
  {n \in Nodes : Within(n, leaf) /\ Contains(n, p) /\ \A i \in held : Contains(n, Centre(boxes[i]))}

\* Mutant: the item is put one level below the leaf.
LoweredTooFar(leaf, cut, i, boxes) ==
  LET n == CHOOSE n \in LeavesAt(cut \cup {m \in Nodes : Within(leaf, m) /\ m # leaf}, Centre(boxes[i])) : TRUE
  IN  [n EXCEPT !.side = @ \div 2]

\* Where item i is after the nodes of cut have been subdivided.
Lowered(leaf, cut, i, boxes) ==
  CHOOSE n \in LeavesAt(cut \cup {m \in Nodes : Within(leaf, m) /\ m # leaf}, Centre(boxes[i])) : TRUE

\* A leaf that is full is subdivided, its items are inserted in its children
\* and then the new one is.
InsertAtFullLeaf(t, id, boxes, leaf) ==
  LET held     == Items(t, leaf)
      cut      == Subdivided(leaf, held, boxes, Centre(boxes[id]))
      lower(f) == [i \in Ids |-> IF i \in held \cup {id} THEN Lowered(leaf, cut, i, boxes)
                                                      ELSE f[i]]
  IN  [split |-> t.split \cup cut, node |-> lower(t.node), map |-> lower(t.map)]

Insert(t, id, boxes) ==
  LET leaves == LeavesAt(t.split, Centre(boxes[id]))
      leaf   == CHOOSE n \in leaves : TRUE
  IN  IF leaves = {} THEN t
      ELSE IF Cardinality(Items(t, leaf)) < NbItems
           THEN [t EXCEPT !.node[id] = leaf, !.map[id] = leaf]
           ELSE InsertAtFullLeaf(t, id, boxes, leaf)

-----------------------------------------------------------------------------
(* remove() *)

\* Mutant: the descent follows the centre of the box as it is now.
HolderByCentre(t, id, boxes) ==
  LET leaves == LeavesAt(t.split, Centre(boxes[id]))
  IN  IF t.split = {} THEN Root
      ELSE IF leaves = {} THEN Absent ELSE CHOOSE n \in leaves : TRUE

\* The descent follows the centre of the node that _itemMap gives, not that
\* of the box, which has moved already.
Holder(t, id, boxes) == t.map[id]

Below(t, n) == {i \in Ids : t.node[i] # Absent /\ Within(t.node[i], n)}

\* Mutant: the parent takes its children back, and nobody looks further up.
MergedOnce(t, id) ==
  {n \in t.split : /\ Within(t.node[id], n) /\ t.node[id].side * 2 = n.side
                   /\ \A m \in t.split : Within(m, n) => m = n
                   /\ Cardinality(Below(t, n) \ {id}) <= NbItems}

(***************************************************************************)
(* On the way back, a node takes back the items of its children if none of *)
(* them is subdivided, any more, and they hold few enough.                 *)
(***************************************************************************)
Merged(t, id) ==
  {n \in t.split : /\ Within(t.node[id], n)
                   /\ \A m \in t.split : Within(m, n) => Within(t.node[id], m)
                   /\ Cardinality(Below(t, n) \ {id}) <= NbItems}

Largest(merged) == CHOOSE n \in merged : \A m \in merged : Within(m, n)

\* Mutant: the items that a node takes back keep their entry in _itemMap.
RemoveKeepingEntries(t, id) ==
  LET merged  == Merged(t, id)
      moved   == IF merged = {} THEN {} ELSE Below(t, Largest(merged))
      to(map) == [i \in Ids |-> IF i = id THEN Absent
                                ELSE IF i \in moved THEN Largest(merged) ELSE map[i]]
  IN  [split |-> t.split \ merged, node |-> to(t.node), map |-> [t.map EXCEPT ![id] = Absent]]

\* The item leaves its node, and the nodes above take back what they can.
Remove(t, id) ==
  LET merged  == Merged(t, id)
      moved   == IF merged = {} THEN {} ELSE Below(t, Largest(merged))
      to(map) == [i \in Ids |-> IF i = id THEN Absent
                                ELSE IF i \in moved THEN Largest(merged) ELSE map[i]]
  IN  [split |-> t.split \ merged, node |-> to(t.node), map |-> to(t.map)]

-----------------------------------------------------------------------------
(* The game thread *)

\* A leaf has room for all the ships of one centre.
Permitted(boxes) ==
  \A n \in Nodes : n.side = 1 =>
    Cardinality({i \in Created(boxes) : Contains(n, Centre(boxes[i]))}) <= NbItems

\* createPlayerSpaceShip() and insert().
Create(id) ==
  /\ status = "running"
  /\ box[id] = Absent
  /\ \E start \in Starts : box' = [box EXCEPT ![id] = start]
  /\ Permitted(box')
  /\ tree' = Insert(tree, id, box')
  /\ UNCHANGED status

(***************************************************************************)
(* quadMove(): remove() and insert(), once the box has its new place.  An  *)
(* entity with an entry but not in the node of its entry sends remove()    *)
(* through a null child.                                                   *)
(***************************************************************************)
QuadMove(id) ==
  IF tree.map[id] # Absent /\ Holder(tree, id, box') # tree.node[id]
  THEN status' = "crashed" /\ UNCHANGED tree
  ELSE /\ tree' = Insert(IF tree.map[id] = Absent THEN tree ELSE Remove(tree, id), id, box')
       /\ UNCHANGED status

\* The last place where a ship may still move right or down.
Limit == Field - 2 * Half

Followed(b) == b.x \in -Reach..(Limit + Reach) /\ b.y \in -Reach..(Limit + Reach)

\* A script looks at the place before the move only.
MoveBy(id, dx, dy) ==
  /\ box' = [box EXCEPT ![id] = [x |-> @.x + dx, y |-> @.y + dy]]
  /\ Followed(box'[id])
  /\ Permitted(box')
  /\ QuadMove(id)

MoveRight(id, d) == box[id].x <= Limit /\ MoveBy(id, d, 0)
MoveLeft(id, d)  == box[id].x >= 0     /\ MoveBy(id, -d, 0)
MoveDown(id, d)  == box[id].y <= Limit /\ MoveBy(id, 0, d)
MoveUp(id, d)    == box[id].y >= 0     /\ MoveBy(id, 0, -d)

Move(id) ==
  /\ status = "running"
  /\ box[id] # Absent
  /\ \E d \in Steps : MoveRight(id, d) \/ MoveLeft(id, d) \/ MoveDown(id, d) \/ MoveUp(id, d)

Next == \E id \in Ids : Create(id) \/ Move(id)

Spec == Init /\ [][Next]_vars

-----------------------------------------------------------------------------
(* Properties *)

(***************************************************************************)
(* The tree forgets its history: after any moves it is subdivided exactly  *)
(* where more ships are than a leaf holds, as if the ships had just been   *)
(* inserted (QuadTree.hpp:87-113 and 126-179 agree with each other).       *)
(***************************************************************************)
Canonical ==
  tree.split = {n \in Nodes :
    Cardinality({i \in Created(box) : Contains(n, Centre(box[i]))}) > NbItems}

(***************************************************************************)
(* A ship is in the tree while its centre is on the field, in a leaf that  *)
(* contains its centre, where _itemMap says; it is nowhere while its       *)
(* centre is outside, where a move may take it.                            *)
(***************************************************************************)
FoundWhereItIs ==
  \A i \in Created(box) :
    /\ tree.map[i] = tree.node[i]
    /\ IF Contains(Root, Centre(box[i]))
       THEN tree.node[i] \in LeavesAt(tree.split, Centre(box[i]))
       ELSE tree.node[i] = Absent

\* A ship is found again by remove() though its box has moved already.
NeverCrashes == status # "crashed"
=============================================================================
