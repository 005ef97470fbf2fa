--------------------------- MODULE QuadTreeProofs ---------------------------
(***************************************************************************)
(* Theorems about QuadTree, for any field, any number of ships and any     *)
(* room in a leaf: the tree is that of the places where the ships are.     *)
(***************************************************************************)
EXTENDS QuadTree, FiniteSetTheorems, WellFoundedInduction, TLAPS

-----------------------------------------------------------------------------
(* Numbers *)

\* A set of natural numbers has a least element.
LEMMA LeastNumber ==
  ASSUME NEW S, S \subseteq Nat, S # {}
  PROVE  \E n \in S : \A m \in S : n <= m
<1> DEFINE Before == {ss \in Nat \X Nat : ss[1] < ss[2]}
<1>1. IsWellFoundedOn(Before, Nat)
  BY NatLessThanWellFounded DEF OpToRel
<1>2. \A m, n \in Nat : m < n => <<m, n>> \in Before
  OBVIOUS
<1> HIDE DEF Before
<1>3. PICK n \in S : \A m \in S : <<m, n>> \notin Before
  BY <1>1, WFMin
<1>4. \A m \in S : ~(m < n) /\ m \in Nat /\ n \in Nat
  BY <1>2, <1>3
<1>5. \A m \in S : n <= m
  BY <1>4
<1> QED
  BY <1>5

\* A set of numbers with a bound has a greatest element.
LEMMA GreatestNumber ==
  ASSUME NEW S, NEW b \in Nat, S \subseteq 0..b, S # {}
  PROVE  \E n \in S : \A m \in S : m <= n
<1> DEFINE T == {b - n : n \in S}
<1>1. T \subseteq Nat /\ T # {}
  <2>1. \A n \in S : b - n \in Nat
    OBVIOUS
  <2> QED
    BY <2>1
<1>2. PICK k \in T : \A m \in T : k <= m
  BY <1>1, LeastNumber
<1>3. PICK n \in S : k = b - n
  OBVIOUS
<1>4. \A m \in S : b - n <= b - m
  BY <1>2, <1>3
<1>5. \A m \in S : m <= n
  BY <1>4
<1> QED
  BY <1>5

\* A product is divided by its factors.
LEMMA Multiple ==
  ASSUME NEW a \in Nat \ {0}, NEW k \in Nat
  PROVE  (a * k) % a = 0 /\ (a * k) \div a = k
<1> DEFINE p == a * k
           q == p \div a
           r == p % a
<1>1. p \in Nat /\ q \in Int /\ r \in Int /\ p = a * q + r /\ 0 <= r /\ r < a
  OBVIOUS
<1> HIDE DEF q, r
<1>2. a * (k - q) = r
  BY <1>1
<1>3. ~(k - q >= 1)
  BY <1>1, <1>2
<1>4. ~(k - q <= -1)
  BY <1>1, <1>2
<1>5. k = q
  BY <1>1, <1>3, <1>4
<1>6. r = 0
  BY <1>1, <1>2, <1>5
<1> QED
  BY <1>5, <1>6 DEF q, r

-----------------------------------------------------------------------------
(* Squares *)

\* A side of a square is a factor of the side of the field.
LEMMA SideDivides ==
  ASSUME NEW s \in Sides
  PROVE  /\ s \in Nat \ {0} /\ s \in 1..Field /\ Field \in Nat \ {0}
         /\ Field \div s \in Nat \ {0}
         /\ Field = s * (Field \div s)
<1> DEFINE q == Field \div s
<1>1. s \in Nat \ {0} /\ s \in 1..Field /\ Field \in Nat \ {0} /\ Field % s = 0
  BY FieldAssumption DEF Sides
<1>2. q \in Int /\ Field = s * q + (Field % s)
  <2> DEFINE f == Field
  <2>1. f \in Nat /\ s \in Nat /\ s > 0
    BY <1>1
  <2> HIDE DEF f
  <2>2. f \div s \in Int /\ f = s * (f \div s) + (f % s)
    BY <2>1
  <2> QED
    BY <2>2 DEF f
<1> HIDE DEF q
<1>3. Field = s * q
  BY <1>1, <1>2
<1>4. q >= 1
  <2> SUFFICES ASSUME q <= 0 PROVE FALSE
    BY <1>2
  <2> QED
    BY <1>1, <1>2, <1>3
<1> QED
  BY <1>1, <1>2, <1>3, <1>4 DEF q

\* A side divides the sides that are larger: the squares are halved.
LEMMA SidesNest ==
  ASSUME NEW s \in Sides, NEW t \in Sides, s <= t
  PROVE  \E m \in Nat \ {0} : t = m * s
<1> DEFINE Nested(a) == \A b \in Sides : a <= b => \E m \in Nat \ {0} : b = m * a
           Bad == {a \in Sides : ~Nested(a)}
<1> SUFFICES ASSUME Bad # {} PROVE FALSE
  OBVIOUS
<1>1. Bad \subseteq Nat
  BY DEF Sides
<1>2. PICK a \in Bad : \A b \in Bad : a <= b
  BY <1>1, LeastNumber
<1>3. PICK b \in Sides : a <= b /\ ~\E m \in Nat \ {0} : b = m * a
  BY <1>2
<1>4. a # 1
  <2>1. b \in Nat \ {0} /\ b = b * 1
    BY SideDivides
  <2> QED
    BY <1>3, <2>1
<1>5. ASSUME NEW c \in Sides, c # 1
      PROVE  \E h \in Sides : c = 2 * h
  <2>1. /\ c \in Nat \ {0} /\ c \in 1..Field /\ Field \in Nat \ {0}
        /\ Field \div c \in Nat \ {0} /\ Field = c * (Field \div c) /\ Field % c = 0
    BY SideDivides, <1>5 DEF Sides
  <2>2. c % 2 = 0
    BY <1>5, <2>1, FieldAssumption
  <2> DEFINE h == c \div 2
             q == Field \div c
  <2>3. h \in 1..Field /\ c = 2 * h /\ h \in Nat \ {0}
    BY <2>1, <2>2
  <2> HIDE DEF h, q
  <2>4. Field = h * (2 * q) /\ 2 * q \in Nat
    BY <2>1, <2>3 DEF q
  <2>5. Field % h = 0
    BY <2>3, <2>4, Multiple
  <2> QED
    BY <2>3, <2>5 DEF Sides
<1>6. PICK c \in Sides : a = 2 * c
  BY <1>2, <1>4, <1>5
<1>7. b # 1
  BY <1>2, <1>3, <1>4, SideDivides
<1>8. PICK d \in Sides : b = 2 * d
  BY <1>5, <1>7
<1>9. c \in Nat \ {0} /\ d \in Nat \ {0} /\ c <= d /\ c < a
  BY <1>3, <1>6, <1>8, SideDivides
<1>10. c \notin Bad
  <2>1. a \in Nat
    BY <1>1, <1>2
  <2> QED
    BY <1>2, <1>9, <2>1
<1>11. PICK m \in Nat \ {0} : d = m * c
  BY <1>9, <1>10
<1>12. b = m * a
  BY <1>6, <1>8, <1>9, <1>11
<1> QED
  BY <1>3, <1>12

\* A span of an axis, of a given length, and the numbers in it.
Spans(a, length, p) == a <= p /\ p < a + length

\* Of the spans of two sides, the larger contains the smaller or does not
\* meet it.
LEMMA AxisNests ==
  ASSUME NEW s \in Nat \ {0}, NEW m \in Nat \ {0}, NEW t \in Nat, t = m * s,
         NEW i \in Nat, NEW j \in Nat, NEW a \in Nat, NEW b \in Nat, a = i * s, b = j * t
  PROVE  /\ \A p \in Int : Spans(a, s, p) /\ Spans(b, t, p) => Spans(b, t, a)
         /\ Spans(b, t, a) => a + s <= b + t
<1> USE DEF Spans
<1>1. \A d \in Int : d * s > 0 => d * s >= s
  <2> SUFFICES ASSUME NEW d \in Int, d * s > 0 PROVE d * s >= s
    OBVIOUS
  <2>1. d >= 1
    OBVIOUS
  <2> QED
    BY <2>1
<1>2. ASSUME NEW p \in Int, Spans(a, s, p), Spans(b, t, p) PROVE Spans(b, t, a)
  <2> SUFFICES ASSUME b > a PROVE FALSE
    BY <1>2
  <2> DEFINE d == j * m - i
  <2>1. d \in Int /\ d * s = b - a
    OBVIOUS
  <2> HIDE DEF d
  <2>2. b - a >= s
    BY <1>1, <2>1
  <2> QED
    BY <1>2, <2>2
<1>3. ASSUME Spans(b, t, a) PROVE a + s <= b + t
  <2> DEFINE d == (j * m + m) - i
  <2>1. d \in Int /\ d * s = b + t - a
    OBVIOUS
  <2> HIDE DEF d
  <2>2. b + t - a >= s
    BY <1>1, <1>3, <2>1
  <2> QED
    BY <2>2
<1> QED
  BY <1>2, <1>3

\* A node is given by its side and its corner, a multiple of the side.
LEMMA NodeShape ==
  ASSUME NEW n \in Nodes
  PROVE  /\ n.side \in Sides /\ n.side \in Nat \ {0} /\ n.side <= Field
         /\ n.x \in Nat /\ n.y \in Nat
         /\ \E i \in Nat : n.x = i * n.side
         /\ \E i \in Nat : n.y = i * n.side
         /\ n.x + n.side <= Field /\ n.y + n.side <= Field
         /\ n = [side |-> n.side, x |-> n.x, y |-> n.y]
<1>1. PICK s \in Sides : n \in [side : {s}, x : {i * s : i \in 0..(Field \div s - 1)},
                                             y : {i * s : i \in 0..(Field \div s - 1)}]
  BY DEF Nodes
<1>2. /\ n.side = s /\ n = [side |-> n.side, x |-> n.x, y |-> n.y]
      /\ \E i \in 0..(Field \div s - 1) : n.x = i * s
      /\ \E i \in 0..(Field \div s - 1) : n.y = i * s
  BY <1>1
<1> DEFINE q == Field \div s
<1>3. s \in Nat \ {0} /\ s <= Field /\ q \in Nat \ {0} /\ Field = s * q /\ Field \in Nat
  BY SideDivides
<1> HIDE DEF q
<1>4. ASSUME NEW i \in 0..(q - 1) PROVE i \in Nat /\ i * s \in Nat /\ i * s + s <= Field
  <2>1. i \in Nat /\ q - 1 - i \in Nat
    BY <1>3
  <2>2. (q - 1 - i) * s >= 0
    BY <1>3, <2>1
  <2>3. (q - 1 - i) * s = Field - (i * s + s)
    BY <1>3, <2>1
  <2> QED
    BY <1>3, <2>1, <2>2, <2>3
<1> QED
  BY <1>2, <1>3, <1>4 DEF q

\* Places on the field or outside: where a node has its corner.
IsPlace(p) == p.x \in Int /\ p.y \in Int

\* A square contains a place if both its spans do.
LEMMA ContainsSpans ==
  ASSUME NEW n, NEW p
  PROVE  Contains(n, p) <=> Spans(n.x, n.side, p.x) /\ Spans(n.y, n.side, p.y)
BY DEF Contains, Spans

\* Of two squares, the larger contains the smaller or does not meet it.
LEMMA SmallerInLarger ==
  ASSUME NEW n \in Nodes, NEW m \in Nodes, n.side <= m.side
  PROVE  /\ \A p : IsPlace(p) /\ Contains(n, p) /\ Contains(m, p) => Within(n, m)
         /\ Within(n, m) => \A p : IsPlace(p) /\ Contains(n, p) => Contains(m, p)
<1>1. /\ n.side \in Sides /\ n.side \in Nat \ {0} /\ n.x \in Nat /\ n.y \in Nat
      /\ m.side \in Sides /\ m.side \in Nat \ {0} /\ m.x \in Nat /\ m.y \in Nat
  BY NodeShape
<1>2. PICK k \in Nat \ {0} : m.side = k * n.side
  BY <1>1, SidesNest
<1>3. ASSUME NEW i \in Nat, NEW j \in Nat, NEW a \in Nat, NEW b \in Nat,
             a = i * n.side, b = j * m.side
      PROVE  /\ \A p \in Int : Spans(a, n.side, p) /\ Spans(b, m.side, p) => Spans(b, m.side, a)
             /\ Spans(b, m.side, a) => a + n.side <= b + m.side
  <2> DEFINE s == n.side
             t == m.side
  <2>1. s \in Nat \ {0} /\ t \in Nat /\ t = k * s /\ a = i * s /\ b = j * t
    BY <1>1, <1>2, <1>3
  <2> HIDE DEF s, t
  <2>2. /\ \A p \in Int : Spans(a, s, p) /\ Spans(b, t, p) => Spans(b, t, a)
        /\ Spans(b, t, a) => a + s <= b + t
    BY <2>1, AxisNests
  <2> QED
    BY <2>2 DEF s, t
<1>4. /\ \A p \in Int : Spans(n.x, n.side, p) /\ Spans(m.x, m.side, p) => Spans(m.x, m.side, n.x)
      /\ Spans(m.x, m.side, n.x) => n.x + n.side <= m.x + m.side
  <2>1. /\ \E i \in Nat : n.x = i * n.side
        /\ \E j \in Nat : m.x = j * m.side
    BY NodeShape
  <2> QED
    BY <1>1, <1>3, <2>1
<1>5. /\ \A p \in Int : Spans(n.y, n.side, p) /\ Spans(m.y, m.side, p) => Spans(m.y, m.side, n.y)
      /\ Spans(m.y, m.side, n.y) => n.y + n.side <= m.y + m.side
  <2>1. /\ \E i \in Nat : n.y = i * n.side
        /\ \E j \in Nat : m.y = j * m.side
    BY NodeShape
  <2> QED
    BY <1>1, <1>3, <2>1
<1>6. ASSUME NEW p, IsPlace(p), Contains(n, p), Contains(m, p) PROVE Within(n, m)
  BY <1>4, <1>5, <1>6, ContainsSpans DEF Within, IsPlace
<1>7. ASSUME Within(n, m), NEW p, IsPlace(p), Contains(n, p) PROVE Contains(m, p)
  <2>1. /\ Spans(m.x, m.side, n.x) /\ Spans(n.x, n.side, p.x)
        /\ Spans(m.y, m.side, n.y) /\ Spans(n.y, n.side, p.y)
    BY <1>7, ContainsSpans DEF Within
  <2>2. n.x + n.side <= m.x + m.side /\ n.y + n.side <= m.y + m.side
    BY <1>4, <1>5, <2>1
  <2>3. Spans(m.x, m.side, p.x) /\ Spans(m.y, m.side, p.y)
    BY <1>1, <1>7, <2>1, <2>2 DEF Spans, IsPlace
  <2> QED
    BY <2>3, ContainsSpans
<1> QED
  BY <1>6, <1>7

\* Nodes are ordered by Within, and two that contain the same place are
\* comparable.
LEMMA NodesNest ==
  ASSUME NEW n \in Nodes, NEW m \in Nodes
  PROVE  /\ IsPlace(n) /\ Contains(n, n) /\ Within(n, n)
         /\ Within(n, m) => \A p : IsPlace(p) /\ Contains(n, p) => Contains(m, p)
         /\ \A p : IsPlace(p) /\ Contains(n, p) /\ Contains(m, p) => Within(n, m) \/ Within(m, n)
         /\ Within(n, m) /\ m.side <= n.side => n = m
         /\ \A k \in Nodes : Within(n, m) /\ Within(m, k) => Within(n, k)
<1>1. /\ n.side \in Nat \ {0} /\ n.x \in Nat /\ n.y \in Nat
      /\ m.side \in Nat \ {0} /\ m.x \in Nat /\ m.y \in Nat
  BY NodeShape
<1>2. IsPlace(n) /\ Contains(n, n) /\ Within(n, n)
  BY <1>1 DEF IsPlace, Contains, Within
<1>3. Within(n, m) => n.side <= m.side
  BY DEF Within
<1>4. ASSUME Within(n, m), m.side <= n.side PROVE n = m
  <2>1. n.side = m.side
    BY <1>1, <1>3, <1>4
  <2>2. Contains(m, n)
    BY <1>4 DEF Within
  <2>3. Within(m, n)
    BY <1>1, <1>2, <1>4, <2>2, SmallerInLarger
  <2>4. n.x = m.x /\ n.y = m.y
    BY <1>1, <2>2, <2>3 DEF Within, Contains
  <2> QED
    BY <2>1, <2>4, NodeShape
<1>5. ASSUME NEW k \in Nodes, Within(n, m), Within(m, k) PROVE Within(n, k)
  <2>1. k.side \in Nat
    BY NodeShape
  <2>2. n.side <= k.side /\ m.side <= k.side /\ Contains(m, n)
    BY <1>1, <1>5, <2>1 DEF Within
  <2>3. Contains(k, n)
    BY <1>2, <1>5, <2>2, SmallerInLarger
  <2> QED
    BY <2>2, <2>3 DEF Within
<1>6. ASSUME NEW p, IsPlace(p), Contains(n, p), Contains(m, p) PROVE Within(n, m) \/ Within(m, n)
  <2>1. n.side <= m.side \/ m.side <= n.side
    BY <1>1
  <2> QED
    BY <1>6, <2>1, SmallerInLarger
<1>7. ASSUME Within(n, m), NEW p, IsPlace(p), Contains(n, p) PROVE Contains(m, p)
  BY <1>3, <1>7, SmallerInLarger
<1> QED
  BY <1>2, <1>4, <1>5, <1>6, <1>7

\* Squares that are within each other are the same.
LEMMA WithinOneAnother ==
  ASSUME NEW n \in Nodes, NEW m \in Nodes, Within(n, m), Within(m, n)
  PROVE  n = m
BY NodesNest DEF Within

\* The field is the largest node, and is covered with nodes of side 1.
LEMMA RootAndUnits ==
  /\ Root \in Nodes
  /\ \A n \in Nodes : Within(n, Root)
  /\ \A p : IsPlace(p) /\ Contains(Root, p) => \E n \in Nodes : n.side = 1 /\ Contains(n, p)
<1> DEFINE f == Field
<1>1. f \in Nat \ {0} /\ f = f * 1 /\ f = 1 * f
  BY FieldAssumption
<1> HIDE DEF f
<1>2. f % f = 0 /\ f \div f = 1 /\ f % 1 = 0 /\ f \div 1 = f
  BY <1>1, Multiple
<1>3. Field \in Sides /\ 1 \in Sides /\ Field \div Field = 1 /\ Field \div 1 = Field
      /\ Field \in Nat \ {0}
  BY <1>1, <1>2 DEF Sides, f
<1>4. Root \in Nodes
  <2>1. 0 \in {i * Field : i \in 0..(Field \div Field - 1)}
    <3>1. 0 \in 0..(Field \div Field - 1) /\ 0 * Field = 0
      BY <1>3
    <3> QED
      BY <3>1
  <2>2. Root \in [side : {Field}, x : {i * Field : i \in 0..(Field \div Field - 1)},
                                  y : {i * Field : i \in 0..(Field \div Field - 1)}]
    BY <2>1 DEF Root
  <2> QED
    BY <1>3, <2>2 DEF Nodes
<1>5. ASSUME NEW n \in Nodes PROVE Within(n, Root)
  <2>1. /\ n.side \in Nat \ {0} /\ n.side <= Field /\ n.x \in Nat /\ n.y \in Nat
        /\ n.x + n.side <= Field /\ n.y + n.side <= Field
    BY NodeShape
  <2> QED
    BY <1>3, <2>1 DEF Within, Contains, Root
<1>6. ASSUME NEW p, IsPlace(p), Contains(Root, p)
      PROVE  \E n \in Nodes : n.side = 1 /\ Contains(n, p)
  <2>1. p.x \in 0..(Field - 1) /\ p.y \in 0..(Field - 1)
    BY <1>3, <1>6 DEF Contains, Root, IsPlace
  <2>2. \A i \in 0..(Field - 1) : i = i * 1 /\ i < i + 1
    OBVIOUS
  <2>3. /\ p.x \in {i * 1 : i \in 0..(Field \div 1 - 1)}
        /\ p.y \in {i * 1 : i \in 0..(Field \div 1 - 1)}
    BY <1>3, <2>1, <2>2
  <2> DEFINE n == [side |-> 1, x |-> p.x, y |-> p.y]
  <2>4. n \in [side : {1}, x : {i * 1 : i \in 0..(Field \div 1 - 1)},
                           y : {i * 1 : i \in 0..(Field \div 1 - 1)}]
    BY <2>3
  <2>5. n \in Nodes
    BY <1>3, <2>4 DEF Nodes
  <2>6. Contains(n, p)
    BY <2>1, <2>2 DEF Contains
  <2> QED
    BY <2>5, <2>6
<1> QED
  BY <1>4, <1>5, <1>6

\* Of nodes that all contain one place, one is the largest.
LEMMA LargestNode ==
  ASSUME NEW M, M \subseteq Nodes, M # {}, NEW p, IsPlace(p), \A n \in M : Contains(n, p)
  PROVE  \E n \in M : \A m \in M : Within(m, n)
<1> DEFINE S == {n.side : n \in M}
<1>1. Field \in Nat /\ \A n \in M : n.side \in 0..Field
  BY NodeShape, FieldAssumption
<1>2. S \subseteq 0..Field /\ S # {}
  BY <1>1
<1>3. PICK s \in S : \A r \in S : r <= s
  BY <1>1, <1>2, GreatestNumber
<1>4. PICK n \in M : n.side = s
  OBVIOUS
<1>5. \A m \in M : m.side <= n.side
  BY <1>3, <1>4
<1>6. \A m \in M : Within(m, n)
  BY <1>5, SmallerInLarger
<1> QED
  BY <1>6

-----------------------------------------------------------------------------
(* Leaves *)

\* The descent for a place on the field ends in one leaf, if it ends.
LEMMA OneLeaf ==
  ASSUME NEW split, NEW p, IsPlace(p),
         NEW n \in LeavesAt(split, p), NEW m \in LeavesAt(split, p)
  PROVE  n = m
<1>1. /\ n \in Nodes /\ m \in Nodes /\ n \notin split /\ m \notin split
      /\ Contains(n, p) /\ Contains(m, p)
      /\ Within(n, m) /\ n # m => m \in split
      /\ Within(m, n) /\ m # n => n \in split
  BY DEF LeavesAt
<1> QED
  BY <1>1, NodesNest

\* It ends if the squares of side 1 are not subdivided.
LEMMA LeafExists ==
  ASSUME NEW split, NEW p, IsPlace(p), Contains(Root, p),
         \A n \in Nodes : n.side = 1 => n \notin split
  PROVE  LeavesAt(split, p) # {}
<1> DEFINE M == {n \in Nodes \ split : Contains(n, p)}
<1>1. M # {} /\ M \subseteq Nodes /\ \A n \in M : Contains(n, p)
  BY RootAndUnits
<1>2. PICK n \in M : \A m \in M : Within(m, n)
  BY <1>1, LargestNode
<1>3. ASSUME NEW m \in Nodes, Within(n, m), n # m, m \notin split PROVE FALSE
  <2>1. Contains(m, p)
    BY <1>3, NodesNest
  <2>2. Within(m, n)
    BY <1>2, <1>3, <2>1
  <2> QED
    BY <1>3, <2>2, WithinOneAnother
<1>4. n \in LeavesAt(split, p)
  BY <1>3 DEF LeavesAt
<1> QED
  BY <1>4

-----------------------------------------------------------------------------
(* The tree of the places where the ships are *)

\* The ships of C whose centre is in n, and the nodes where they are too many.
Here(b, C, n) == {i \in C : Contains(n, Centre(b[i]))}
Crowded(b, C) == {n \in Nodes : Cardinality(Here(b, C, n)) > NbItems}

\* The ships of C have places, and a square of side 1 has room for those in it.
Placed(b, C) ==
  /\ C \subseteq Ids /\ \A i \in C : IsPlace(Centre(b[i]))
  /\ \A n \in Nodes : n.side = 1 => n \notin Crowded(b, C)

(***************************************************************************)
(* Tree t is the one of the ships in C at the places of b: subdivided      *)
(* where they are too many, with each ship in the leaf of its centre.      *)
(***************************************************************************)
IsTreeOf(t, b, C) ==
  /\ t \in Trees
  /\ t.split = Crowded(b, C)
  /\ t.map = t.node
  /\ \A i \in Ids : IF i \in C /\ Contains(Root, Centre(b[i]))
                    THEN t.node[i] \in LeavesAt(t.split, Centre(b[i]))
                    ELSE t.node[i] = Absent

\* There are finitely many ships, so that they can be counted.
LEMMA HereIsFinite ==
  ASSUME NEW b, NEW C, C \subseteq Ids, NEW n
  PROVE  /\ IsFiniteSet(C) /\ IsFiniteSet(Here(b, C, n))
         /\ Cardinality(Here(b, C, n)) \in Nat
         /\ \A S : S \subseteq Here(b, C, n) => IsFiniteSet(S) /\ Cardinality(S) \in Nat
                /\ Cardinality(S) <= Cardinality(Here(b, C, n))
                /\ (Cardinality(S) = Cardinality(Here(b, C, n)) => S = Here(b, C, n))
<1>1. IsFiniteSet(C)
  BY IdsAssumption, FS_Subset
<1>2. Here(b, C, n) \subseteq C
  BY DEF Here
<1>3. IsFiniteSet(Here(b, C, n))
  BY <1>1, <1>2, FS_Subset
<1> QED
  BY <1>1, <1>3, FS_Subset, FS_CardinalityType

\* Where more ships are below, more are above.
LEMMA CrowdedAbove ==
  ASSUME NEW b, NEW C, Placed(b, C), NEW n \in Nodes, NEW m \in Nodes, Within(n, m)
  PROVE  /\ Here(b, C, n) \subseteq Here(b, C, m)
         /\ n \in Crowded(b, C) => m \in Crowded(b, C)
<1>1. Here(b, C, n) \subseteq Here(b, C, m)
  BY NodesNest DEF Here, Placed
<1>2. /\ Cardinality(Here(b, C, n)) <= Cardinality(Here(b, C, m))
      /\ Cardinality(Here(b, C, n)) \in Nat /\ Cardinality(Here(b, C, m)) \in Nat
  BY <1>1, HereIsFinite DEF Placed
<1> QED
  BY <1>1, <1>2, ItemsAssumption DEF Crowded

\* What is on a node is on the field.
LEMMA OnTheField ==
  ASSUME NEW n \in Nodes, NEW p, IsPlace(p), Contains(n, p)
  PROVE  Contains(Root, p)
BY RootAndUnits, NodesNest

\* The items of a leaf are the ships there.
LEMMA ItemsAreHere ==
  ASSUME NEW t, NEW b, NEW C, Placed(b, C), IsTreeOf(t, b, C),
         NEW p, NEW n \in LeavesAt(t.split, p)
  PROVE  Items(t, n) = Here(b, C, n)
<1>0. Absent \notin Nodes /\ n \in Nodes
  BY AbsentAssumption DEF LeavesAt
<1>1. ASSUME NEW i \in Items(t, n) PROVE i \in Here(b, C, n)
  <2>1. i \in Ids /\ t.node[i] = n
    BY <1>1 DEF Items
  <2>2. i \in C /\ n \in LeavesAt(t.split, Centre(b[i]))
    BY <1>0, <2>1 DEF IsTreeOf
  <2> QED
    BY <2>2 DEF Here, LeavesAt
<1>2. ASSUME NEW i \in Here(b, C, n) PROVE i \in Items(t, n)
  <2>1. i \in C /\ i \in Ids /\ Contains(n, Centre(b[i])) /\ IsPlace(Centre(b[i]))
    BY <1>2 DEF Here, Placed
  <2>2. n \in LeavesAt(t.split, Centre(b[i]))
    BY <2>1 DEF LeavesAt
  <2>3. t.node[i] \in LeavesAt(t.split, Centre(b[i]))
    BY <1>0, <2>1, OnTheField DEF IsTreeOf
  <2>4. t.node[i] = n
    BY <2>1, <2>2, <2>3, OneLeaf
  <2> QED
    BY <2>1, <2>4 DEF Items
<1> QED
  BY <1>1, <1>2

\* The items below a node that is subdivided are the ships there.
LEMMA BelowIsHere ==
  ASSUME NEW t, NEW b, NEW C, Placed(b, C), IsTreeOf(t, b, C), NEW n \in t.split
  PROVE  /\ Below(t, n) = Here(b, C, n)
         /\ \A i \in C : t.node[i] # Absent =>
              /\ t.node[i] \in Nodes \ t.split /\ Contains(t.node[i], Centre(b[i]))
              /\ Contains(n, Centre(b[i])) <=> Within(t.node[i], n)
<1>0. Absent \notin Nodes /\ n \in Nodes
  BY AbsentAssumption DEF IsTreeOf, Crowded
<1>1. ASSUME NEW i \in Ids, t.node[i] # Absent
      PROVE  /\ i \in C /\ IsPlace(Centre(b[i]))
             /\ t.node[i] \in Nodes \ t.split /\ Contains(t.node[i], Centre(b[i]))
  <2>1. i \in C /\ t.node[i] \in LeavesAt(t.split, Centre(b[i]))
    BY <1>1 DEF IsTreeOf
  <2> QED
    BY <2>1 DEF LeavesAt, Placed
<1>2. ASSUME NEW i \in Ids, t.node[i] # Absent, Contains(n, Centre(b[i]))
      PROVE  Within(t.node[i], n)
  <2>1. Within(t.node[i], n) \/ Within(n, t.node[i])
    BY <1>0, <1>1, <1>2, NodesNest
  <2>2. ~Within(n, t.node[i])
    BY <1>0, <1>1, <1>2, CrowdedAbove DEF IsTreeOf
  <2> QED
    BY <2>1, <2>2
<1>3. ASSUME NEW i \in Ids, t.node[i] # Absent, Within(t.node[i], n)
      PROVE  Contains(n, Centre(b[i]))
  BY <1>0, <1>1, <1>3, NodesNest
<1>4. C \subseteq Ids
  BY DEF Placed
<1>5. \A i \in C : Contains(n, Centre(b[i])) => t.node[i] # Absent
  <2> SUFFICES ASSUME NEW i \in C, Contains(n, Centre(b[i])) PROVE t.node[i] # Absent
    OBVIOUS
  <2>1. IsPlace(Centre(b[i])) /\ i \in Ids
    BY DEF Placed
  <2>2. t.node[i] \in LeavesAt(t.split, Centre(b[i]))
    BY <1>0, <2>1, OnTheField DEF IsTreeOf
  <2> QED
    BY <1>0, <2>2 DEF LeavesAt
<1>6. Below(t, n) = Here(b, C, n)
  BY <1>1, <1>2, <1>3, <1>4, <1>5 DEF Below, Here
<1>7. ASSUME NEW i \in C, t.node[i] # Absent
      PROVE  /\ t.node[i] \in Nodes \ t.split /\ Contains(t.node[i], Centre(b[i]))
             /\ Contains(n, Centre(b[i])) <=> Within(t.node[i], n)
  BY <1>1, <1>2, <1>3, <1>4, <1>7
<1> QED
  BY <1>6, <1>7

\* One ship more counts in the nodes that contain its centre.
LEMMA OneMoreHere ==
  ASSUME NEW b, NEW D, NEW id \in Ids, D \subseteq Ids, id \notin D, NEW n
  PROVE  /\ Here(b, D, n) \subseteq Here(b, D \cup {id}, n)
         /\ Here(b, D, n) = Here(b, D \cup {id}, n) \ {id}
         /\ Contains(n, Centre(b[id])) <=> id \in Here(b, D \cup {id}, n)
         /\ Cardinality(Here(b, D, n)) \in Nat
         /\ Cardinality(Here(b, D \cup {id}, n)) =
              Cardinality(Here(b, D, n)) + (IF Contains(n, Centre(b[id])) THEN 1 ELSE 0)
<1> DEFINE H == Here(b, D, n)
           G == Here(b, D \cup {id}, n)
<1>1. /\ G = H \cup (IF Contains(n, Centre(b[id])) THEN {id} ELSE {})
      /\ id \notin H
  BY DEF Here
<1>2. IsFiniteSet(H) /\ Cardinality(H) \in Nat
  BY HereIsFinite
<1> HIDE DEF H, G
<1>3. CASE Contains(n, Centre(b[id]))
  <2>1. G = H \cup {id}
    BY <1>1, <1>3
  <2>2. Cardinality(G) = Cardinality(H) + 1
    BY <1>1, <1>2, <2>1, FS_AddElement
  <2> QED
    BY <1>1, <1>2, <1>3, <2>1, <2>2 DEF G, H
<1>4. CASE ~Contains(n, Centre(b[id]))
  <2>1. G = H
    BY <1>1, <1>4
  <2>2. H = G \ {id} /\ id \notin G
    BY <1>1, <2>1
  <2>3. Cardinality(G) = Cardinality(H) + (IF Contains(n, Centre(b[id])) THEN 1 ELSE 0)
    BY <1>2, <1>4, <2>1
  <2> QED
    BY <1>2, <1>4, <2>1, <2>2, <2>3 DEF G, H
<1> QED
  BY <1>3, <1>4

\* One more ship crowds the nodes that were full and contain it.
LEMMA MoreAreCrowded ==
  ASSUME NEW b, NEW D, NEW id \in Ids, id \notin D, Placed(b, D \cup {id})
  PROVE  /\ Crowded(b, D) \subseteq Crowded(b, D \cup {id})
         /\ \A n \in Crowded(b, D \cup {id}) \ Crowded(b, D) :
              /\ Contains(n, Centre(b[id]))
              /\ Cardinality(Here(b, D, n)) = NbItems
              /\ Cardinality(Here(b, D \cup {id}, n)) = NbItems + 1
         /\ Placed(b, D)
<1>1. D \subseteq Ids /\ NbItems \in Nat
  BY ItemsAssumption DEF Placed
<1>2. \A n : /\ Cardinality(Here(b, D, n)) \in Nat
             /\ Cardinality(Here(b, D \cup {id}, n)) =
                  Cardinality(Here(b, D, n)) + (IF Contains(n, Centre(b[id])) THEN 1 ELSE 0)
  BY <1>1, OneMoreHere
<1>3. Crowded(b, D) \subseteq Crowded(b, D \cup {id})
  BY <1>1, <1>2 DEF Crowded
<1>4. ASSUME NEW n \in Crowded(b, D \cup {id}) \ Crowded(b, D)
      PROVE  /\ Contains(n, Centre(b[id]))
             /\ Cardinality(Here(b, D, n)) = NbItems
             /\ Cardinality(Here(b, D \cup {id}, n)) = NbItems + 1
  <2>1. /\ Cardinality(Here(b, D \cup {id}, n)) > NbItems
        /\ ~(Cardinality(Here(b, D, n)) > NbItems)
    BY DEF Crowded
  <2> DEFINE h == Cardinality(Here(b, D, n))
             g == Cardinality(Here(b, D \cup {id}, n))
  <2>2. h \in Nat /\ g = h + (IF Contains(n, Centre(b[id])) THEN 1 ELSE 0)
    BY <1>2
  <2>3. g > NbItems /\ ~(h > NbItems)
    BY <2>1
  <2> HIDE DEF h, g
  <2>4. Contains(n, Centre(b[id])) /\ h = NbItems /\ g = NbItems + 1
    BY <1>1, <2>2, <2>3
  <2> QED
    BY <2>4 DEF h, g
<1> QED
  BY <1>3, <1>4 DEF Placed

\* A ship whose centre is outside is not in the tree.
LEMMA OutsideTree ==
  ASSUME NEW t, NEW b, NEW D, NEW id \in Ids, id \notin D, Placed(b, D \cup {id}),
         ~Contains(Root, Centre(b[id]))
  PROVE  IsTreeOf(t, b, D) <=> IsTreeOf(t, b, D \cup {id})
<1>1. \A n \in Nodes : ~Contains(n, Centre(b[id]))
  BY OnTheField DEF Placed
<1>2. Crowded(b, D \cup {id}) \subseteq Nodes
  BY DEF Crowded
<1>3. Crowded(b, D) = Crowded(b, D \cup {id})
  <2>1. /\ Crowded(b, D) \subseteq Crowded(b, D \cup {id})
        /\ \A n \in Crowded(b, D \cup {id}) \ Crowded(b, D) : Contains(n, Centre(b[id]))
    BY MoreAreCrowded
  <2> QED
    BY <1>1, <1>2, <2>1
<1> QED
  BY <1>3 DEF IsTreeOf

-----------------------------------------------------------------------------
(* remove() *)

\* The nodes that take back their children's items are those with few enough.
LEMMA MergedAreUncrowded ==
  ASSUME NEW t, NEW b, NEW D, NEW id \in Ids, id \notin D, Placed(b, D \cup {id}),
         IsTreeOf(t, b, D \cup {id}), t.node[id] # Absent
  PROVE  Merged(t, id) = t.split \ Crowded(b, D)
<1> DEFINE C == D \cup {id}
           leaf == t.node[id]
           p == Centre(b[id])
<1>1. D \subseteq Ids /\ NbItems \in Nat /\ t.split = Crowded(b, C) /\ id \in C
  BY ItemsAssumption DEF Placed, IsTreeOf
<1>2. \A n \in t.split : /\ n \in Nodes
                         /\ Below(t, n) = Here(b, C, n)
                         /\ Contains(n, p) <=> Within(leaf, n)
  <2>1. \A n \in t.split : n \in Nodes
    BY <1>1 DEF Crowded
  <2> QED
    BY <1>1, <2>1, BelowIsHere
<1>3. \A n : /\ Here(b, D, n) = Here(b, C, n) \ {id}
             /\ Contains(n, p) <=> id \in Here(b, C, n)
             /\ Cardinality(Here(b, D, n)) \in Nat
  BY <1>1, OneMoreHere
<1> HIDE DEF leaf, p
<1>4. ASSUME NEW n \in Merged(t, id) PROVE n \in t.split \ Crowded(b, D)
  <2>1. n \in t.split /\ Cardinality(Below(t, n) \ {id}) <= NbItems
    BY <1>4 DEF Merged
  <2>2. Cardinality(Here(b, D, n)) <= NbItems
    BY <1>2, <1>3, <2>1
  <2> QED
    BY <1>1, <1>3, <2>1, <2>2 DEF Crowded
<1>5. ASSUME NEW n \in t.split, n \notin Crowded(b, D) PROVE n \in Merged(t, id)
  <2>1. /\ Contains(n, p) /\ n \in Nodes
        /\ Cardinality(Here(b, D, n)) = NbItems
        /\ Cardinality(Here(b, C, n)) = NbItems + 1
    <3>1. n \in Crowded(b, C) \ Crowded(b, D) /\ n \in Nodes
      BY <1>1, <1>2, <1>5
    <3>2. \A m \in Crowded(b, C) \ Crowded(b, D) :
            /\ Contains(m, Centre(b[id]))
            /\ Cardinality(Here(b, D, m)) = NbItems
            /\ Cardinality(Here(b, C, m)) = NbItems + 1
      BY MoreAreCrowded
    <3> QED
      BY <3>1, <3>2 DEF p
  <2>2. Within(leaf, n) /\ Cardinality(Below(t, n) \ {id}) <= NbItems
    <3>1. Below(t, n) = Here(b, C, n) /\ Within(leaf, n)
      BY <1>2, <1>5, <2>1
    <3>2. Below(t, n) \ {id} = Here(b, D, n)
      BY <1>3, <3>1
    <3>3. NbItems <= NbItems
      BY <1>1
    <3> QED
      BY <2>1, <3>1, <3>2, <3>3
  <2>3. ASSUME NEW m \in t.split, Within(m, n) PROVE Within(leaf, m)
    <3>1. Here(b, C, m) \subseteq Here(b, C, n)
      BY <1>2, <2>1, <2>3, CrowdedAbove
    <3>2. /\ Cardinality(Here(b, C, m)) <= Cardinality(Here(b, C, n))
          /\ Cardinality(Here(b, C, m)) \in Nat
          /\ Cardinality(Here(b, C, m)) = Cardinality(Here(b, C, n)) =>
               Here(b, C, m) = Here(b, C, n)
      <4>1. C \subseteq Ids
        BY <1>1
      <4> QED
        BY <3>1, <4>1, HereIsFinite
    <3>3. Cardinality(Here(b, C, m)) > NbItems
      BY <1>1, <2>3 DEF Crowded
    <3>4. Here(b, C, m) = Here(b, C, n)
      BY <1>1, <2>1, <3>2, <3>3
    <3> QED
      BY <1>2, <1>3, <2>1, <2>3, <3>4
  <2> QED
    BY <1>5, <2>2, <2>3 DEF Merged, leaf
<1> QED
  BY <1>4, <1>5

\* remove() leaves the tree of the other ships.
LEMMA RemovedTree ==
  ASSUME NEW t, NEW b, NEW D, NEW id \in Ids, id \notin D, Placed(b, D \cup {id}),
         IsTreeOf(t, b, D \cup {id}), t.node[id] # Absent
  PROVE  IsTreeOf(Remove(t, id), b, D)
<1> DEFINE C == D \cup {id}
           M == Merged(t, id)
           L == Largest(M)
           moved == IF M = {} THEN {} ELSE Below(t, L)
           new == [i \in Ids |-> IF i = id THEN Absent ELSE IF i \in moved THEN L ELSE t.node[i]]
           split == Crowded(b, D)
<1>1. /\ D \subseteq Ids /\ id \in C /\ t.split = Crowded(b, C) /\ t.map = t.node
      /\ t.node \in [Ids -> Nodes \cup {Absent}] /\ t.split \subseteq Nodes
      /\ \A i \in C : IsPlace(Centre(b[i]))
  BY DEF Placed, IsTreeOf, Trees
<1>2. M = t.split \ split /\ split \subseteq t.split /\ split \subseteq Nodes
  BY <1>1, MergedAreUncrowded, MoreAreCrowded
<1>3. Remove(t, id) = [split |-> split, node |-> new, map |-> new]
  <2>1. t.split \ M = split
    BY <1>2
  <2> QED
    BY <1>1, <2>1 DEF Remove
<1>4. ASSUME M # {}
      PROVE  /\ L \in M /\ \A m \in M : Within(m, L)
             /\ L \in Nodes /\ L \in t.split /\ L \notin split
             /\ moved = Here(b, C, L)
             /\ \A i \in C : t.node[i] # Absent =>
                  (Contains(L, Centre(b[i])) <=> Within(t.node[i], L))
  <2>1. \A n \in M : n \in Nodes /\ Contains(n, Centre(b[id]))
    BY <1>1, <1>2, MoreAreCrowded
  <2>2. \E n \in M : \A m \in M : Within(m, n)
    BY <1>1, <1>4, <2>1, LargestNode
  <2>3. L \in M /\ \A m \in M : Within(m, L)
    BY <2>2 DEF Largest
  <2>4. L \in Nodes /\ L \in t.split /\ L \notin split
    BY <1>1, <1>2, <2>3
  <2>5. moved = Below(t, L)
    BY <1>4
  <2> HIDE DEF L, moved
  <2> QED
    BY <2>3, <2>4, <2>5, BelowIsHere
<1> HIDE DEF M, L, moved, split
<1>5. ASSUME NEW i \in D, i \in moved
      PROVE  L \in LeavesAt(split, Centre(b[i])) /\ Contains(Root, Centre(b[i]))
  <2>1. /\ L \in M /\ \A m \in M : Within(m, L)
        /\ L \in Nodes /\ L \in t.split /\ L \notin split
        /\ Contains(L, Centre(b[i]))
    BY <1>4, <1>5 DEF moved, Here
  <2>2. ASSUME NEW m \in Nodes, Within(L, m), L # m PROVE m \in split
    <3>1. m \in t.split
      BY <1>1, <2>1, <2>2, CrowdedAbove
    <3>2. m \notin M
      BY <2>1, <2>2, WithinOneAnother
    <3> QED
      BY <1>2, <3>1, <3>2
  <2>3. L \in LeavesAt(split, Centre(b[i]))
    BY <2>1, <2>2 DEF LeavesAt
  <2> QED
    BY <1>1, <2>1, <2>3, OnTheField
<1>6. ASSUME NEW i \in D, i \notin moved, Contains(Root, Centre(b[i]))
      PROVE  t.node[i] \in LeavesAt(split, Centre(b[i]))
  <2> DEFINE n == t.node[i]
  <2>1. n \in LeavesAt(t.split, Centre(b[i]))
    BY <1>1, <1>6 DEF IsTreeOf
  <2>2. /\ n \in Nodes /\ n \notin t.split /\ Contains(n, Centre(b[i])) /\ n # Absent
        /\ \A m \in Nodes : Within(n, m) /\ n # m => m \in t.split
    BY <2>1, AbsentAssumption DEF LeavesAt
  <2> HIDE DEF n
  <2>3. ASSUME NEW m \in Nodes, Within(n, m), n # m PROVE m \in split
    <3> SUFFICES ASSUME m \in M PROVE FALSE
      BY <1>2, <2>2, <2>3
    <3>1. Within(m, L) /\ L \in Nodes
      BY <1>4
    <3>2. Within(n, L)
      BY <2>2, <2>3, <3>1, NodesNest
    <3>3. Contains(L, Centre(b[i]))
      BY <1>1, <2>2, <3>1, <3>2, NodesNest
    <3>4. i \in moved
      BY <1>4, <3>3 DEF Here
    <3> QED
      BY <1>6, <3>4
  <2>4. n \in LeavesAt(split, Centre(b[i]))
    BY <1>2, <2>2, <2>3 DEF LeavesAt
  <2> QED
    BY <2>4 DEF n
<1>7. \A i \in Ids : IF i \in D /\ Contains(Root, Centre(b[i]))
                     THEN new[i] \in LeavesAt(split, Centre(b[i]))
                     ELSE new[i] = Absent
  <2> SUFFICES ASSUME NEW i \in Ids
               PROVE  IF i \in D /\ Contains(Root, Centre(b[i]))
                      THEN new[i] \in LeavesAt(split, Centre(b[i]))
                      ELSE new[i] = Absent
    OBVIOUS
  <2>1. CASE i = id
    BY <2>1
  <2>2. CASE i # id /\ i \in moved
    <3>1. i \in D
      BY <1>4, <2>2 DEF moved, Here
    <3> QED
      BY <1>5, <2>2, <3>1
  <2>3. CASE i # id /\ i \notin moved /\ i \in D /\ Contains(Root, Centre(b[i]))
    BY <1>6, <2>3
  <2>4. CASE i # id /\ i \notin moved /\ ~(i \in D /\ Contains(Root, Centre(b[i])))
    <3>1. t.node[i] = Absent
      BY <2>4 DEF IsTreeOf
    <3> QED
      BY <2>4, <3>1
  <2> QED
    BY <2>1, <2>2, <2>3, <2>4
<1>8. new \in [Ids -> Nodes \cup {Absent}]
  <2>1. \A i \in moved : L \in Nodes
    BY <1>4 DEF moved
  <2> QED
    BY <1>1, <2>1
<1> HIDE DEF new
<1>9. Remove(t, id) \in Trees
  BY <1>2, <1>3, <1>8 DEF Trees
<1> QED
  BY <1>3, <1>7, <1>9 DEF IsTreeOf, split

-----------------------------------------------------------------------------
(* insert() *)

\* A leaf of the descent for a place is not subdivided, and all above it is.
LEMMA AroundTheLeaf ==
  ASSUME NEW t, NEW b, NEW D, Placed(b, D), IsTreeOf(t, b, D),
         NEW p, IsPlace(p), NEW leaf \in LeavesAt(t.split, p), NEW q, IsPlace(q)
  PROVE  /\ leaf \in Nodes /\ leaf \notin t.split /\ Contains(leaf, p)
         /\ \A n \in Nodes : n \notin t.split /\ Contains(n, p) => Within(n, leaf)
         /\ \A n \in t.split : ~Within(n, leaf)
         /\ Contains(leaf, q) =>
              \A n \in Nodes : Contains(n, q) => (n \in t.split <=> Within(leaf, n) /\ n # leaf)
<1>1. /\ leaf \in Nodes /\ leaf \notin t.split /\ Contains(leaf, p)
      /\ \A m \in Nodes : Within(leaf, m) /\ leaf # m => m \in t.split
  BY DEF LeavesAt
<1>2. ASSUME NEW n \in Nodes, n \notin t.split, Contains(n, p) PROVE Within(n, leaf)
  BY <1>1, <1>2, NodesNest
<1>3. ASSUME NEW n \in t.split PROVE ~Within(n, leaf)
  <2>1. t.split = Crowded(b, D) /\ n \in Nodes
    BY DEF IsTreeOf, Crowded
  <2> QED
    BY <1>1, <2>1, CrowdedAbove
<1>4. ASSUME Contains(leaf, q), NEW n \in Nodes, Contains(n, q)
      PROVE  n \in t.split <=> Within(leaf, n) /\ n # leaf
  <2>1. Within(n, leaf) \/ Within(leaf, n)
    BY <1>1, <1>4, NodesNest
  <2> QED
    BY <1>1, <1>3, <2>1
<1> QED
  BY <1>1, <1>2, <1>3, <1>4

\* A tree with one item put in a node.
LEMMA OneItemPut ==
  ASSUME NEW t \in Trees, t.map = t.node, NEW id \in Ids, NEW leaf
  PROVE  [t EXCEPT !.node[id] = leaf, !.map[id] = leaf] =
           [split |-> t.split, node |-> [t.node EXCEPT ![id] = leaf],
                               map  |-> [t.node EXCEPT ![id] = leaf]]
<1> DEFINE new == [t.node EXCEPT ![id] = leaf]
           one == [t EXCEPT !.node = new]
<1>1. t = [split |-> t.split, node |-> t.node, map |-> t.node]
  BY DEF Trees
<1>2. one = [split |-> t.split, node |-> new, map |-> t.node]
  BY <1>1
<1>3. one.map = t.node
  BY <1>2
<1>4. [one EXCEPT !.map = new] = [split |-> t.split, node |-> new, map |-> new]
  <2>1. \A s, f, g : [[split |-> s, node |-> f, map |-> g] EXCEPT !.map = f] =
                       [split |-> s, node |-> f, map |-> f]
    OBVIOUS
  <2> HIDE DEF one, new
  <2> QED
    BY <1>2, <2>1
<1>5. [t EXCEPT !.node[id] = leaf, !.map[id] = leaf] = [one EXCEPT !.map = new]
  BY <1>3
<1> QED
  BY <1>4, <1>5

\* A leaf with room takes the ship.
LEMMA InsertedWithRoom ==
  ASSUME NEW t, NEW b, NEW D, NEW id \in Ids, id \notin D, Placed(b, D \cup {id}),
         IsTreeOf(t, b, D), NEW leaf \in LeavesAt(t.split, Centre(b[id])),
         Cardinality(Items(t, leaf)) < NbItems
  PROVE  IsTreeOf([t EXCEPT !.node[id] = leaf, !.map[id] = leaf], b, D \cup {id})
<1> DEFINE C == D \cup {id}
           p == Centre(b[id])
           new == [t.node EXCEPT ![id] = leaf]
<1>1. /\ Placed(b, D) /\ IsPlace(p) /\ D \subseteq Ids /\ NbItems \in Nat
      /\ t.split = Crowded(b, D) /\ t.map = t.node /\ t.node \in [Ids -> Nodes \cup {Absent}]
      /\ t = [split |-> t.split, node |-> t.node, map |-> t.map] /\ t.split \subseteq Nodes
  BY MoreAreCrowded, ItemsAssumption DEF Placed, IsTreeOf, Trees
<1>2. /\ leaf \in Nodes /\ leaf \notin t.split /\ Contains(leaf, p)
      /\ \A n \in Nodes : n \notin t.split /\ Contains(n, p) => Within(n, leaf)
  BY <1>1, AroundTheLeaf
<1>3. Cardinality(Here(b, D, leaf)) < NbItems
  BY <1>1, ItemsAreHere
<1>4. Crowded(b, C) = Crowded(b, D)
  <2>1. /\ Crowded(b, D) \subseteq Crowded(b, C)
        /\ \A n \in Crowded(b, C) \ Crowded(b, D) :
              Contains(n, p) /\ Cardinality(Here(b, D, n)) = NbItems
    BY MoreAreCrowded
  <2> SUFFICES ASSUME NEW n \in Crowded(b, C) \ Crowded(b, D) PROVE FALSE
    BY <2>1
  <2>2. n \in Nodes /\ Cardinality(Here(b, D, n)) = NbItems /\ Contains(n, p)
    BY <2>1 DEF Crowded
  <2>3. Within(n, leaf)
    BY <1>1, <1>2, <2>2
  <2>4. Here(b, D, n) \subseteq Here(b, D, leaf)
    BY <1>1, <1>2, <2>2, <2>3, CrowdedAbove
  <2>5. /\ Cardinality(Here(b, D, n)) <= Cardinality(Here(b, D, leaf))
        /\ Cardinality(Here(b, D, leaf)) \in Nat
    BY <1>1, <2>4, HereIsFinite
  <2> QED
    BY <1>1, <1>3, <2>2, <2>5
<1>5. [t EXCEPT !.node[id] = leaf, !.map[id] = leaf] = [split |-> t.split, node |-> new, map |-> new]
  <2>1. t \in Trees /\ t.map = t.node
    BY DEF IsTreeOf
  <2> QED
    BY <2>1, OneItemPut
<1>6. new \in [Ids -> Nodes \cup {Absent}]
  BY <1>1, <1>2
<1>7. Contains(Root, p)
  BY <1>1, <1>2, OnTheField
<1>8. \A i \in Ids : IF i \in C /\ Contains(Root, Centre(b[i]))
                     THEN new[i] \in LeavesAt(t.split, Centre(b[i]))
                     ELSE new[i] = Absent
  <2> SUFFICES ASSUME NEW i \in Ids
               PROVE  IF i \in C /\ Contains(Root, Centre(b[i]))
                      THEN new[i] \in LeavesAt(t.split, Centre(b[i]))
                      ELSE new[i] = Absent
    OBVIOUS
  <2>1. CASE i = id
    BY <1>1, <1>7, <2>1
  <2>2. CASE i # id
    <3>1. new[i] = t.node[i] /\ (i \in C <=> i \in D)
      BY <1>1, <2>2
    <3>2. IF i \in D /\ Contains(Root, Centre(b[i]))
          THEN t.node[i] \in LeavesAt(t.split, Centre(b[i]))
          ELSE t.node[i] = Absent
      BY DEF IsTreeOf
    <3> HIDE DEF new, C
    <3> QED
      BY <3>1, <3>2
  <2> QED
    BY <2>1, <2>2
<1> HIDE DEF new
<1>9. [split |-> t.split, node |-> new, map |-> new] \in Trees
  BY <1>1, <1>6 DEF Trees
<1> QED
  BY <1>1, <1>4, <1>5, <1>8, <1>9 DEF IsTreeOf

\* The nodes subdivided for a new ship are those where it is one too many.
LEMMA SubdividedAreCrowded ==
  ASSUME NEW t, NEW b, NEW D, NEW id \in Ids, id \notin D, Placed(b, D \cup {id}),
         IsTreeOf(t, b, D), NEW leaf \in LeavesAt(t.split, Centre(b[id])),
         ~(Cardinality(Items(t, leaf)) < NbItems),
         NEW cut, cut = Subdivided(leaf, Items(t, leaf), b, Centre(b[id]))
  PROVE  /\ Crowded(b, D \cup {id}) = t.split \cup cut
         /\ cut \subseteq Nodes /\ \A n \in cut : Within(n, leaf)
<1> DEFINE C == D \cup {id}
           p == Centre(b[id])
           held == Items(t, leaf)
<1>1. /\ Placed(b, D) /\ IsPlace(p) /\ D \subseteq Ids /\ NbItems \in Nat
      /\ t.split = Crowded(b, D)
  BY MoreAreCrowded, ItemsAssumption DEF Placed, IsTreeOf
<1>2. /\ leaf \in Nodes /\ leaf \notin t.split /\ Contains(leaf, p)
      /\ \A n \in Nodes : n \notin t.split /\ Contains(n, p) => Within(n, leaf)
  BY <1>1, AroundTheLeaf
<1>3. held = Here(b, D, leaf) /\ Cardinality(Here(b, D, leaf)) = NbItems
  <2>1. held = Here(b, D, leaf)
    BY <1>1, ItemsAreHere
  <2>2. ~(Cardinality(held) > NbItems) /\ ~(Cardinality(held) < NbItems)
    BY <1>1, <1>2, <2>1 DEF Crowded
  <2>3. Cardinality(held) \in Nat
    BY <1>1, <2>1, HereIsFinite
  <2> QED
    BY <1>1, <2>1, <2>2, <2>3
<1>4. /\ Crowded(b, D) \subseteq Crowded(b, C)
      /\ \A n \in Crowded(b, C) \ Crowded(b, D) :
            Contains(n, p) /\ Cardinality(Here(b, D, n)) = NbItems
  BY MoreAreCrowded
<1>5. cut = {n \in Nodes : /\ Within(n, leaf) /\ Contains(n, p)
                           /\ \A i \in held : Contains(n, Centre(b[i]))}
  BY DEF Subdivided
<1> HIDE DEF held
<1>6. ASSUME NEW n \in Crowded(b, C), n \notin t.split PROVE n \in cut
  <2>1. n \in Nodes /\ Contains(n, p) /\ Cardinality(Here(b, D, n)) = NbItems
    BY <1>1, <1>4, <1>6 DEF Crowded
  <2>2. Within(n, leaf)
    BY <1>2, <1>6, <2>1
  <2>3. Here(b, D, n) \subseteq Here(b, D, leaf)
    BY <1>1, <1>2, <2>1, <2>2, CrowdedAbove
  <2>4. Here(b, D, n) = held
    BY <1>1, <1>3, <2>1, <2>3, HereIsFinite
  <2>5. \A i \in held : Contains(n, Centre(b[i]))
    BY <2>4 DEF Here
  <2> QED
    BY <1>5, <2>1, <2>2, <2>5
<1>7. ASSUME NEW n \in cut PROVE n \in Crowded(b, C)
  <2>1. /\ n \in Nodes /\ Within(n, leaf) /\ Contains(n, p)
        /\ \A i \in held : Contains(n, Centre(b[i]))
    BY <1>5
  <2>2. Here(b, D, n) \subseteq Here(b, D, leaf)
    BY <1>1, <1>2, <2>1, CrowdedAbove
  <2>3. held \subseteq Here(b, D, n)
    BY <1>3, <2>1 DEF Here
  <2>4. Cardinality(Here(b, D, n)) = NbItems
    <3>1. Here(b, D, n) = Here(b, D, leaf)
      BY <1>3, <2>2, <2>3
    <3> QED
      BY <1>3, <3>1
  <2>5. Cardinality(Here(b, C, n)) = Cardinality(Here(b, D, n)) + 1
    <3> HIDE DEF p
    <3>1. \A m : Cardinality(Here(b, D \cup {id}, m)) =
                   Cardinality(Here(b, D, m)) + (IF Contains(m, Centre(b[id])) THEN 1 ELSE 0)
      BY <1>1, OneMoreHere
    <3>2. Contains(n, Centre(b[id]))
      BY <2>1 DEF p
    <3> QED
      BY <3>1, <3>2
  <2>6. Cardinality(Here(b, C, n)) > NbItems
    BY <1>1, <2>4, <2>5
  <2> QED
    BY <2>1, <2>6 DEF Crowded
<1>8. Crowded(b, C) = t.split \cup cut
  BY <1>1, <1>4, <1>6, <1>7
<1>9. cut \subseteq Nodes /\ \A n \in cut : Within(n, leaf)
  BY <1>5
<1> QED
  BY <1>8, <1>9

\* The items of the leaf, and the new one, come to the leaves of their centres.
LEMMA LoweredToLeaves ==
  ASSUME NEW t, NEW b, NEW D, Placed(b, D), IsTreeOf(t, b, D),
         NEW p, IsPlace(p), NEW leaf \in LeavesAt(t.split, p), NEW cut,
         NEW i, IsPlace(Centre(b[i])), Contains(leaf, Centre(b[i])),
         \A n \in Nodes : n.side = 1 => n \notin t.split \cup cut
  PROVE  Lowered(leaf, cut, i, b) \in LeavesAt(t.split \cup cut, Centre(b[i]))
<1> DEFINE q == Centre(b[i])
           above == {m \in Nodes : Within(leaf, m) /\ m # leaf}
<1>1. leaf \in Nodes
  BY DEF LeavesAt
<1>2. \A n \in Nodes : Contains(n, q) => (n \in t.split <=> n \in above)
  BY AroundTheLeaf
<1>3. \A n \in Nodes : Contains(n, q) => (n \in t.split \cup cut <=> n \in cut \cup above)
  BY <1>2
<1>4. \A n, m \in Nodes : Contains(n, q) /\ Within(n, m) => Contains(m, q)
  BY NodesNest
<1>5. LeavesAt(cut \cup above, q) = LeavesAt(t.split \cup cut, q)
  <2> HIDE DEF above, q
  <2> QED
    BY <1>3, <1>4 DEF LeavesAt
<1>6. LeavesAt(t.split \cup cut, q) # {}
  BY <1>1, OnTheField, LeafExists
<1>7. Lowered(leaf, cut, i, b) = CHOOSE n \in LeavesAt(cut \cup above, q) : TRUE
  BY DEF Lowered
<1> HIDE DEF above, q
<1>8. Lowered(leaf, cut, i, b) \in LeavesAt(t.split \cup cut, q)
  BY <1>5, <1>6, <1>7
<1> QED
  BY <1>8 DEF q

\* A leaf that is full is subdivided.
LEMMA InsertedBySubdividing ==
  ASSUME NEW t, NEW b, NEW D, NEW id \in Ids, id \notin D, Placed(b, D \cup {id}),
         IsTreeOf(t, b, D), NEW leaf \in LeavesAt(t.split, Centre(b[id])),
         ~(Cardinality(Items(t, leaf)) < NbItems)
  PROVE  IsTreeOf(InsertAtFullLeaf(t, id, b, leaf), b, D \cup {id})
<1> DEFINE C == D \cup {id}
           p == Centre(b[id])
           held == Items(t, leaf)
           cut == Subdivided(leaf, held, b, p)
           split == t.split \cup cut
           new == [i \in Ids |-> IF i \in held \cup {id} THEN Lowered(leaf, cut, i, b)
                                                      ELSE t.node[i]]
<1>1. /\ Placed(b, D) /\ IsPlace(p) /\ D \subseteq Ids
      /\ t.map = t.node /\ t.node \in [Ids -> Nodes \cup {Absent}] /\ t.split \subseteq Nodes
      /\ \A i \in C : IsPlace(Centre(b[i]))
  BY MoreAreCrowded DEF Placed, IsTreeOf, Trees
<1>2. InsertAtFullLeaf(t, id, b, leaf) = [split |-> split, node |-> new, map |-> new]
  BY <1>1 DEF InsertAtFullLeaf
<1>3. Crowded(b, C) = split /\ cut \subseteq Nodes /\ \A n \in cut : Within(n, leaf)
  <2> HIDE DEF cut
  <2>1. cut = Subdivided(leaf, Items(t, leaf), b, Centre(b[id]))
    BY DEF cut
  <2> QED
    BY <2>1, SubdividedAreCrowded
<1>4. held = Here(b, D, leaf)
  BY <1>1, ItemsAreHere
<1>5. /\ leaf \in Nodes /\ leaf \notin t.split /\ Contains(leaf, p)
      /\ \A m \in Nodes : Within(leaf, m) /\ leaf # m => m \in t.split
  BY DEF LeavesAt
<1>6. \A n \in Nodes : n.side = 1 => n \notin split
  BY <1>3 DEF Placed
<1> HIDE DEF held, cut, new
<1>7. ASSUME NEW i \in held \cup {id}
      PROVE  /\ i \in C /\ Contains(Root, Centre(b[i]))
             /\ Lowered(leaf, cut, i, b) \in LeavesAt(split, Centre(b[i]))
  <2>1. i \in C /\ Contains(leaf, Centre(b[i]))
    BY <1>4, <1>5 DEF Here
  <2>2. IsPlace(Centre(b[i]))
    BY <1>1, <2>1
  <2>3. Contains(Root, Centre(b[i]))
    BY <1>5, <2>1, <2>2, OnTheField
  <2>4. Lowered(leaf, cut, i, b) \in LeavesAt(split, Centre(b[i]))
    BY <1>1, <1>6, <2>1, <2>2, LoweredToLeaves
  <2> QED
    BY <2>1, <2>3, <2>4
<1>8. ASSUME NEW i \in D, i \notin held, Contains(Root, Centre(b[i]))
      PROVE  t.node[i] \in LeavesAt(split, Centre(b[i]))
  <2> DEFINE n == t.node[i]
  <2>1. n \in LeavesAt(t.split, Centre(b[i]))
    BY <1>1, <1>8 DEF IsTreeOf
  <2>2. /\ n \in Nodes /\ n \notin t.split /\ Contains(n, Centre(b[i]))
        /\ \A m \in Nodes : Within(n, m) /\ n # m => m \in t.split
    BY <2>1 DEF LeavesAt
  <2>3. n # leaf
    BY <1>1, <1>8 DEF held, Items
  <2> HIDE DEF n
  <2>4. n \notin cut
    BY <1>3, <1>5, <2>2, <2>3
  <2>5. n \in LeavesAt(split, Centre(b[i]))
    BY <2>2, <2>4 DEF LeavesAt
  <2> QED
    BY <2>5 DEF n
<1>9. ASSUME NEW i \in Ids
      PROVE  IF i \in C /\ Contains(Root, Centre(b[i]))
             THEN new[i] \in LeavesAt(split, Centre(b[i]))
             ELSE new[i] = Absent
  <2>1. CASE i \in held \cup {id}
    <3>1. new[i] = Lowered(leaf, cut, i, b)
      BY <2>1 DEF new
    <3> QED
      BY <1>7, <2>1, <3>1
  <2>2. CASE i \notin held \cup {id}
    <3>1. new[i] = t.node[i] /\ (i \in C <=> i \in D)
      BY <2>2 DEF new
    <3>2. ~(i \in D /\ Contains(Root, Centre(b[i]))) => t.node[i] = Absent
      BY DEF IsTreeOf
    <3> HIDE DEF C
    <3> QED
      BY <1>8, <2>2, <3>1, <3>2
  <2> QED
    BY <2>1, <2>2
<1>10. new \in [Ids -> Nodes \cup {Absent}]
  <2>1. \A i \in held \cup {id} : Lowered(leaf, cut, i, b) \in Nodes
    BY <1>7 DEF LeavesAt
  <2> QED
    BY <1>1, <2>1 DEF new
<1>11. [split |-> split, node |-> new, map |-> new] \in Trees
  BY <1>1, <1>3, <1>10 DEF Trees
<1> QED
  BY <1>2, <1>3, <1>9, <1>11 DEF IsTreeOf

\* insert() gives the tree with the new ship, on the field or outside.
LEMMA InsertedTree ==
  ASSUME NEW t, NEW b, NEW D, NEW id \in Ids, id \notin D, Placed(b, D \cup {id}),
         IsTreeOf(t, b, D)
  PROVE  IsTreeOf(Insert(t, id, b), b, D \cup {id})
<1> DEFINE leaves == LeavesAt(t.split, Centre(b[id]))
           leaf == CHOOSE n \in leaves : TRUE
<1>1. CASE leaves = {}
  <2>1. Insert(t, id, b) = t
    BY <1>1 DEF Insert
  <2>2. \A n \in Nodes : n.side = 1 => n \notin t.split
    BY MoreAreCrowded DEF Placed, IsTreeOf
  <2>3. ~Contains(Root, Centre(b[id]))
    <3>1. IsPlace(Centre(b[id]))
      BY DEF Placed
    <3> QED
      BY <1>1, <2>2, <3>1, LeafExists
  <2> QED
    BY <2>1, <2>3, OutsideTree
<1>2. CASE leaves # {}
  <2>1. leaf \in leaves
    BY <1>2
  <2>2. CASE Cardinality(Items(t, leaf)) < NbItems
    <3>1. Insert(t, id, b) = [t EXCEPT !.node[id] = leaf, !.map[id] = leaf]
      BY <1>2, <2>2 DEF Insert
    <3> HIDE DEF leaf
    <3>2. IsTreeOf([t EXCEPT !.node[id] = leaf, !.map[id] = leaf], b, D \cup {id})
      BY <2>1, <2>2, InsertedWithRoom
    <3> QED
      BY <3>1, <3>2, Zenon
  <2>3. CASE ~(Cardinality(Items(t, leaf)) < NbItems)
    <3>1. Insert(t, id, b) = InsertAtFullLeaf(t, id, b, leaf)
      BY <1>2, <2>3 DEF Insert
    <3> HIDE DEF leaf
    <3>2. IsTreeOf(InsertAtFullLeaf(t, id, b, leaf), b, D \cup {id})
      BY <2>1, <2>3, InsertedBySubdividing
    <3> QED
      BY <3>1, <3>2
  <2> QED
    BY <2>2, <2>3
<1> QED
  BY <1>1, <1>2
-----------------------------------------------------------------------------
(* The game thread *)

\* Only the places of the ships in the tree count.
LEMMA SamePlaces ==
  ASSUME NEW t, NEW b, NEW c, NEW D, \A i \in D : b[i] = c[i]
  PROVE  /\ Placed(b, D) => Placed(c, D)
         /\ IsTreeOf(t, b, D) => IsTreeOf(t, c, D)
<1>1. \A n : Here(b, D, n) = Here(c, D, n)
  BY DEF Here
<1>2. Crowded(b, D) = Crowded(c, D)
  BY <1>1 DEF Crowded
<1>3. \A i \in D : Centre(b[i]) = Centre(c[i])
  OBVIOUS
<1>4. Placed(b, D) => Placed(c, D)
  BY <1>2, <1>3 DEF Placed
<1>5. IsTreeOf(t, b, D) => IsTreeOf(t, c, D)
  BY <1>2, <1>3 DEF IsTreeOf
<1> QED
  BY <1>4, <1>5

\* The ships that were created have places, and the small squares room.
LEMMA PermittedPlaces ==
  ASSUME NEW b \in [Ids -> [x : Int, y : Int] \cup {Absent}], Permitted(b)
  PROVE  Placed(b, Created(b))
<1>1. Created(b) \subseteq Ids
  BY DEF Created
<1>2. \A i \in Created(b) : IsPlace(Centre(b[i]))
  <2> SUFFICES ASSUME NEW i \in Created(b) PROVE IsPlace(Centre(b[i]))
    OBVIOUS
  <2>1. b[i] \in [x : Int, y : Int]
    BY DEF Created
  <2> QED
    BY <2>1, BoxAssumption DEF IsPlace, Centre
<1>3. ASSUME NEW n \in Nodes, n.side = 1 PROVE n \notin Crowded(b, Created(b))
  <2>1. Cardinality(Here(b, Created(b), n)) <= NbItems
    BY <1>3 DEF Permitted, Here
  <2>2. Cardinality(Here(b, Created(b), n)) \in Nat
    BY <1>1, HereIsFinite
  <2> QED
    BY <2>1, <2>2, ItemsAssumption DEF Crowded
<1> QED
  BY <1>1, <1>2, <1>3 DEF Placed

(***************************************************************************)
(* The inductive invariant: the tree is that of the ships, at the places   *)
(* where their boxes are now.                                              *)
(***************************************************************************)
TreeInv ==
  /\ box \in [Ids -> [x : Int, y : Int] \cup {Absent}]
  /\ status = "running"
  /\ Placed(box, Created(box))
  /\ IsTreeOf(tree, box, Created(box))

\* The empty tree is that of no ships.
LEMMA TreeInit == Init => TreeInv
<1> SUFFICES ASSUME Init PROVE TreeInv
  OBVIOUS
<1>1. Created(box) = {} /\ box \in [Ids -> [x : Int, y : Int] \cup {Absent}]
  BY DEF Init, Created
<1>2. \A n : Cardinality(Here(box, {}, n)) = 0
  <2>1. \A n : Here(box, {}, n) = {}
    BY DEF Here
  <2> QED
    BY <2>1, FS_EmptySet
<1>3. Crowded(box, {}) = {}
  BY <1>2, ItemsAssumption DEF Crowded
<1>4. Placed(box, {})
  BY <1>3 DEF Placed
<1>5. IsTreeOf(tree, box, {})
  <2>1. tree \in Trees
    BY DEF Init, Trees
  <2> QED
    BY <1>3, <2>1 DEF Init, IsTreeOf
<1> QED
  BY <1>1, <1>4, <1>5 DEF TreeInv, Init

\* The new place of a ship, and the tree without it, give the next tree.
LEMMA PlacedAgain ==
  ASSUME NEW b \in [Ids -> [x : Int, y : Int] \cup {Absent}],
         NEW c \in [Ids -> [x : Int, y : Int] \cup {Absent}],
         NEW id \in Ids, NEW t, NEW D, D = Created(b) \ {id},
         c[id] # Absent, \A i \in Ids \ {id} : c[i] = b[i],
         Permitted(c), IsTreeOf(t, b, D)
  PROVE  /\ Placed(c, Created(c))
         /\ IsTreeOf(Insert(t, id, c), c, Created(c))
<1>1. /\ Created(c) = D \cup {id} /\ id \notin D
      /\ \A i \in D : b[i] = c[i]
  BY DEF Created
<1>2. Placed(c, D \cup {id})
  BY <1>1, PermittedPlaces
<1>3. IsTreeOf(t, c, D)
  BY <1>1, SamePlaces
<1>4. IsTreeOf(Insert(t, id, c), c, D \cup {id})
  BY <1>1, <1>2, <1>3, InsertedTree
<1> QED
  BY <1>1, <1>2, <1>4

\* A new ship is inserted at its place.
LEMMA CreatedKeeps ==
  ASSUME TreeInv, NEW id \in Ids, Create(id)
  PROVE  TreeInv'
<1>1. PICK start \in Starts : box' = [box EXCEPT ![id] = start]
  BY DEF Create
<1>2. /\ box \in [Ids -> [x : Int, y : Int] \cup {Absent}]
      /\ start \in [x : Int, y : Int]
  BY BoxAssumption DEF TreeInv
<1>3. /\ box' \in [Ids -> [x : Int, y : Int] \cup {Absent}]
      /\ box'[id] # Absent /\ \A i \in Ids \ {id} : box'[i] = box[i]
  BY <1>1, <1>2, AbsentAssumption
<1>4. Created(box) = Created(box) \ {id} /\ IsTreeOf(tree, box, Created(box))
  BY DEF Create, Created, TreeInv
<1>5. Permitted(box') /\ tree' = Insert(tree, id, box') /\ status' = "running"
  BY DEF Create, TreeInv
<1>6. Placed(box', Created(box')) /\ IsTreeOf(tree', box', Created(box'))
  BY <1>2, <1>3, <1>4, <1>5, PlacedAgain
<1> QED
  BY <1>3, <1>5, <1>6 DEF TreeInv

\* quadMove() takes a ship from its old place and inserts it at the new one.
LEMMA MovedKeeps ==
  ASSUME TreeInv, NEW id \in Ids, box[id] # Absent,
         NEW dx \in Int, NEW dy \in Int, MoveBy(id, dx, dy)
  PROVE  TreeInv'
<1> DEFINE C == Created(box)
           D == C \ {id}
           without == IF tree.map[id] = Absent THEN tree ELSE Remove(tree, id)
<1>1. /\ box \in [Ids -> [x : Int, y : Int] \cup {Absent}] /\ status = "running"
      /\ Placed(box, C) /\ IsTreeOf(tree, box, C) /\ tree.map = tree.node
  BY DEF TreeInv, IsTreeOf
<1>2. C = D \cup {id} /\ id \notin D
  BY DEF Created
<1>3. tree' = Insert(without, id, box') /\ status' = "running" /\ Permitted(box')
  <2>1. Holder(tree, id, box') = tree.node[id]
    BY <1>1 DEF Holder
  <2> QED
    BY <1>1, <2>1 DEF MoveBy, QuadMove
<1>4. IsTreeOf(without, box, D)
  <2> HIDE DEF C, D
  <2>1. CASE tree.map[id] # Absent
    <3>1. without = Remove(tree, id) /\ tree.node[id] # Absent
      BY <1>1, <2>1
    <3>2. IsTreeOf(Remove(tree, id), box, D)
      BY <1>1, <1>2, <3>1, RemovedTree
    <3> QED
      BY <3>1, <3>2
  <2>2. CASE tree.map[id] = Absent
    <3>1. ~Contains(Root, Centre(box[id]))
      <4> SUFFICES ASSUME Contains(Root, Centre(box[id])) PROVE FALSE
        OBVIOUS
      <4>1. tree.node[id] \in LeavesAt(tree.split, Centre(box[id]))
        BY <1>1, <1>2 DEF IsTreeOf
      <4> QED
        BY <1>1, <2>2, <4>1, AbsentAssumption DEF LeavesAt
    <3>2. IsTreeOf(tree, box, D)
      BY <1>1, <1>2, <3>1, OutsideTree
    <3> QED
      BY <2>2, <3>2
  <2> QED
    BY <2>1, <2>2
<1>5. /\ box' \in [Ids -> [x : Int, y : Int] \cup {Absent}]
      /\ box'[id] # Absent /\ \A i \in Ids \ {id} : box'[i] = box[i]
  <2>1. box[id] \in [x : Int, y : Int]
    BY <1>1
  <2> DEFINE new == [x |-> box[id].x + dx, y |-> box[id].y + dy]
  <2>2. new \in [x : Int, y : Int] /\ box' = [box EXCEPT ![id] = new]
    BY <2>1 DEF MoveBy
  <2> HIDE DEF new
  <2> QED
    BY <1>1, <2>2, AbsentAssumption
<1> HIDE DEF without
<1>6. Placed(box', Created(box')) /\ IsTreeOf(tree', box', Created(box'))
  BY <1>1, <1>3, <1>4, <1>5, PlacedAgain
<1> QED
  BY <1>3, <1>5, <1>6 DEF TreeInv

\* Every step keeps the tree that of the ships.
LEMMA TreeNext == TreeInv /\ [Next]_vars => TreeInv'
<1> SUFFICES ASSUME TreeInv, [Next]_vars PROVE TreeInv'
  OBVIOUS
<1>1. ASSUME NEW id \in Ids, Create(id) PROVE TreeInv'
  BY <1>1, CreatedKeeps
<1>2. ASSUME NEW id \in Ids, Move(id) PROVE TreeInv'
  <2>1. PICK d \in Steps : MoveRight(id, d) \/ MoveLeft(id, d) \/ MoveDown(id, d) \/ MoveUp(id, d)
    BY <1>2 DEF Move
  <2>2. d \in Int /\ -d \in Int /\ 0 \in Int /\ box[id] # Absent
    BY <1>2, BoxAssumption DEF Move
  <2>3. \E dx, dy \in Int : MoveBy(id, dx, dy)
    BY <2>1, <2>2 DEF MoveRight, MoveLeft, MoveDown, MoveUp
  <2> QED
    BY <2>2, <2>3, MovedKeeps
<1>3. CASE UNCHANGED vars
  BY <1>3 DEF vars, TreeInv, Created
<1> QED
  BY <1>1, <1>2, <1>3 DEF Next

\* After any creations and moves the tree is that of the ships where they are
\* now: remove() and insert() (QuadTree.hpp:87-179) undo and do the same.
THEOREM TheTreeIsOfTheShips == Spec => []TreeInv
<1> QED
  BY TreeInit, TreeNext, PTL DEF Spec

-----------------------------------------------------------------------------
(* What follows from it *)

\* The boxes and the tree keep their shape: the nodes of the tree are squares
\* of the field (QuadTree.hpp:46-113).
THEOREM TreeTypes == Spec => []TypeOK
<1>1. TreeInv => TypeOK
  BY DEF TreeInv, TypeOK, IsTreeOf
<1> QED
  BY <1>1, TheTreeIsOfTheShips, PTL

\* After any moves the tree is subdivided exactly where more ships are than a
\* leaf holds (QuadTree.hpp:87-113 and 126-179).
THEOREM TheTreeForgetsItsHistory == Spec => []Canonical
<1>1. TreeInv => Canonical
  BY DEF TreeInv, Canonical, IsTreeOf, Crowded, Here
<1> QED
  BY <1>1, TheTreeIsOfTheShips, PTL

\* A ship is in the leaf of its centre, where _itemMap says, or its centre is
\* outside the field and it is nowhere.
THEOREM ShipsAreFound == Spec => []FoundWhereItIs
<1>1. ASSUME TreeInv PROVE FoundWhereItIs
  <2> SUFFICES ASSUME NEW i \in Created(box)
               PROVE  /\ tree.map[i] = tree.node[i]
                      /\ IF Contains(Root, Centre(box[i]))
                         THEN tree.node[i] \in LeavesAt(tree.split, Centre(box[i]))
                         ELSE tree.node[i] = Absent
    BY DEF FoundWhereItIs
  <2>1. i \in Ids
    BY DEF Created
  <2> QED
    BY <1>1, <2>1 DEF TreeInv, IsTreeOf
<1> QED
  BY <1>1, TheTreeIsOfTheShips, PTL

\* remove() finds the ship again, though its box has moved already: it follows
\* no null child (QuadTree.hpp:126-149).
THEOREM NoNullChildIsFollowed == Spec => []NeverCrashes
<1>1. TreeInv => NeverCrashes
  BY DEF TreeInv, NeverCrashes
<1> QED
  BY <1>1, TheTreeIsOfTheShips, PTL
=============================================================================
