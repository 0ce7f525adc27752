--------------------------- MODULE BalancedProofs ---------------------------
(***************************************************************************)
(* Balanced refinement and coarsening are correct for every number of      *)
(* dimensions and every size of the tree: leaves that touch differ by one  *)
(* level at most in every state, in the middle of the recursion and when   *)
(* the tree is full, no node too many is refined, every node that can be   *)
(* coarsened is, and the neighbour search finds the leaves that touch a    *)
(* leaf and no other node.                                                 *)
(*                                                                         *)
(* The argument: in a balanced tree the search is exact (SearchExact), so  *)
(* that a call of balanced_refine knows every coarser leaf that touches    *)
(* its node. It waits for each of them, the calls climb one level at a     *)
(* time, and a node is refined only when no coarser leaf touches it, which *)
(* keeps the balance (RefineKeeps). The balance in turn is what makes the  *)
(* next search exact.                                                      *)
(***************************************************************************)
EXTENDS Balanced, RelationsProofs

-----------------------------------------------------------------------------
(* Nodes that touch. *)

(* A factor can be cancelled. *)
LEMMA Cancel ==
  ASSUME NEW x \in Int, NEW y \in Int, NEW w \in Nat \ {0}, x * w <= y * w
  PROVE  x <= y
OBVIOUS

(* Both sides can be scaled. *)
LEMMA Scale ==
  ASSUME NEW x \in Int, NEW y \in Int, NEW w \in Nat, x <= y
  PROVE  x * w <= y * w
OBVIOUS

(* What Touch says along a dimension, x and y being the coordinates of a    *)
(* and b, v and w how many nodes their levels have.                         *)
Meet(x, v, y, w) == x * w <= (y + 1) * v /\ y * v <= (x + 1) * w

(* Nodes touch if they do along every dimension. *)
LEMMA TouchMeets ==
  ASSUME NEW a \in Path, NEW b \in Path
  PROVE  Touch(a, b) <=> \A d \in Dimension :
           Meet(Coordinate(a, d), 2^Len(a), Coordinate(b, d), 2^Len(b))
BY DEF Touch, Lower, Upper, Meet, node_level

(* Touching is mutual. *)
LEMMA TouchSymmetric ==
  ASSUME NEW a, NEW b
  PROVE  Touch(a, b) <=> Touch(b, a)
BY DEF Touch

(* The children of a level are twice as many. *)
LEMMA Width ==
  ASSUME NEW n \in Path
  PROVE  /\ Len(n) \in Nat /\ 2^Len(n) \in Nat \ {0}
         /\ 2^(Len(n) + 1) = 2 * 2^Len(n)
BY PowerOfTwo DEF Path

(* On one level: next to each other, or the same. *)
LEMMA MeetSame ==
  ASSUME NEW x \in Nat, NEW y \in Nat, NEW w \in Nat \ {0}
  PROVE  Meet(x, w, y, w) <=> x - y \in {-1, 0, 1}
<1>1. Meet(x, w, y, w) => x <= y + 1 /\ y <= x + 1
  BY Cancel DEF Meet
<1>2. x <= y + 1 /\ y <= x + 1 => Meet(x, w, y, w)
  BY Scale DEF Meet
<1>3. x <= y + 1 /\ y <= x + 1 <=> x - y \in {-1, 0, 1}
  OBVIOUS
<1> QED BY <1>1, <1>2, <1>3

(* One level apart: next to the parent, on its side. *)
LEMMA MeetFiner ==
  ASSUME NEW x \in Nat, NEW y \in Nat, NEW v \in Nat \ {0}, NEW w \in Nat \ {0}, v = 2 * w
  PROVE  Meet(x, v, y, w) <=> x <= 2 * y + 2 /\ 2 * y <= x + 1
<1>1. (y + 1) * v = (2 * y + 2) * w /\ y * v = (2 * y) * w
  OBVIOUS
<1>2. Meet(x, v, y, w) => x <= 2 * y + 2 /\ 2 * y <= x + 1
  BY <1>1, Cancel DEF Meet
<1>3. x <= 2 * y + 2 /\ 2 * y <= x + 1 => Meet(x, v, y, w)
  BY <1>1, Scale DEF Meet
<1> QED BY <1>2, <1>3

(* What touches half of an interval touches the interval. *)
LEMMA MeetParent ==
  ASSUME NEW x \in Nat, NEW y \in Nat, NEW v \in Nat \ {0}, NEW w \in Nat \ {0}, NEW b \in {0, 1},
         Meet(2 * x + b, 2 * v, y, w)
  PROVE  Meet(x, v, y, w)
<1>1. (2 * x + b) * w <= (y + 1) * (2 * v) /\ y * (2 * v) <= (2 * x + b + 1) * w
  BY DEF Meet
<1>2. (2 * x) * w <= (2 * x + b) * w /\ (2 * x + b + 1) * w <= (2 * x + 2) * w
  BY Scale
<1>3. /\ (2 * x) * w = 2 * (x * w) /\ (y + 1) * (2 * v) = 2 * ((y + 1) * v)
      /\ y * (2 * v) = 2 * (y * v) /\ (2 * x + 2) * w = 2 * ((x + 1) * w)
  OBVIOUS
<1>4. PICK e \in Nat, f \in Nat, g \in Nat, h \in Nat, i \in Nat, j \in Nat :
        /\ e = x * w /\ f = (y + 1) * v /\ g = y * v /\ h = (x + 1) * w
        /\ i = (2 * x + b) * w /\ j = (2 * x + b + 1) * w
  OBVIOUS
<1>5. i <= 2 * f /\ 2 * g <= j /\ 2 * e <= i /\ j <= 2 * h
  BY <1>1, <1>2, <1>3, <1>4
<1>6. e <= f /\ g <= h
  BY <1>5
<1> QED BY <1>4, <1>6 DEF Meet

(* What touches an interval touches one of its halves. *)
LEMMA MeetChild ==
  ASSUME NEW x \in Nat, NEW y \in Nat, NEW v \in Nat \ {0}, NEW w \in Nat \ {0},
         Meet(x, v, y, w)
  PROVE  \E b \in {0, 1} : Meet(2 * x + b, 2 * v, y, w)
<1>1. x * w <= (y + 1) * v /\ y * v <= (x + 1) * w
  BY DEF Meet
<1>2. PICK e \in Nat, f \in Nat, g \in Nat :
        e = x * w /\ f = (y + 1) * v /\ g = y * v
  OBVIOUS
<1>3. /\ (2 * x) * w = 2 * e /\ (2 * x + 1) * w = 2 * e + w /\ (2 * x + 2) * w = 2 * e + 2 * w
      /\ (y + 1) * (2 * v) = 2 * f /\ y * (2 * v) = 2 * g /\ (x + 1) * w = e + w
  BY <1>2
<1>4. f = g + v
  BY <1>2
<1>5. e <= f /\ g <= e + w
  BY <1>1, <1>2, <1>3
<1>6. CASE 2 * g <= 2 * e + w
  BY <1>3, <1>5, <1>6 DEF Meet
<1>7. CASE 2 * g > 2 * e + w
  <2>1. 2 * e + w <= 2 * f /\ 2 * g <= 2 * e + 2 * w
    BY <1>4, <1>5, <1>7
  <2>2. (2 * x + 1 + 1) * w = 2 * e + 2 * w
    BY <1>3
  <2>3. Meet(2 * x + 1, 2 * v, y, w)
    BY <1>3, <2>1, <2>2 DEF Meet
  <2> QED BY <2>3
<1> QED BY <1>6, <1>7

(* What touches a child touches its parent. *)
LEMMA TouchParent ==
  ASSUME NEW n \in Path, NEW p \in child_pos, NEW a \in Path, Touch(Append(n, p), a)
  PROVE  Touch(n, a)
<1>1. PICK c \in Path : c = Append(n, p) /\ Len(c) = Len(n) + 1
  BY ChildPath
<1>2. ASSUME NEW d \in Dimension
      PROVE  Meet(Coordinate(n, d), 2^Len(n), Coordinate(a, d), 2^Len(a))
  <2>1. PICK x \in Nat, y \in Nat : x = Coordinate(n, d) /\ y = Coordinate(a, d)
    BY CoordinateRange
  <2>2. PICK v \in Nat \ {0}, w \in Nat \ {0} : v = 2^Len(n) /\ w = 2^Len(a) /\ 2^Len(c) = 2 * v
    BY <1>1, Width
  <2>3. PICK b \in {0, 1} : Coordinate(c, d) = 2 * x + b
    BY <1>1, <2>1, CoordinateOfChild, BitOfPosition
  <2>4. Meet(2 * x + b, 2 * v, y, w)
    BY <1>1, <2>1, <2>2, <2>3, TouchMeets
  <2> QED BY <2>1, <2>2, <2>4, MeetParent
<1> QED BY <1>2, TouchMeets

(* What touches a node touches one of its children. *)
LEMMA TouchChild ==
  ASSUME NEW n \in Path, NEW a \in Path, Touch(n, a)
  PROVE  \E p \in child_pos : Touch(Append(n, p), a)
<1> DEFINE Good(d, b) == Meet(2 * Coordinate(n, d) + b, 2 * 2^Len(n), Coordinate(a, d), 2^Len(a))
<1>1. ASSUME NEW d \in Dimension
      PROVE  \E b \in {0, 1} : Good(d, b)
  <2>1. PICK x \in Nat, y \in Nat : x = Coordinate(n, d) /\ y = Coordinate(a, d)
    BY CoordinateRange
  <2>2. PICK v \in Nat \ {0}, w \in Nat \ {0} : v = 2^Len(n) /\ w = 2^Len(a)
    BY Width
  <2>3. Meet(x, v, y, w)
    BY <2>1, <2>2, TouchMeets
  <2> QED BY <2>1, <2>2, <2>3, MeetChild
<1> HIDE DEF Good
<1>2. PICK beta \in [Dimension -> {0, 1}] : \A d \in Dimension : Good(d, beta[d])
  <2>1. PICK f : f = [d \in Dimension |-> CHOOSE b \in {0, 1} : Good(d, b)]
    OBVIOUS
  <2>2. \A d \in Dimension : f[d] \in {0, 1} /\ Good(d, f[d])
    BY <1>1, <2>1
  <2>3. f \in [Dimension -> {0, 1}]
    BY <2>1, <2>2
  <2> QED BY <2>2, <2>3
<1>3. PICK p \in child_pos : \A d \in Dimension : bit(p, d - 1) = beta[d]
  BY PositionOfBits
<1>4. PICK c \in Path : c = Append(n, p) /\ Len(c) = Len(n) + 1
  BY ChildPath
<1>5. 2^Len(c) = 2 * 2^Len(n)
  BY <1>4, Width
<1>6. ASSUME NEW d \in Dimension
      PROVE  Meet(Coordinate(c, d), 2^Len(c), Coordinate(a, d), 2^Len(a))
  <2>1. Coordinate(c, d) = 2 * Coordinate(n, d) + beta[d]
    BY <1>3, <1>4, CoordinateOfChild
  <2> QED BY <1>2, <1>5, <2>1 DEF Good
<1>7. Touch(c, a)
  BY <1>6, TouchMeets
<1> QED BY <1>4, <1>7

(* Nodes of one level touch if they are next to each other. *)
LEMMA TouchSame ==
  ASSUME NEW a \in Path, NEW b \in Path, Len(a) = Len(b)
  PROVE  Touch(a, b) <=> \A d \in Dimension : Coordinate(b, d) - Coordinate(a, d) \in {-1, 0, 1}
<1>1. ASSUME NEW d \in Dimension
      PROVE  Meet(Coordinate(a, d), 2^Len(a), Coordinate(b, d), 2^Len(b))
               <=> Coordinate(b, d) - Coordinate(a, d) \in {-1, 0, 1}
  <2>1. PICK x \in Nat, y \in Nat : x = Coordinate(a, d) /\ y = Coordinate(b, d)
    BY CoordinateRange
  <2>2. PICK w \in Nat \ {0} : w = 2^Len(a) /\ w = 2^Len(b)
    BY Width
  <2>3. Meet(x, w, y, w) <=> x - y \in {-1, 0, 1}
    BY MeetSame
  <2>4. x - y \in {-1, 0, 1} <=> y - x \in {-1, 0, 1}
    OBVIOUS
  <2> QED BY <2>1, <2>2, <2>3, <2>4
<1> QED BY <1>1, TouchMeets

(* Nodes one level apart touch if their cells do. *)
LEMMA TouchFiner ==
  ASSUME NEW a \in Path, NEW b \in Path, Len(a) = Len(b) + 1
  PROVE  Touch(a, b) <=> \A d \in Dimension : /\ Coordinate(a, d) <= 2 * Coordinate(b, d) + 2
                                              /\ 2 * Coordinate(b, d) <= Coordinate(a, d) + 1
<1>1. ASSUME NEW d \in Dimension
      PROVE  Meet(Coordinate(a, d), 2^Len(a), Coordinate(b, d), 2^Len(b)) <=>
                /\ Coordinate(a, d) <= 2 * Coordinate(b, d) + 2
                /\ 2 * Coordinate(b, d) <= Coordinate(a, d) + 1
  <2>1. PICK x \in Nat, y \in Nat : x = Coordinate(a, d) /\ y = Coordinate(b, d)
    BY CoordinateRange
  <2>2. PICK v \in Nat \ {0}, w \in Nat \ {0} : v = 2^Len(a) /\ w = 2^Len(b) /\ v = 2 * w
    BY Width
  <2>3. Meet(x, v, y, w) <=> x <= 2 * y + 2 /\ 2 * y <= x + 1
    BY <2>2, MeetFiner
  <2> QED BY <2>1, <2>2, <2>3
<1> QED BY <1>1, TouchMeets

-----------------------------------------------------------------------------
(* Trees, given by the set of their refined nodes. *)

TreeSet(nodes) ==
  /\ nodes \subseteq Path
  /\ \A r \in nodes : r # <<>> => SubSeq(r, 1, Len(r) - 1) \in nodes
  /\ nodes # {} => <<>> \in nodes

LeavesOf(nodes) ==
  {n \in {Append(r, p) : r \in nodes, p \in child_pos} : n \notin nodes}

(* The balance, in terms of the leaves. *)
LEMMA BalancedLeaves ==
  ASSUME NEW nodes
  PROVE  Balanced(nodes) <=>
           \A a, b \in LeavesOf(nodes) : Len(a) > Len(b) + 1 => ~Touch(a, b)
BY DEF Balanced, LeavesOf, node_level

(* A child without children is a leaf. *)
LEMMA ChildIsLeaf ==
  ASSUME NEW nodes, NEW q \in nodes, NEW p \in child_pos, Append(q, p) \notin nodes
  PROVE  Append(q, p) \in LeavesOf(nodes)
BY DEF LeavesOf

(* A leaf other than a root without children is the child of a node of the *)
(* tree.                                                                   *)
LEMMA LeafHasParent ==
  ASSUME NEW nodes, TreeSet(nodes), NEW n \in LeavesOf(nodes)
  PROVE  /\ n \in Path /\ n \notin nodes /\ n # <<>>
         /\ \E q \in nodes, p \in child_pos :
              q \in Path /\ n = Append(q, p) /\ Len(n) = Len(q) + 1
<1>1. PICK q \in nodes, p \in child_pos : n = Append(q, p) /\ n \notin nodes
  BY DEF LeavesOf
<1>2. q \in Path
  BY DEF TreeSet
<1> QED BY <1>1, <1>2, ChildPath

(* The length of a path is a number. *)
LEMMA LengthOfPath ==
  ASSUME NEW n \in Path
  PROVE  Len(n) \in Nat
BY DEF Path

(* The leaves of a tree, the root being one if it is the only node. *)
LeavesIn(nodes) == (IF nodes = {} THEN {<<>>} ELSE {}) \cup LeavesOf(nodes)

(* A leaf is a path without children; the root is one only of a tree of *)
(* one node.                                                            *)
LEMMA LeafInTree ==
  ASSUME NEW nodes, TreeSet(nodes), NEW n \in LeavesIn(nodes)
  PROVE  /\ n \in Path /\ n \notin nodes /\ Len(n) \in Nat
         /\ n # <<>> => n \in LeavesOf(nodes)
         /\ n = <<>> => nodes = {}
<1>1. CASE nodes = {}
  <2>1. n = <<>>
    BY <1>1 DEF LeavesIn, LeavesOf
  <2> QED BY <1>1, <2>1, LengthOfPath DEF Path
<1>2. CASE nodes # {}
  <2>1. n \in LeavesOf(nodes)
    BY <1>2 DEF LeavesIn
  <2> QED BY <2>1, LeafHasParent, LengthOfPath
<1> QED BY <1>1, <1>2

(* Refining leaves with every coarser leaf that touches them keeps the balance. *)
LEMMA RefineAllKeeps ==
  ASSUME NEW nodes, TreeSet(nodes), Balanced(nodes), NEW more \in SUBSET LeavesIn(nodes),
         \A m \in more, k \in LeavesIn(nodes) :
           Touch(m, k) /\ Len(m) = Len(k) + 1 => k \in more
  PROVE  Balanced(nodes \cup more)
<1>1. \A x \in LeavesIn(nodes) : x \in Path /\ Len(x) \in Nat
  BY LeafInTree
<1>2. \A a, b \in LeavesIn(nodes) : Len(a) > Len(b) + 1 => ~Touch(a, b)
  <2>1. CASE nodes = {}
    <3>1. \A a, b \in LeavesIn(nodes) : a = b
      BY <2>1 DEF LeavesIn, LeavesOf
    <3> QED BY <1>1, <3>1
  <2>2. CASE nodes # {}
    <3>1. LeavesIn(nodes) = LeavesOf(nodes)
      BY <2>2 DEF LeavesIn
    <3> QED BY <3>1, BalancedLeaves
  <2> QED BY <2>1, <2>2
<1>3. ASSUME NEW x \in LeavesOf(nodes \cup more)
      PROVE  \/ x \in LeavesIn(nodes)
             \/ \E m \in more, p \in child_pos : x = Append(m, p)
  BY DEF LeavesIn, LeavesOf
<1>4. ASSUME NEW x \in LeavesOf(nodes \cup more)
      PROVE  x \notin more
  BY DEF LeavesOf
<1>5. ASSUME NEW m \in more, NEW p \in child_pos
      PROVE  /\ m \in LeavesIn(nodes) /\ m \in Path /\ Len(m) \in Nat
             /\ Append(m, p) \in Path /\ Len(Append(m, p)) = Len(m) + 1
             /\ \A a \in Path : Touch(Append(m, p), a) => Touch(m, a) /\ Touch(a, m)
  BY <1>1, ChildPath, TouchParent, TouchSymmetric
<1>6. ASSUME NEW a \in LeavesOf(nodes \cup more), NEW b \in LeavesOf(nodes \cup more),
             Len(a) > Len(b) + 1, Touch(a, b)
      PROVE  FALSE
  <2>1. CASE a \in LeavesIn(nodes)
    <3>1. CASE b \in LeavesIn(nodes)
      BY <1>2, <1>6, <2>1, <3>1
    <3>2. ASSUME NEW m \in more, NEW p \in child_pos, b = Append(m, p)
          PROVE  FALSE
      <4>1. Touch(b, a) /\ a \in Path /\ Len(a) \in Nat
        BY <1>1, <1>6, <2>1, TouchSymmetric
      <4>2. Touch(a, m) /\ Len(b) = Len(m) + 1 /\ Len(m) \in Nat /\ m \in LeavesIn(nodes)
        BY <1>5, <3>2, <4>1
      <4>3. Len(a) > Len(m) + 1
        BY <1>6, <4>1, <4>2
      <4> QED BY <1>2, <2>1, <4>2, <4>3
    <3> QED BY <1>3, <3>1, <3>2
  <2>2. ASSUME NEW m \in more, NEW p \in child_pos, a = Append(m, p)
        PROVE  FALSE
    <3>1. m \in LeavesIn(nodes) /\ m \in Path /\ Len(m) \in Nat /\ Len(a) = Len(m) + 1
      BY <1>5, <2>2
    <3>2. CASE b \in LeavesIn(nodes)
      <4>1. b \in Path /\ Len(b) \in Nat /\ b \notin more
        BY <1>1, <1>4, <3>2
      <4>2. Touch(m, b)
        BY <1>5, <1>6, <2>2, <4>1
      <4>3. ~(Len(m) > Len(b) + 1)
        BY <1>2, <3>1, <3>2, <4>2
      <4>4. Len(m) = Len(b) + 1
        BY <1>6, <3>1, <4>1, <4>3
      <4> QED BY <3>2, <4>1, <4>2, <4>4
    <3>3. ASSUME NEW k \in more, NEW o \in child_pos, b = Append(k, o)
          PROVE  FALSE
      <4>1. /\ k \in LeavesIn(nodes) /\ k \in Path /\ Len(k) \in Nat
            /\ b \in Path /\ Len(b) = Len(k) + 1
        BY <1>5, <3>3
      <4>2. Touch(m, b)
        BY <1>5, <1>6, <2>2, <4>1
      <4>3. Touch(b, m)
        BY <4>2, TouchSymmetric
      <4>4. Touch(m, k)
        BY <1>5, <3>1, <3>3, <4>3
      <4>5. Len(m) > Len(k) + 1
        BY <1>6, <3>1, <4>1
      <4> QED BY <1>2, <3>1, <4>1, <4>4, <4>5
    <3> QED BY <1>3, <3>2, <3>3
  <2> QED BY <1>3, <2>1, <2>2
<1> QED BY <1>6, BalancedLeaves

(* Refining a leaf that no coarser leaf touches keeps the balance. *)
LEMMA RefineKeeps ==
  ASSUME NEW nodes, TreeSet(nodes), Balanced(nodes), NEW t \in LeavesOf(nodes),
         \A b \in LeavesOf(nodes) : Len(b) = Len(t) - 1 => ~Touch(t, b)
  PROVE  Balanced(nodes \cup {t})
<1>1. LeavesIn(nodes) = LeavesOf(nodes)
  BY DEF LeavesIn, LeavesOf
<1>2. ASSUME NEW k \in LeavesIn(nodes), Touch(t, k), Len(t) = Len(k) + 1
      PROVE  FALSE
  <2>1. Len(k) \in Nat
    BY LeafInTree
  <2>2. Len(k) = Len(t) - 1
    BY <1>2, <2>1
  <2> QED BY <1>1, <1>2, <2>2
<1> QED BY <1>1, <1>2, RefineAllKeeps

(* Coarsening a node that no leaf touches from two levels below keeps the *)
(* balance.                                                               *)
LEMMA CoarsenKeeps ==
  ASSUME NEW nodes, TreeSet(nodes), Balanced(nodes), NEW n \in nodes,
         \A p \in child_pos : Append(n, p) \notin nodes,
         \A a \in LeavesOf(nodes) : Len(a) > Len(n) + 1 => ~Touch(a, n)
  PROVE  Balanced(nodes \ {n})
<1>1. n \in Path /\ Len(n) \in Nat
  BY LengthOfPath DEF TreeSet
<1>2. LeavesOf(nodes \ {n}) \subseteq LeavesOf(nodes) \cup {n}
  BY DEF LeavesOf
<1>3. ASSUME NEW a \in LeavesOf(nodes)
      PROVE  a \in Path /\ Len(a) \in Nat
  BY LeafHasParent, LengthOfPath
<1>4. \A a, b \in LeavesOf(nodes) : Len(a) > Len(b) + 1 => ~Touch(a, b)
  BY BalancedLeaves
<1>5. ASSUME NEW a \in LeavesOf(nodes \ {n}), NEW b \in LeavesOf(nodes \ {n}),
             Len(a) > Len(b) + 1, Touch(a, b)
      PROVE  FALSE
  <2>1. CASE a \in LeavesOf(nodes) /\ b \in LeavesOf(nodes)
    BY <1>4, <1>5, <2>1
  <2>2. CASE a = n /\ b \in LeavesOf(nodes)
    <3>1. PICK p \in child_pos : Touch(Append(n, p), b)
      BY <1>1, <1>3, <1>5, <2>2, TouchChild
    <3>2. Append(n, p) \in LeavesOf(nodes)
      BY DEF LeavesOf
    <3>3. Len(Append(n, p)) > Len(b) + 1
      BY <1>1, <1>3, <1>5, <2>2, ChildPath
    <3> QED BY <3>1, <3>2, <3>3, <2>2, <1>4
  <2>3. CASE a \in LeavesOf(nodes) /\ b = n
    BY <1>5, <2>3
  <2>4. CASE a = n /\ b = n
    BY <1>1, <1>5, <2>4
  <2> QED BY <2>1, <2>2, <2>3, <2>4, <1>2
<1> QED BY <1>5, BalancedLeaves

(* A tree with a leaf refined is a tree. *)
LEMMA TreeSetGrows ==
  ASSUME NEW nodes, TreeSet(nodes), NEW t \in LeavesOf(nodes)
  PROVE  TreeSet(nodes \cup {t})
<1>1. PICK q \in nodes, p \in child_pos : q \in Path /\ t = Append(q, p)
  BY LeafHasParent
<1>2. SubSeq(t, 1, Len(t) - 1) = q /\ t \in Path
  BY <1>1, ChildPath
<1> QED BY <1>1, <1>2 DEF TreeSet

(* A tree with a node coarsened is a tree, for no node is refined without *)
(* its parent.                                                            *)
LEMMA TreeSetShrinks ==
  ASSUME NEW nodes, TreeSet(nodes), NEW n \in nodes,
         \A p \in child_pos : Append(n, p) \notin nodes
  PROVE  TreeSet(nodes \ {n})
<1>1. ASSUME NEW r \in nodes, r # <<>>
      PROVE  SubSeq(r, 1, Len(r) - 1) \in nodes \ {n}
  <2>1. r \in Path /\ SubSeq(r, 1, Len(r) - 1) \in nodes
    BY <1>1 DEF TreeSet
  <2>2. PICK q \in Path, p \in child_pos : r = Append(q, p) /\ q = SubSeq(r, 1, Len(r) - 1)
    BY <2>1, <1>1, PathIsChild
  <2> QED BY <2>1, <2>2
<1>2. ASSUME n = <<>>, nodes \ {n} # {}
      PROVE  FALSE
  <2>1. PICK T : T = {Len(r) : r \in nodes \ {n}}
    OBVIOUS
  <2>2. T # {}
    BY <1>2, <2>1
  <2>3. T \in SUBSET Nat
    BY <2>1, LengthOfPath DEF TreeSet
  <2>4. PICK l \in T : \A m \in T : l <= m
    BY <2>2, <2>3, LeastNumber
  <2>5. PICK r \in nodes \ {n} : l = Len(r)
    BY <2>1
  <2>6. r # <<>> /\ r \in Path
    BY <2>5, <1>2 DEF TreeSet
  <2>7. PICK q \in Path, p \in child_pos :
          r = Append(q, p) /\ Len(q) = Len(r) - 1 /\ q = SubSeq(r, 1, Len(r) - 1)
    BY <2>6, PathIsChild
  <2>8. q \in nodes \ {n}
    BY <2>6, <2>7, <1>1
  <2>9. Len(q) \in T
    BY <2>8, <2>1
  <2>10. l <= Len(q) /\ l \in Nat /\ Len(q) = l - 1
    BY <2>3, <2>4, <2>5, <2>7, <2>9
  <2> QED BY <2>10
<1> QED BY <1>1, <1>2 DEF TreeSet

-----------------------------------------------------------------------------
(* The neighbour search. *)

(* A set of numbers with a bound has a greatest one. *)
LEMMA GreatestNumber ==
  ASSUME NEW N \in Nat, NEW T \in SUBSET (0 .. N), T # {}
  PROVE  Max(T) \in T /\ \A m \in T : m <= Max(T)
<1>1. PICK D : D = {N - m : m \in T}
  OBVIOUS
<1>2. D \in SUBSET Nat /\ D # {}
  <2>1. \A m \in T : N - m \in Nat
    OBVIOUS
  <2> QED BY <1>1, <2>1
<1>3. PICK k \in D : \A j \in D : k <= j
  BY <1>2, LeastNumber
<1>4. PICK x \in T : k = N - x
  BY <1>1
<1>5. \A m \in T : x >= m
  <2>1. ASSUME NEW m \in T
        PROVE  x >= m
    <3>1. N - m \in D /\ m \in Nat /\ x \in Nat
      BY <1>1
    <3>2. N - x <= N - m
      BY <3>1, <1>3, <1>4
    <3> QED BY <3>1, <3>2
  <2> QED BY <2>1
<1>6. Max(T) \in T /\ \A m \in T : Max(T) >= m
  BY <1>5 DEF Max
<1>7. T \subseteq Int
  OBVIOUS
<1>8. \A m \in T : m <= Max(T)
  BY <1>6, <1>7
<1> QED BY <1>6, <1>8

(* The beginning of a path is a path. *)
LEMMA SubPath ==
  ASSUME NEW q \in Path, NEW l \in 0 .. Len(q)
  PROVE  SubSeq(q, 1, l) \in Path /\ Len(SubSeq(q, 1, l)) = l
BY DEF Path

(* The whole of a path is the path. *)
LEMMA WholePath ==
  ASSUME NEW q \in Path
  PROVE  SubSeq(q, 1, Len(q)) = q
<1>1. q \in Seq(child_pos) /\ Len(q) \in Nat
  BY DEF Path
<1>2. SubSeq(q, 1, Len(q)) \in Seq(child_pos) /\ Len(SubSeq(q, 1, Len(q))) = Len(q)
  BY <1>1
<1>3. \A k \in 1 .. Len(q) : SubSeq(q, 1, Len(q))[k] = q[k]
  BY <1>1
<1> QED BY <1>1, <1>2, <1>3

(* The search along a path ends at a node of the tree, as deep as it can.   *)
LEMMA SearchEnds ==
  ASSUME NEW q \in Path
  PROVE  \E l \in 0 .. Len(q) :
           /\ node_or_parent_at(q) = SubSeq(q, 1, l)
           /\ Tree!Exists(SubSeq(q, 1, l))
           /\ \A k \in 0 .. Len(q) : Tree!Exists(SubSeq(q, 1, k)) => k <= l
<1>1. PICK N \in Nat : N = Len(q)
  BY DEF Path
<1>2. PICK T \in SUBSET (0 .. N) : T = {l \in 0 .. Len(q) : Tree!Exists(SubSeq(q, 1, l))}
  BY <1>1
<1>3. 0 \in T
  <2>1. SubSeq(q, 1, 0) = <<>>
    BY <1>1, SubPath DEF Path
  <2> QED BY <1>1, <1>2, <2>1 DEF Tree!Exists
<1>4. Max(T) \in T /\ \A m \in T : m <= Max(T)
  BY <1>3, GreatestNumber
<1>5. node_or_parent_at(q) = SubSeq(q, 1, Max(T))
  BY <1>2 DEF node_or_parent_at
<1> QED BY <1>1, <1>2, <1>4, <1>5

(* A node that exists is found. *)
LEMMA FindsWhole ==
  ASSUME NEW q \in Path, Tree!Exists(q)
  PROVE  node_or_parent_at(q) = q
<1>1. PICK l \in 0 .. Len(q) :
        /\ node_or_parent_at(q) = SubSeq(q, 1, l)
        /\ \A k \in 0 .. Len(q) : Tree!Exists(SubSeq(q, 1, k)) => k <= l
  BY SearchEnds
<1>2. PICK N \in Nat : N = Len(q)
  BY DEF Path
<1>3. N <= l
  <2>1. N \in 0 .. Len(q) /\ SubSeq(q, 1, N) = q
    BY <1>2, WholePath
  <2>2. Tree!Exists(SubSeq(q, 1, N))
    BY <2>1
  <2> QED BY <1>1, <2>1, <2>2
<1>4. l = N
  BY <1>2, <1>3
<1> QED BY <1>1, <1>2, <1>4, WholePath

(* For a child that does not exist its parent is found. *)
LEMMA FindsParent ==
  ASSUME NEW b \in Path, NEW p \in child_pos, Tree!Exists(b), b \notin refined
  PROVE  node_or_parent_at(Append(b, p)) = b
<1>1. PICK q \in Path, N \in Nat :
        q = Append(b, p) /\ q # <<>> /\ Len(q) = N + 1 /\ Len(b) = N /\ SubSeq(q, 1, N) = b
  <2>1. PICK q \in Path : q = Append(b, p)
    BY ChildPath
  <2>2. PICK N \in Nat : Len(b) = N /\ Len(q) = N + 1
    BY <2>1, ChildPath
  <2>3. Len(q) - 1 = N
    BY <2>2
  <2>4. q # <<>> /\ SubSeq(q, 1, Len(q) - 1) = b
    BY <2>1, ChildPath
  <2> QED BY <2>1, <2>2, <2>3, <2>4
<1>2. PICK l \in 0 .. Len(q) :
        /\ node_or_parent_at(q) = SubSeq(q, 1, l)
        /\ Tree!Exists(SubSeq(q, 1, l))
        /\ \A k \in 0 .. Len(q) : Tree!Exists(SubSeq(q, 1, k)) => k <= l
  BY SearchEnds
<1>3. N \in 0 .. Len(q) /\ N <= l
  <2>1. N \in 0 .. Len(q)
    BY <1>1
  <2>2. Tree!Exists(SubSeq(q, 1, N))
    BY <1>1
  <2> QED BY <1>2, <2>1, <2>2
<1>4. l # N + 1
  <2>1. Len(q) - 1 = N
    BY <1>1
  <2>2. ~Tree!Exists(q)
    BY <1>1, <2>1 DEF Tree!Exists
  <2>3. SubSeq(q, 1, N + 1) = q
    BY <1>1, WholePath
  <2> QED BY <1>2, <2>2, <2>3
<1>5. l = N
  BY <1>1, <1>3, <1>4
<1> QED BY <1>1, <1>2, <1>5

(* The search looks at every row of the tables. *)
LEMMA SearchUnion ==
  ASSUME NEW n, NEW m
  PROVE  m \in node_neighbors(n) <=>
           \E M \in Manifold : \E i \in neighbor_idx(M) : m \in neighbors_at(n, M, i)
<1>1. ASSUME NEW at \in Neighbor
      PROVE  at[1] \in Manifold /\ at[2] \in neighbor_idx(at[1])
  BY DEF Neighbor
<1>2. ASSUME NEW M \in Manifold, NEW i \in neighbor_idx(M)
      PROVE  <<M, i>> \in Neighbor
  BY DEF Neighbor
<1>3. ASSUME m \in node_neighbors(n)
      PROVE  \E M \in Manifold : \E i \in neighbor_idx(M) : m \in neighbors_at(n, M, i)
  BY <1>1, <1>3 DEF node_neighbors
<1>4. ASSUME NEW M \in Manifold, NEW i \in neighbor_idx(M), m \in neighbors_at(n, M, i)
      PROVE  m \in node_neighbors(n)
  <2>1. PICK at \in Neighbor : at = <<M, i>>
    BY <1>2
  <2>2. m \in neighbors_at(n, at[1], at[2])
    BY <1>4, <2>1
  <2> QED BY <2>2 DEF node_neighbors
<1> QED BY <1>3, <1>4

(* A cell next to a node lies at one of the offsets of the tables. *)
LEMMA OffsetOf ==
  ASSUME NEW n \in Path, NEW q \in Path, Len(q) = Len(n), q # n, Touch(n, q)
  PROVE  \E M \in Manifold : \E i \in neighbor_idx(M) :
           /\ shift_location(n, offset(M, i)) = {q}
           /\ \A d \in Dimension : offset(M, i)[d] = Coordinate(q, d) - Coordinate(n, d)
<1>1. PICK o : o = [d \in Dimension |-> Coordinate(q, d) - Coordinate(n, d)]
  OBVIOUS
<1>2. Sides(o)
  BY <1>1, TouchSame DEF Sides
<1>3. \E d \in Dimension : o[d] # 0
  <2>1. PICK d \in Dimension : Coordinate(n, d) # Coordinate(q, d)
    BY CoordinateInjective
  <2>2. PICK x \in Nat, y \in Nat : x = Coordinate(n, d) /\ y = Coordinate(q, d)
    BY CoordinateRange
  <2>3. y - x # 0
    BY <2>1, <2>2
  <2> QED BY <1>1, <2>2, <2>3
<1>4. PICK M \in Manifold : \E i \in neighbor_idx(M) :
        \A d \in Dimension : offset(M, i)[d] = o[d]
  BY <1>2, <1>3, Tables DEF RowsComplete
<1> PICK i \in neighbor_idx(M) : \A d \in Dimension : offset(M, i)[d] = o[d]
  BY <1>4
<1>5. \A d \in Dimension : Coordinate(n, d) + offset(M, i)[d] = Coordinate(q, d)
  <2>1. ASSUME NEW d \in Dimension
        PROVE  Coordinate(n, d) + offset(M, i)[d] = Coordinate(q, d)
    <3>1. PICK x \in Nat, y \in Nat : x = Coordinate(n, d) /\ y = Coordinate(q, d)
      BY CoordinateRange
    <3>2. offset(M, i)[d] = y - x
      BY <1>1, <1>4, <3>1
    <3> QED BY <3>1, <3>2
  <2> QED BY <2>1
<1>6. PICK by : by = offset(M, i)
  OBVIOUS
<1>7. shift_location(n, by) = {q}
  BY <1>5, <1>6, ShiftFinds
<1> QED BY <1>1, <1>4, <1>6, <1>7

(* What the search returns for an offset. *)
LEMMA AtOffset ==
  ASSUME NEW n, NEW M \in Manifold, NEW i \in neighbor_idx(M), NEW q, NEW b,
         shift_location(n, offset(M, i)) = {q}, node_or_parent_at(q) = b
  PROVE  /\ b \notin refined => b \in node_neighbors(n)
         /\ b \in refined => \A p \in children_sharing_face(M, i) : Append(b, p) \in node_neighbors(n)
<1>1. b \in {node_or_parent_at(path) : path \in shift_location(n, offset(M, i))}
  BY Zenon
<1>2. b \notin refined => b \in neighbors_at(n, M, i)
  BY <1>1 DEF neighbors_at, is_leaf
<1>3. ASSUME b \in refined, NEW p \in children_sharing_face(M, i)
      PROVE  Append(b, p) \in neighbors_at(n, M, i)
  BY <1>1, <1>3 DEF neighbors_at, is_leaf
<1> QED BY <1>2, <1>3, SearchUnion

(* It finds a leaf next to a node on its level, *)
LEMMA FindsSame ==
  ASSUME NEW n \in Path, NEW b \in Path, Len(b) = Len(n), b # n, Touch(n, b),
         Tree!Exists(b), b \notin refined
  PROVE  b \in node_neighbors(n)
<1>1. PICK M \in Manifold : \E i \in neighbor_idx(M) : shift_location(n, offset(M, i)) = {b}
  BY OffsetOf
<1> PICK i \in neighbor_idx(M) : shift_location(n, offset(M, i)) = {b}
  BY <1>1
<1>2. node_or_parent_at(b) = b
  BY FindsWhole
<1> QED BY <1>2, AtOffset

(* one from the level above, *)
LEMMA FindsCoarser ==
  ASSUME NEW r \in Path, r \in refined, NEW o \in child_pos, NEW n, n = Append(r, o),
         NEW b \in Path, Len(b) + 1 = Len(n), Touch(n, b), Tree!Exists(b), b \notin refined
  PROVE  b \in node_neighbors(n)
<1>1. n \in Path
  BY ChildPath
<1> DEFINE Near(d, a) == (2 * Coordinate(b, d) + a) - Coordinate(n, d) \in {-1, 0, 1}
<1>2. ASSUME NEW d \in Dimension
      PROVE  \E a \in {0, 1} : Near(d, a)
  <2>1. PICK x \in Nat, y \in Nat : x = Coordinate(n, d) /\ y = Coordinate(b, d)
    BY <1>1, CoordinateRange
  <2>2. x <= 2 * y + 2 /\ 2 * y <= x + 1
    BY <1>1, <2>1, TouchFiner
  <2>3. (2 * y + 0) - x \in {-1, 0, 1} \/ (2 * y + 1) - x \in {-1, 0, 1}
    BY <2>2
  <2> QED BY <2>1, <2>3
<1> HIDE DEF Near
<1>3. PICK alpha \in [Dimension -> {0, 1}] : \A d \in Dimension : Near(d, alpha[d])
  <2>1. PICK f : f = [d \in Dimension |-> CHOOSE a \in {0, 1} : Near(d, a)]
    OBVIOUS
  <2>2. \A d \in Dimension : f[d] \in {0, 1} /\ Near(d, f[d])
    BY <1>2, <2>1
  <2>3. f \in [Dimension -> {0, 1}]
    BY <2>1, <2>2
  <2> QED BY <2>2, <2>3
<1>4. PICK p \in child_pos : \A d \in Dimension : bit(p, d - 1) = alpha[d]
  BY PositionOfBits
<1>5. PICK q \in Path : q = Append(b, p) /\ Len(q) = Len(n)
  <2>1. PICK q \in Path : q = Append(b, p) /\ Len(q) = Len(b) + 1
    BY ChildPath
  <2> QED BY <2>1
<1>6. Touch(n, q)
  <2>1. ASSUME NEW d \in Dimension
        PROVE  Coordinate(q, d) - Coordinate(n, d) \in {-1, 0, 1}
    <3>1. Coordinate(q, d) = 2 * Coordinate(b, d) + alpha[d]
      BY <1>4, <1>5, CoordinateOfChild
    <3>2. (2 * Coordinate(b, d) + alpha[d]) - Coordinate(n, d) \in {-1, 0, 1}
      BY <1>3 DEF Near
    <3>3. Coordinate(q, d) - Coordinate(n, d) = (2 * Coordinate(b, d) + alpha[d]) - Coordinate(n, d)
      BY <3>1, Zenon
    <3> QED BY <3>2, <3>3
  <2> QED BY <2>1, <1>1, <1>5, TouchSame
<1>7. q # n
  <2>1. r # b
    OBVIOUS
  <2>2. \A c \in Path, e \in child_pos : Append(b, p) = Append(c, e) => b = c
    BY ChildPath
  <2>3. Append(b, p) # Append(r, o)
    BY <2>1, <2>2
  <2> QED BY <2>3, <1>5
<1>8. PICK M \in Manifold : \E i \in neighbor_idx(M) : shift_location(n, offset(M, i)) = {q}
  <2>1. PICK c \in Path : c = n
    BY <1>1
  <2>2. Len(q) = Len(c) /\ q # c /\ Touch(c, q)
    BY <2>1, <1>5, <1>6, <1>7
  <2>3. \E M \in Manifold : \E i \in neighbor_idx(M) : shift_location(c, offset(M, i)) = {q}
    BY <2>2, OffsetOf
  <2> QED BY <2>1, <2>3
<1> PICK i \in neighbor_idx(M) : shift_location(n, offset(M, i)) = {q}
  BY <1>8
<1>9. node_or_parent_at(q) = b
  BY <1>5, FindsParent
<1> QED BY <1>9, AtOffset

(* and one from the level below. *)
LEMMA FindsFiner ==
  ASSUME NEW n \in Path, n \notin refined, NEW m \in Path, m \in refined, Tree!Exists(m),
         Len(m) = Len(n), NEW p \in child_pos, Touch(n, Append(m, p))
  PROVE  Append(m, p) \in node_neighbors(n)
<1>1. PICK a \in Path : a = Append(m, p) /\ Len(a) = Len(m) + 1
  BY ChildPath
<1>2. Touch(a, n)
  BY <1>1, TouchSymmetric
<1>3. Touch(n, m)
  BY <1>1, <1>2, TouchParent, TouchSymmetric
<1>4. m # n
  OBVIOUS
<1>5. PICK M \in Manifold : \E i \in neighbor_idx(M) :
        /\ shift_location(n, offset(M, i)) = {m}
        /\ \A d \in Dimension : offset(M, i)[d] = Coordinate(m, d) - Coordinate(n, d)
  BY <1>3, <1>4, OffsetOf
<1> PICK i \in neighbor_idx(M) :
        /\ shift_location(n, offset(M, i)) = {m}
        /\ \A d \in Dimension : offset(M, i)[d] = Coordinate(m, d) - Coordinate(n, d)
  BY <1>5
<1>6. ASSUME NEW d \in Dimension
      PROVE  /\ offset(M, i)[d] = 1 => bit(p, d - 1) = 0
             /\ offset(M, i)[d] = -1 => bit(p, d - 1) = 1
  <2>1. PICK x \in Nat, y \in Nat : x = Coordinate(m, d) /\ y = Coordinate(n, d)
    BY CoordinateRange
  <2>2. PICK b \in {0, 1} : b = bit(p, d - 1)
    BY BitOfPosition
  <2>3. Coordinate(a, d) = 2 * x + b
    BY <1>1, <2>1, <2>2, CoordinateOfChild
  <2>4. 2 * x + b <= 2 * y + 2 /\ 2 * y <= 2 * x + b + 1
    BY <1>1, <1>2, <2>1, <2>3, TouchFiner
  <2>5. offset(M, i)[d] = x - y
    BY <2>1
  <2> QED BY <2>2, <2>4, <2>5
<1>7. p \in children_sharing_face(M, i)
  BY <1>6, Tables DEF RowsRight, RowRight
<1>8. node_or_parent_at(m) = m
  BY FindsWhole
<1> QED BY <1>7, <1>8, AtOffset

-----------------------------------------------------------------------------
(* The search is exact. *)

(* A finite set of nodes has a deepest one. *)
LEMMA LongestPath ==
  ASSUME NEW S \in SUBSET Path, IsFiniteSet(S), S # {}
  PROVE  \E r \in S : \A s \in S : Len(s) <= Len(r)
<1> DEFINE Longest(U) == \E r \in U : \A s \in U : Len(s) <= Len(r)
           T == {k \in Nat : \A U \in SUBSET Path :
                   IsFiniteSet(U) /\ Cardinality(U) = k + 1 => Longest(U)}
<1>1. 0 \in T
  <2>1. ASSUME NEW U \in SUBSET Path, IsFiniteSet(U), Cardinality(U) = 0 + 1
        PROVE  Longest(U)
    <3>1. PICK x : U = {x}
      <4>1. Cardinality(U) = 1
        BY <2>1
      <4> QED BY <2>1, <4>1, FS_Singleton
    <3>2. x \in Path /\ Len(x) \in Nat
      BY <3>1, LengthOfPath
    <3> QED BY <3>1, <3>2
  <2> HIDE DEF Longest
  <2> QED BY <2>1
<1>2. ASSUME NEW k \in Nat, k \in T
      PROVE  k + 1 \in T
  <2>1. ASSUME NEW U \in SUBSET Path, IsFiniteSet(U), Cardinality(U) = (k + 1) + 1
        PROVE  Longest(U)
    <3>1. U # {}
      BY <2>1, FS_EmptySet
    <3>2. PICK x : x \in U
      BY <3>1
    <3>3. PICK V \in SUBSET Path : V = U \ {x} /\ IsFiniteSet(V) /\ Cardinality(V) = k + 1
      <4>1. U \ {x} \in SUBSET Path
        OBVIOUS
      <4>2. IsFiniteSet(U \ {x}) /\ Cardinality(U \ {x}) = Cardinality(U) - 1
        BY <2>1, <3>2, FS_RemoveElement
      <4>3. Cardinality(U) - 1 = k + 1
        BY <2>1
      <4> QED BY <4>1, <4>2, <4>3
    <3>4. PICK r \in V : \A s \in V : Len(s) <= Len(r)
      BY <3>3, <1>2
    <3>5. Len(x) \in Nat /\ \A s \in V : Len(s) \in Nat
      BY <3>2, <3>3, LengthOfPath
    <3>6. CASE Len(x) <= Len(r)
      BY <3>2, <3>3, <3>4, <3>6
    <3>7. CASE Len(x) > Len(r)
      <4>1. \A s \in U : Len(s) <= Len(x)
        BY <3>2, <3>3, <3>4, <3>5, <3>7
      <4> QED BY <3>2, <4>1
    <3> QED BY <3>3, <3>5, <3>6, <3>7
  <2> HIDE DEF Longest
  <2> QED BY <2>1
<1> HIDE DEF T
<1>3. PICK k \in Nat : Cardinality(S) = k + 1
  <2>1. Cardinality(S) \in Nat /\ Cardinality(S) # 0
    BY FS_CardinalityType, FS_EmptySet
  <2>2. Cardinality(S) - 1 \in Nat /\ Cardinality(S) = Cardinality(S) - 1 + 1
    BY <2>1
  <2> QED BY <2>2
<1>4. k \in T
  BY <1>1, <1>2, Induction
<1> QED BY <1>3, <1>4 DEF T

(* Where a refined node touches, a leaf below it does. *)
LEMMA DeepLeaf ==
  ASSUME NEW nodes \in SUBSET Path, IsFiniteSet(nodes), NEW a \in Path,
         NEW r \in nodes, Touch(r, a)
  PROVE  \E b \in LeavesOf(nodes) : Touch(b, a) /\ Len(b) > Len(r)
<1>1. PICK S : S = {s \in nodes : Touch(s, a)}
  OBVIOUS
<1>2. S \in SUBSET nodes /\ S \in SUBSET Path /\ r \in S
  BY <1>1
<1>3. IsFiniteSet(S)
  BY <1>2, FS_Subset
<1>4. PICK s \in S : \A u \in S : Len(u) <= Len(s)
  BY <1>2, <1>3, LongestPath
<1>5. PICK p \in child_pos : Touch(Append(s, p), a)
  BY <1>1, <1>2, <1>4, TouchChild
<1>6. PICK c \in Path : c = Append(s, p) /\ Len(c) = Len(s) + 1
  BY <1>2, <1>4, ChildPath
<1>7. Len(s) \in Nat /\ Len(r) \in Nat /\ Len(r) <= Len(s)
  BY <1>2, <1>4, LengthOfPath
<1>8. c \notin nodes
  <2>1. SUFFICES ASSUME c \in nodes PROVE FALSE
    OBVIOUS
  <2>2. c \in S
    BY <1>1, <1>5, <1>6, <2>1
  <2>3. Len(c) <= Len(s)
    BY <1>4, <2>2
  <2>4. Len(c) = Len(s) + 1 /\ Len(s) \in Nat
    BY <1>6, <1>7
  <2> QED BY <2>3, <2>4
<1>9. c \in LeavesOf(nodes)
  BY <1>1, <1>6, <1>8 DEF LeavesOf
<1>10. Touch(c, a) /\ Len(c) > Len(r)
  BY <1>5, <1>6, <1>7
<1> QED BY <1>9, <1>10

(* The nodes of a tree exist. *)
LEMMA NodeExists ==
  ASSUME TreeSet(refined), NEW m \in refined \cup LeavesOf(refined)
  PROVE  m \in Path /\ Tree!Exists(m)
<1>1. CASE m \in refined
  BY <1>1 DEF TreeSet, Tree!Exists
<1>2. CASE m \in LeavesOf(refined)
  <2>1. PICK q \in refined, p \in child_pos : q \in Path /\ m = Append(q, p)
    BY <1>2, LeafHasParent
  <2> QED BY <2>1, ChildPath DEF Tree!Exists
<1> QED BY <1>1, <1>2

(* In a balanced tree the search finds every leaf that touches a leaf. *)
LEMMA Complete ==
  ASSUME TreeSet(refined), Balanced(refined),
         NEW n \in LeavesOf(refined), NEW b \in LeavesOf(refined), n # b, Touch(n, b)
  PROVE  b \in node_neighbors(n)
<1>1. PICK r \in refined, o \in child_pos : r \in Path /\ n = Append(r, o) /\ Len(n) = Len(r) + 1
  BY LeafHasParent
<1>2. PICK m \in refined, p \in child_pos : m \in Path /\ b = Append(m, p) /\ Len(b) = Len(m) + 1
  BY LeafHasParent
<1>3. n \in Path /\ n \notin refined /\ b \in Path /\ b \notin refined
  BY LeafHasParent
<1>4. Len(n) \in Nat /\ Len(b) \in Nat /\ Len(m) \in Nat
  BY <1>2, <1>3, LengthOfPath
<1>5. ~(Len(n) > Len(b) + 1) /\ ~(Len(b) > Len(n) + 1)
  BY TouchSymmetric, BalancedLeaves
<1>6. Tree!Exists(b) /\ Tree!Exists(m)
  BY NodeExists
<1>7. CASE Len(b) = Len(n)
  BY <1>3, <1>6, <1>7, FindsSame
<1>8. CASE Len(b) + 1 = Len(n)
  BY <1>1, <1>3, <1>6, <1>8, FindsCoarser
<1>9. CASE Len(b) = Len(n) + 1
  <2>1. Len(m) = Len(n)
    BY <1>2, <1>4, <1>9
  <2>2. Touch(n, Append(m, p))
    BY <1>2
  <2> QED BY <1>2, <1>3, <1>6, <2>1, <2>2, FindsFiner
<1>10. Len(b) = Len(n) \/ Len(b) + 1 = Len(n) \/ Len(b) = Len(n) + 1
  BY <1>4, <1>5
<1> QED BY <1>7, <1>8, <1>9, <1>10

(* What touches a node touches every node above it. *)
LEMMA TouchPrefix ==
  ASSUME NEW q \in Path, NEW l \in 0 .. Len(q), NEW a \in Path, Touch(q, a)
  PROVE  Touch(SubSeq(q, 1, l), a)
<1> DEFINE S == {k \in Nat : k <= Len(q) => Touch(SubSeq(q, 1, Len(q) - k), a)}
<1>1. PICK N \in Nat : N = Len(q)
  BY LengthOfPath
<1>2. 0 \in S
  <2>1. N - 0 = N /\ SubSeq(q, 1, N) = q
    BY <1>1, WholePath
  <2> QED BY <1>1, <2>1
<1>3. ASSUME NEW k \in Nat, k \in S
      PROVE  k + 1 \in S
  <2> SUFFICES ASSUME k + 1 <= N
               PROVE  Touch(SubSeq(q, 1, N - (k + 1)), a)
    BY <1>1
  <2>1. PICK j \in Nat : j = N - (k + 1) /\ j + 1 = N - k /\ j + 1 <= N
    OBVIOUS
  <2>2. Touch(SubSeq(q, 1, j + 1), a)
    BY <1>1, <1>3, <2>1
  <2>3. PICK c \in Path : c = SubSeq(q, 1, j + 1) /\ Len(c) = j + 1
    <3>1. j + 1 \in 0 .. Len(q)
      BY <1>1, <2>1
    <3> QED BY <3>1, SubPath
  <2>4. c # <<>>
    <3>1. Len(c) # 0
      BY <2>3
    <3> QED BY <3>1
  <2>5. PICK r \in Path, p \in child_pos : c = Append(r, p) /\ r = SubSeq(c, 1, Len(c) - 1)
    BY <2>4, PathIsChild
  <2>6. Touch(r, a)
    BY <2>2, <2>3, <2>5, TouchParent
  <2>7. SubSeq(c, 1, j) = SubSeq(q, 1, j)
    BY <1>1, <2>1, <2>3 DEF Path
  <2>8. Len(c) - 1 = j
    BY <2>3
  <2> QED BY <2>1, <2>5, <2>6, <2>7, <2>8
<1>4. PICK k \in Nat : k = N - l /\ N - k = l
  <2>1. l \in Nat /\ l <= N
    BY <1>1
  <2>2. N - l \in Nat /\ N - (N - l) = l
    BY <2>1
  <2> QED BY <2>2
<1>5. k \in S
  <2> HIDE DEF S
  <2> QED BY <1>2, <1>3, Induction
<1> QED BY <1>1, <1>4, <1>5

(* A row of the tables leads to a cell that touches the node, and to its *)
(* children on the side of the node.                                     *)
LEMMA OffsetSound ==
  ASSUME NEW n \in Path, NEW M \in Manifold, NEW i \in neighbor_idx(M),
         NEW q \in shift_location(n, offset(M, i))
  PROVE  /\ q \in Path /\ Len(q) = Len(n) /\ q # n /\ Touch(n, q)
         /\ \A d \in Dimension : /\ offset(M, i)[d] \in {-1, 0, 1}
                                 /\ Coordinate(q, d) = Coordinate(n, d) + offset(M, i)[d]
         /\ \A p \in children_sharing_face(M, i) : p \in child_pos /\ \A d \in Dimension :
               /\ offset(M, i)[d] = 1 => bit(p, d - 1) = 0
               /\ offset(M, i)[d] = -1 => bit(p, d - 1) = 1
<1>1. PICK o : o = offset(M, i)
  OBVIOUS
<1>2. /\ \A d \in Dimension : o[d] \in {-1, 0, 1}
      /\ \E d \in Dimension : o[d] # 0
      /\ children_sharing_face(M, i) =
           {p \in child_pos : \A d \in Dimension :
              /\ o[d] = 1 => bit(p, d - 1) = 0
              /\ o[d] = -1 => bit(p, d - 1) = 1}
  BY <1>1, Tables DEF RowsRight, RowRight, Sides
<1>3. \A d \in Dimension : o[d] \in Int
  BY <1>2
<1>4. /\ q \in Path /\ Len(q) = Len(n)
      /\ \A d \in Dimension : Coordinate(q, d) = Coordinate(n, d) + o[d]
  BY <1>1, <1>3, ShiftSound
<1>5. q # n
  <2>1. PICK d \in Dimension : o[d] # 0
    BY <1>2
  <2>2. Coordinate(n, d) \in Nat /\ o[d] \in Int
    BY <1>3, CoordinateRange
  <2> QED BY <1>4, <2>1, <2>2
<1>6. \A d \in Dimension : Coordinate(q, d) - Coordinate(n, d) \in {-1, 0, 1}
  <2>1. ASSUME NEW d \in Dimension
        PROVE  Coordinate(q, d) - Coordinate(n, d) \in {-1, 0, 1}
    <3>1. PICK x \in Nat, y \in {-1, 0, 1} : x = Coordinate(n, d) /\ y = o[d]
      BY <1>2, CoordinateRange
    <3>2. Coordinate(q, d) = x + y
      BY <1>4, <3>1
    <3>3. (x + y) - x = y
      OBVIOUS
    <3> QED BY <3>1, <3>2, <3>3
  <2> QED BY <2>1
<1>7. Touch(n, q)
  BY <1>4, <1>6, TouchSame
<1> QED BY <1>1, <1>2, <1>4, <1>5, <1>7

(* m is what the search adds for the shifted cell q. *)
FoundBy(m, q, M, i) ==
  \/ m = node_or_parent_at(q) /\ m \notin refined
  \/ /\ node_or_parent_at(q) \in refined
     /\ \E p \in children_sharing_face(M, i) : m = Append(node_or_parent_at(q), p)

(* All that the search returns comes from such a cell. *)
LEMMA SearchOrigin ==
  ASSUME NEW n, NEW M \in Manifold, NEW i \in neighbor_idx(M), NEW m \in neighbors_at(n, M, i)
  PROVE  \E q \in shift_location(n, offset(M, i)) : FoundBy(m, q, M, i)
BY DEF neighbors_at, is_leaf, FoundBy

(* The root has no neighbours. *)
LEMMA RootHasNone ==
  node_neighbors(<<>>) = {}
<1> SUFFICES ASSUME NEW m \in node_neighbors(<<>>) PROVE FALSE
  OBVIOUS
<1>1. PICK M \in Manifold : \E i \in neighbor_idx(M) : m \in neighbors_at(<<>>, M, i)
  BY SearchUnion
<1> PICK i \in neighbor_idx(M) : m \in neighbors_at(<<>>, M, i)
  BY <1>1
<1>2. PICK q : q \in shift_location(<<>>, offset(M, i))
  BY SearchOrigin
<1>3. <<>> \in Path
  BY DEF Path
<1>4. q \in Path /\ Len(q) = Len(<<>>) /\ q # <<>>
  BY <1>2, <1>3, OffsetSound
<1> QED BY <1>4 DEF Path

(* A node with children that is found is the cell itself. *)
LEMMA FoundRefined ==
  ASSUME NEW q \in Path, node_or_parent_at(q) \in refined
  PROVE  node_or_parent_at(q) = q
<1>1. PICK l \in 0 .. Len(q) :
        /\ node_or_parent_at(q) = SubSeq(q, 1, l)
        /\ \A k \in 0 .. Len(q) : Tree!Exists(SubSeq(q, 1, k)) => k <= l
  BY SearchEnds
<1>2. PICK b \in Path : b = SubSeq(q, 1, l) /\ Len(b) = l /\ b \in refined
  BY <1>1, SubPath
<1>3. PICK N \in Nat : N = Len(q) /\ l \in 0 .. N
  BY LengthOfPath
<1>4. CASE l < N
  <2>1. l + 1 \in 0 .. N
    BY <1>3, <1>4
  <2>2. PICK c \in Path : c = SubSeq(q, 1, l + 1) /\ Len(c) = l + 1
    BY <1>3, <2>1, SubPath
  <2>3. SubSeq(c, 1, l) = b
    BY <1>2, <1>3, <2>1, <2>2 DEF Path
  <2>4. Len(c) - 1 = l
    BY <1>3, <2>2
  <2>5. Tree!Exists(c)
    BY <1>2, <2>3, <2>4 DEF Tree!Exists
  <2>6. l + 1 <= l
    BY <1>1, <1>3, <2>1, <2>2, <2>5
  <2> QED BY <1>3, <2>6
<1> QED BY <1>1, <1>3, <1>4, WholePath

(* What is found for a cell next to a node touches the node. *)
LEMMA FoundTouches ==
  ASSUME NEW n \in Path, NEW M \in Manifold, NEW i \in neighbor_idx(M),
         NEW q \in shift_location(n, offset(M, i)), NEW b, b = node_or_parent_at(q)
  PROVE  b \in Path /\ Len(b) <= Len(n) /\ b # n /\ Touch(n, b)
<1>1. q \in Path /\ Len(q) = Len(n) /\ q # n /\ Touch(n, q) /\ Len(q) \in Nat
  BY OffsetSound, LengthOfPath
<1>2. PICK l \in 0 .. Len(q) : b = SubSeq(q, 1, l)
  BY <1>1, SearchEnds
<1>3. b \in Path /\ Len(b) = l
  BY <1>1, <1>2, SubPath
<1>4. Touch(n, b)
  BY <1>1, <1>2, TouchPrefix, TouchSymmetric
<1>5. b # n
  <2>1. SUFFICES ASSUME b = n PROVE FALSE
    OBVIOUS
  <2>2. l = Len(q)
    BY <1>1, <1>3, <2>1
  <2> QED BY <1>1, <1>2, <2>1, <2>2, WholePath
<1> QED BY <1>1, <1>3, <1>4, <1>5

(* So do the children of such a cell on the side of the node. *)
LEMMA SideTouches ==
  ASSUME NEW n \in Path, NEW M \in Manifold, NEW i \in neighbor_idx(M),
         NEW q \in shift_location(n, offset(M, i)), NEW p \in children_sharing_face(M, i)
  PROVE  /\ p \in child_pos /\ Append(q, p) \in Path
         /\ Len(Append(q, p)) = Len(n) + 1 /\ Touch(Append(q, p), n)
<1> PICK m : m = Append(q, p)
  OBVIOUS
<1>1. /\ q \in Path /\ Len(q) = Len(n) /\ p \in child_pos
      /\ \A d \in Dimension :
           /\ offset(M, i)[d] \in {-1, 0, 1}
           /\ Coordinate(q, d) = Coordinate(n, d) + offset(M, i)[d]
           /\ offset(M, i)[d] = 1 => bit(p, d - 1) = 0
           /\ offset(M, i)[d] = -1 => bit(p, d - 1) = 1
  BY OffsetSound
<1>2. m \in Path /\ Len(m) = Len(n) + 1
  BY <1>1, ChildPath
<1>3. ASSUME NEW d \in Dimension
      PROVE  /\ Coordinate(m, d) <= 2 * Coordinate(n, d) + 2
             /\ 2 * Coordinate(n, d) <= Coordinate(m, d) + 1
  <2>1. PICK x \in Nat, o \in {-1, 0, 1} : x = Coordinate(n, d) /\ o = offset(M, i)[d]
    BY <1>1, CoordinateRange
  <2>2. PICK a \in {0, 1} : a = bit(p, d - 1) /\ (o = 1 => a = 0) /\ (o = -1 => a = 1)
    BY <1>1, <2>1, BitOfPosition
  <2>3. Coordinate(m, d) = 2 * (x + o) + a
    BY <1>1, <2>1, <2>2, CoordinateOfChild
  <2>4. 2 * (x + o) + a <= 2 * x + 2 /\ 2 * x <= (2 * (x + o) + a) + 1
    BY <2>2
  <2> QED BY <2>1, <2>3, <2>4
<1> QED BY <1>1, <1>2, <1>3, TouchFiner

(* In a balanced tree all that the search finds are leaves that touch the *)
(* node.                                                                  *)
LEMMA Sound ==
  ASSUME TreeSet(refined), Balanced(refined), IsFiniteSet(refined),
         NEW n \in LeavesOf(refined), NEW m \in node_neighbors(n)
  PROVE  m \in LeavesOf(refined) /\ m # n /\ Touch(n, m)
<1>1. n \in Path /\ n \notin refined /\ Len(n) \in Nat
  BY LeafHasParent, LengthOfPath
<1>2. <<>> \in refined
  BY LeafHasParent DEF TreeSet
<1>3. PICK M \in Manifold : \E i \in neighbor_idx(M) : m \in neighbors_at(n, M, i)
  BY SearchUnion
<1> PICK i \in neighbor_idx(M) : m \in neighbors_at(n, M, i)
  BY <1>3
<1>4. PICK q \in shift_location(n, offset(M, i)) : FoundBy(m, q, M, i)
  BY <1>3, SearchOrigin
<1>5. q \in Path
  BY <1>1, OffsetSound
<1>6. PICK b \in Path : b = node_or_parent_at(q) /\ b # n /\ Touch(n, b) /\ Tree!Exists(b)
  BY <1>1, <1>5, FoundTouches, SearchEnds
<1>7. CASE m = b /\ b \notin refined
  <2>1. b # <<>>
    BY <1>2, <1>7
  <2>2. PICK r \in Path, p \in child_pos : b = Append(r, p) /\ r = SubSeq(b, 1, Len(b) - 1)
    BY <2>1, PathIsChild
  <2>3. r \in refined
    BY <1>6, <2>1, <2>2 DEF Tree!Exists
  <2>4. b \in LeavesOf(refined)
    BY <1>7, <2>2, <2>3, ChildIsLeaf
  <2> QED BY <1>6, <1>7, <2>4
<1>8. ASSUME b \in refined, NEW p \in children_sharing_face(M, i), m = Append(b, p)
      PROVE  m \in LeavesOf(refined) /\ m # n /\ Touch(n, m)
  <2>1. b = q
    BY <1>5, <1>6, <1>8, FoundRefined
  <2>2. p \in child_pos /\ m \in Path /\ Len(m) = Len(n) + 1 /\ Touch(m, n)
    <3>1. m = Append(q, p) /\ q \in shift_location(n, offset(M, i))
      BY <1>4, <1>8, <2>1
    <3>2. /\ p \in child_pos /\ Append(q, p) \in Path
          /\ Len(Append(q, p)) = Len(n) + 1 /\ Touch(Append(q, p), n)
      BY <1>1, <1>3, <1>8, <3>1, SideTouches
    <3> QED BY <3>1, <3>2
  <2>3. m \notin refined
    <3>1. SUFFICES ASSUME m \in refined PROVE FALSE
      OBVIOUS
    <3>2. PICK c \in LeavesOf(refined) : Touch(c, n) /\ Len(c) > Len(m)
      <4>1. refined \in SUBSET Path
        BY DEF TreeSet
      <4> QED BY <1>1, <2>2, <3>1, <4>1, DeepLeaf
    <3>3. Len(c) > Len(n) + 1
      BY <2>2, <3>2
    <3> QED BY <3>2, <3>3, BalancedLeaves
  <2>4. m \in LeavesOf(refined)
    BY <1>8, <2>2, <2>3 DEF LeavesOf
  <2>5. m # n
    BY <1>1, <2>2
  <2> QED BY <2>2, <2>4, <2>5, TouchSymmetric
<1> QED BY <1>4, <1>6, <1>7, <1>8 DEF FoundBy

(* The search finds the leaves that touch a leaf and no other node. *)
LEMMA SearchExact ==
  ASSUME TreeSet(refined), Balanced(refined), IsFiniteSet(refined), NEW n \in Tree!Leaves
  PROVE  node_neighbors(n) = {m \in Tree!Leaves \ {n} : Touch(n, m)}
<1>1. Tree!Leaves = (IF refined = {} THEN {<<>>} ELSE {}) \cup LeavesOf(refined)
  BY DEF Tree!Leaves, LeavesOf
<1>2. CASE refined = {}
  <2>1. LeavesOf(refined) = {}
    BY <1>2 DEF LeavesOf
  <2>2. Tree!Leaves = {<<>>}
    BY <1>1, <1>2, <2>1
  <2> QED BY <2>2, RootHasNone
<1>3. CASE refined # {}
  <2>1. Tree!Leaves = LeavesOf(refined)
    BY <1>1, <1>3
  <2>2. \A m \in node_neighbors(n) : m \in LeavesOf(refined) /\ m # n /\ Touch(n, m)
    BY <2>1, Sound
  <2>3. \A m \in LeavesOf(refined) \ {n} : Touch(n, m) => m \in node_neighbors(n)
    BY <2>1, Complete
  <2> QED BY <2>1, <2>2, <2>3
<1> QED BY <1>2, <1>3

(* The search for the neighbours in a set looks at every row, too. *)
LEMMA SearchInUnion ==
  ASSUME NEW nodes, NEW n, NEW m
  PROVE  m \in node_neighbors_in(nodes, n) <=>
           /\ m \in nodes
           /\ \E M \in Manifold : \E i \in neighbor_idx(M) : m \in neighbors_at_in(nodes, n, M, i)
<1>1. ASSUME NEW at \in Neighbor
      PROVE  at[1] \in Manifold /\ at[2] \in neighbor_idx(at[1])
  BY DEF Neighbor
<1>2. ASSUME m \in node_neighbors_in(nodes, n)
      PROVE  /\ m \in nodes
             /\ \E M \in Manifold : \E i \in neighbor_idx(M) : m \in neighbors_at_in(nodes, n, M, i)
  BY <1>1, <1>2 DEF node_neighbors_in
<1>3. ASSUME m \in nodes, NEW M \in Manifold, NEW i \in neighbor_idx(M),
             m \in neighbors_at_in(nodes, n, M, i)
      PROVE  m \in node_neighbors_in(nodes, n)
  <2>0. <<M, i>> \in Neighbor
    BY DEF Neighbor
  <2>1. PICK at \in Neighbor : at = <<M, i>>
    BY <2>0
  <2>2. m \in neighbors_at_in(nodes, n, at[1], at[2])
    BY <1>3, <2>1
  <2> QED BY <1>3, <2>2 DEF node_neighbors_in
<1> QED BY <1>2, <1>3

(* m is what the search in a set adds for b, the node at the shifted cell. *)
FoundIn(nodes, m, b, M, i) ==
  \/ b \notin refined /\ m = b
  \/ /\ b \notin refined /\ b \notin nodes /\ b # <<>>
     /\ m = SubSeq(b, 1, Len(b) - 1)
  \/ b \in refined /\ \E p \in children_sharing_face(M, i) : m = Append(b, p)

(* The members of the set that it finds come from such a node. *)
LEMMA SearchInOrigin ==
  ASSUME NEW nodes, NEW n, NEW M \in Manifold, NEW i \in neighbor_idx(M),
         NEW m \in nodes, NEW q, shift_location(n, offset(M, i)) = {q},
         NEW b, b = node_or_parent_at(q)
  PROVE  m \in neighbors_at_in(nodes, n, M, i) <=> FoundIn(nodes, m, b, M, i)
BY DEF neighbors_at_in, is_leaf, FoundIn

(* A shift ends in one cell or outside of the root. *)
LEMMA OneCell ==
  ASSUME NEW n \in Path, NEW M \in Manifold, NEW i \in neighbor_idx(M),
         NEW q \in shift_location(n, offset(M, i))
  PROVE  shift_location(n, offset(M, i)) = {q}
BY OffsetSound, CoordinateInjective DEF shift_location

(* Whatever the tree, the members of a set that the search returns touch the *)
(* node.                                                                     *)
LEMMA SoundIn ==
  ASSUME NEW nodes, NEW n \in Path, NEW m \in node_neighbors_in(nodes, n)
  PROVE  m # n /\ Touch(n, m)
<1>1. m \in nodes /\ Len(n) \in Nat
  BY SearchInUnion, LengthOfPath
<1>2. PICK M \in Manifold : \E i \in neighbor_idx(M) : m \in neighbors_at_in(nodes, n, M, i)
  BY SearchInUnion
<1> PICK i \in neighbor_idx(M) : m \in neighbors_at_in(nodes, n, M, i)
  BY <1>2
<1>3. PICK q : q \in shift_location(n, offset(M, i))
  BY DEF neighbors_at_in
<1>4. PICK b : b = node_or_parent_at(q)
  OBVIOUS
<1>5. b \in Path /\ Len(b) <= Len(n) /\ b # n /\ Touch(n, b) /\ Len(b) \in Nat
  BY <1>3, <1>4, FoundTouches, LengthOfPath
<1>6. \/ m = b
      \/ b # <<>> /\ m = SubSeq(b, 1, Len(b) - 1)
      \/ b \in refined /\ \E p \in children_sharing_face(M, i) : m = Append(b, p)
  <2>1. shift_location(n, offset(M, i)) = {q}
    BY <1>2, <1>3, OneCell
  <2>2. FoundIn(nodes, m, b, M, i)
    BY <1>1, <1>2, <1>4, <2>1, SearchInOrigin
  <2> QED BY <2>2 DEF FoundIn
<1>7. CASE b # <<>> /\ m = SubSeq(b, 1, Len(b) - 1)
  <2>1. PICK r \in Path, p \in child_pos :
          b = Append(r, p) /\ r = m /\ Len(r) = Len(b) - 1
    BY <1>5, <1>7, PathIsChild
  <2>2. Touch(n, m)
    BY <1>5, <2>1, TouchParent, TouchSymmetric
  <2> QED BY <1>5, <2>1, <2>2
<1>8. ASSUME b \in refined, NEW p \in children_sharing_face(M, i), m = Append(b, p)
      PROVE  m # n /\ Touch(n, m)
  <2>1. q \in Path /\ b = q
    BY <1>3, <1>4, <1>8, OffsetSound, FoundRefined
  <2>2. m \in Path /\ Len(m) = Len(n) + 1 /\ Touch(m, n)
    <3>1. m = Append(q, p) /\ q \in shift_location(n, offset(M, i))
      BY <1>3, <1>8, <2>1
    <3>2. /\ Append(q, p) \in Path
          /\ Len(Append(q, p)) = Len(n) + 1 /\ Touch(Append(q, p), n)
      BY <1>2, <1>8, <3>1, SideTouches
    <3> QED BY <3>1, <3>2
  <2> QED BY <1>1, <2>2, TouchSymmetric
<1> QED BY <1>5, <1>6, <1>7, <1>8

(* In a balanced tree the search finds the members that touch a leaf if they *)
(* are leaves, or a level coarser with leaves for children, none of them the *)
(* node or a member.                                                         *)
LEMMA CompleteIn ==
  ASSUME TreeSet(refined), Balanced(refined), NEW nodes, NEW n \in LeavesOf(refined),
         NEW m \in nodes, m # n, Touch(n, m),
         \/ m \in LeavesOf(refined)
         \/ /\ m \in refined /\ Len(n) = Len(m) + 1
            /\ \A p \in child_pos :
                 Append(m, p) # n /\ Append(m, p) \notin refined /\ Append(m, p) \notin nodes
  PROVE  m \in node_neighbors_in(nodes, n)
<1>1. n \in Path /\ Len(n) \in Nat
  BY LeafHasParent, LengthOfPath
<1>2. ASSUME NEW c \in LeavesOf(refined), c # n, Touch(n, c)
      PROVE  \E M \in Manifold : \E i \in neighbor_idx(M) : \E q :
               /\ shift_location(n, offset(M, i)) = {q} /\ q \in Path /\ Len(q) = Len(n)
               /\ FoundBy(c, q, M, i)
  <2>1. c \in node_neighbors(n)
    BY <1>2, Complete
  <2>2. PICK M \in Manifold : \E i \in neighbor_idx(M) : c \in neighbors_at(n, M, i)
    BY <2>1, SearchUnion
  <2> PICK i \in neighbor_idx(M) : c \in neighbors_at(n, M, i)
    BY <2>2
  <2>3. PICK q \in shift_location(n, offset(M, i)) : FoundBy(c, q, M, i)
    BY <2>2, SearchOrigin
  <2>4. shift_location(n, offset(M, i)) = {q} /\ q \in Path /\ Len(q) = Len(n)
    BY <1>1, <2>2, <2>3, OneCell, OffsetSound
  <2> QED BY <2>2, <2>3, <2>4
<1>3. CASE m \in LeavesOf(refined)
  <2>1. PICK M \in Manifold : \E i \in neighbor_idx(M) : \E q :
          shift_location(n, offset(M, i)) = {q} /\ FoundBy(m, q, M, i)
    BY <1>2, <1>3
  <2> PICK i \in neighbor_idx(M) : \E q :
          shift_location(n, offset(M, i)) = {q} /\ FoundBy(m, q, M, i)
    BY <2>1
  <2>3. PICK q :
          shift_location(n, offset(M, i)) = {q} /\ FoundBy(m, q, M, i)
    OBVIOUS
  <2>2. m \in neighbors_at_in(nodes, n, M, i)
    <3>1. FoundIn(nodes, m, node_or_parent_at(q), M, i)
      BY <2>3 DEF FoundBy, FoundIn
    <3> QED BY <2>1, <2>3, <3>1, SearchInOrigin
  <2> QED BY <2>2, SearchInUnion
<1>4. CASE /\ m \in refined /\ Len(n) = Len(m) + 1
           /\ \A p \in child_pos :
                Append(m, p) # n /\ Append(m, p) \notin refined /\ Append(m, p) \notin nodes
  <2>1. m \in Path /\ Len(m) \in Nat
    BY <1>4, LengthOfPath DEF TreeSet
  <2>2. PICK o \in child_pos : Touch(Append(m, o), n)
    BY <1>1, <2>1, TouchSymmetric, TouchChild
  <2>3. PICK c : c = Append(m, o)
    OBVIOUS
  <2>4. /\ c \in LeavesOf(refined) /\ c # n /\ Touch(n, c) /\ c \notin nodes /\ c # <<>>
        /\ c \in Path /\ Len(c) = Len(n) /\ m = SubSeq(c, 1, Len(c) - 1)
    BY <1>1, <1>4, <2>1, <2>2, <2>3, ChildPath, ChildIsLeaf, TouchSymmetric
  <2>5. PICK M \in Manifold : \E i \in neighbor_idx(M) : \E q :
          /\ shift_location(n, offset(M, i)) = {q} /\ q \in Path /\ Len(q) = Len(n)
          /\ FoundBy(c, q, M, i)
    BY <1>2, <2>4
  <2> PICK i \in neighbor_idx(M) : \E q :
          /\ shift_location(n, offset(M, i)) = {q} /\ q \in Path /\ Len(q) = Len(n)
          /\ FoundBy(c, q, M, i)
    BY <2>5
  <2>8. PICK q :
          /\ shift_location(n, offset(M, i)) = {q} /\ q \in Path /\ Len(q) = Len(n)
          /\ FoundBy(c, q, M, i)
    OBVIOUS
  <2>6. c = node_or_parent_at(q) /\ c \notin refined
    <3>1. SUFFICES ASSUME node_or_parent_at(q) \in refined,
                          NEW p \in children_sharing_face(M, i),
                          c = Append(node_or_parent_at(q), p)
                   PROVE  FALSE
      BY <2>8 DEF FoundBy
    <3>2. c = Append(q, p)
      BY <2>8, <3>1, FoundRefined
    <3>4. p \in child_pos
      <4>1. q \in shift_location(n, offset(M, i))
        BY <2>8
      <4> QED BY <1>1, <2>5, <3>1, <4>1, SideTouches
    <3>3. Len(c) = Len(q) + 1 /\ Len(q) \in Nat
      BY <2>8, <3>2, <3>4, ChildPath, LengthOfPath
    <3> QED BY <2>4, <2>8, <3>3
  <2>7. m \in neighbors_at_in(nodes, n, M, i)
    <3>1. FoundIn(nodes, m, c, M, i)
      BY <2>4, <2>6 DEF FoundIn
    <3> QED BY <2>4, <2>5, <2>6, <2>8, <3>1, SearchInOrigin
  <2> QED BY <2>7, SearchInUnion
<1> QED BY <1>3, <1>4

-----------------------------------------------------------------------------
(* The invariant. *)

CallRecord == [node : Path, pending : SUBSET Path]

(* A call is for a leaf, and what it will look at touches it from one level *)
(* above.                                                                   *)
CallsInTree(nodes, stack) ==
  \A k \in 1 .. Len(stack) :
    /\ stack[k].node \in LeavesIn(nodes)
    /\ \A m \in stack[k].pending :
         /\ m \in LeavesIn(nodes) \cup nodes
         /\ Len(stack[k].node) = Len(m) + 1
         /\ Touch(stack[k].node, m)

(* An inner call is for a node that touches the caller's from a level above. *)
CallsAscend(stack) ==
  \A j, k \in 1 .. Len(stack) : j < k =>
    /\ Len(stack[j].node) > Len(stack[k].node)
    /\ k = j + 1 => /\ Len(stack[j].node) = Len(stack[k].node) + 1
                    /\ Touch(stack[j].node, stack[k].node)

(* Every coarser leaf that touches the node of a call is still to be looked *)
(* at, or is being refined, unless the tree is full.                        *)
CallsWait(nodes, stack) ==
  Cardinality(nodes) < MaxRefined =>
    \A k \in 1 .. Len(stack) : \A b \in LeavesIn(nodes) :
      Touch(stack[k].node, b) /\ Len(stack[k].node) = Len(b) + 1 =>
        b \in stack[k].pending \/ (k < Len(stack) /\ b = stack[k + 1].node)

(* What was refined since the outermost call touches a finer node that is   *)
(* refined or to be refined, unless the tree is full.                       *)
CallsAsk(nodes, stack, old) ==
  Cardinality(nodes) < MaxRefined /\ stack # <<>> =>
    \A m \in nodes \ old : \E c \in Path :
      /\ Len(c) = Len(m) + 1 /\ Touch(c, m)
      /\ c \in nodes \/ \E k \in 1 .. Len(stack) : c = stack[k].node

CallsKeepRoot(stack, old) ==
  stack # <<>> => <<>> \in old \/ stack[1].node = <<>>

TreeInv(nodes) ==
  TreeSet(nodes) /\ IsFiniteSet(nodes) /\ Balanced(nodes) /\ Cardinality(nodes) <= MaxRefined

CallsInv(nodes, stack, old) ==
  /\ stack \in Seq(CallRecord)
  /\ CallsInTree(nodes, stack)
  /\ CallsAscend(stack)
  /\ CallsWait(nodes, stack)
  /\ CallsAsk(nodes, stack, old)
  /\ CallsKeepRoot(stack, old)

Inv == TreeInv(refined) /\ CallsInv(refined, calls, before)

-----------------------------------------------------------------------------
(* The steps of balanced_refine keep the invariant. *)

(* Between two operations nothing is asked of the calls. *)
LEMMA NoCalls ==
  ASSUME NEW nodes, NEW old
  PROVE  CallsInv(nodes, <<>>, old)
BY DEF CallsInv, CallsInTree, CallsAscend, CallsWait, CallsAsk, CallsKeepRoot

(* What a call that starts is going to look at. *)
Coarser(nodes, n) == {m \in LeavesIn(nodes) : Touch(n, m) /\ Len(n) = Len(m) + 1}

(* A call starts with the coarser leaves that touch its node. *)
LEMMA CallFacts ==
  ASSUME TreeInv(refined), NEW n \in Tree!Leaves
  PROVE  /\ n \in LeavesIn(refined)
         /\ Call(n) \in CallRecord
         /\ Call(n).node = n
         /\ Call(n).pending = Coarser(refined, n)
<1>1. Tree!Leaves = LeavesIn(refined)
  BY DEF Tree!Leaves, LeavesIn, LeavesOf
<1>2. n \in Path /\ Len(n) \in Nat
  BY <1>1, LeafInTree DEF TreeInv
<1>3. node_neighbors(n) = {m \in Tree!Leaves \ {n} : Touch(n, m)}
  BY SearchExact DEF TreeInv
<1>4. ASSUME NEW m \in LeavesIn(refined)
      PROVE  m \in Path /\ (Len(m) = Len(n) - 1 <=> Len(n) = Len(m) + 1)
  <2>1. m \in Path /\ Len(m) \in Nat
    BY LeafInTree DEF TreeInv
  <2> QED BY <1>2, <2>1
<1>5. {m \in node_neighbors(n) : Len(m) = Len(n) - 1} = Coarser(refined, n)
  <2>1. ASSUME NEW m \in Coarser(refined, n)
        PROVE  m # n
    BY <1>2 DEF Coarser
  <2> QED BY <1>1, <1>3, <1>4, <2>1 DEF Coarser
<1>6. Coarser(refined, n) \in SUBSET Path
  BY <1>4 DEF Coarser
<1> QED BY <1>1, <1>2, <1>5, <1>6 DEF Call, CallRecord, node_level

(* The calls that go on when the innermost returns. *)
LEMMA FrontOfStack ==
  ASSUME NEW stack \in Seq(CallRecord), stack # <<>>
  PROVE  /\ SubSeq(stack, 1, Len(stack) - 1) \in Seq(CallRecord)
         /\ Len(SubSeq(stack, 1, Len(stack) - 1)) = Len(stack) - 1
         /\ \A k \in 1 .. (Len(stack) - 1) : SubSeq(stack, 1, Len(stack) - 1)[k] = stack[k]
<1>1. Len(stack) \in Nat \ {0}
  OBVIOUS
<1>2. PICK N \in Nat : N = Len(stack) - 1
  BY <1>1
<1>3. \A k \in 1 .. N : stack[k] \in CallRecord
  BY <1>1, <1>2
<1>4. /\ SubSeq(stack, 1, N) \in Seq(CallRecord)
      /\ Len(SubSeq(stack, 1, N)) = IF 1 <= N THEN N - 1 + 1 ELSE 0
      /\ \A k \in 1 .. (N - 1 + 1) : SubSeq(stack, 1, N)[k] = stack[1 + k - 1]
  BY <1>3, SubSeqProperties
<1>5. Len(SubSeq(stack, 1, N)) = N
  BY <1>4
<1>6. ASSUME NEW k \in 1 .. N
      PROVE  SubSeq(stack, 1, N)[k] = stack[k]
  <2>1. k \in 1 .. (N - 1 + 1) /\ 1 + k - 1 = k
    OBVIOUS
  <2> QED BY <1>4, <2>1
<1> QED BY <1>2, <1>4, <1>5, <1>6

(* The outermost call starts. *)
LEMMA StartKeeps ==
  ASSUME NEW nodes, TreeInv(nodes), NEW n \in LeavesIn(nodes),
         NEW c \in CallRecord, c.node = n, c.pending = Coarser(nodes, n)
  PROVE  CallsInv(nodes, <<c>>, nodes)
<1>1. PICK s : s = <<c>>
  OBVIOUS
<1>2. s \in Seq(CallRecord) /\ Len(s) = 1 /\ s[1] = c /\ s # <<>>
  BY <1>1
<1>3. n \in Path /\ n \notin nodes
  BY LeafInTree DEF TreeInv
<1>4. 1 .. 1 = {1}
  OBVIOUS
<1>5. CallsInTree(nodes, s)
  BY <1>2, <1>4 DEF CallsInTree, Coarser
<1>6. CallsAscend(s)
  BY <1>2, <1>4 DEF CallsAscend
<1>7. CallsWait(nodes, s)
  BY <1>2, <1>4 DEF CallsWait, Coarser
<1>8. CallsAsk(nodes, s, nodes)
  BY DEF CallsAsk
<1>9. CallsKeepRoot(s, nodes)
  <2>1. CASE nodes = {}
    <3>1. n = <<>>
      BY <2>1 DEF LeavesIn, LeavesOf
    <3> QED BY <3>1, <1>2 DEF CallsKeepRoot
  <2>2. CASE nodes # {}
    BY <2>2 DEF CallsKeepRoot, TreeInv, TreeSet
  <2> QED BY <2>1, <2>2
<1> QED BY <1>1, <1>2, <1>5, <1>6, <1>7, <1>8, <1>9 DEF CallsInv

(* A call starts another one for a neighbour. *)
LEMMA VisitKeeps ==
  ASSUME NEW nodes, TreeInv(nodes), NEW stack, NEW old, CallsInv(nodes, stack, old),
         stack # <<>>, NEW m \in stack[Len(stack)].pending, m \notin nodes,
         NEW c \in CallRecord, c.node = m, c.pending = Coarser(nodes, m)
  PROVE  CallsInv(nodes,
                  SubSeq(stack, 1, Len(stack) - 1)
                    \o <<[stack[Len(stack)] EXCEPT !.pending = @ \ {m}], c>>,
                  old)
<1>1. PICK L \in Nat \ {0} : L = Len(stack)
  BY DEF CallsInv
<1>2. stack \in Seq(CallRecord) /\ \A k \in 1 .. L : stack[k] \in CallRecord
  BY <1>1 DEF CallsInv
<1>3. PICK d : d = [stack[L] EXCEPT !.pending = @ \ {m}]
  OBVIOUS
<1>4. d \in CallRecord /\ d.node = stack[L].node /\ d.pending = stack[L].pending \ {m}
  BY <1>1, <1>2, <1>3 DEF CallRecord
<1>5. PICK r \in Seq(CallRecord) : r = SubSeq(stack, 1, L - 1) /\ Len(r) = L - 1
                                  /\ \A k \in 1 .. (L - 1) : r[k] = stack[k]
  BY <1>1, <1>2, FrontOfStack
<1>6. PICK s : s = r \o <<d, c>>
  OBVIOUS
<1>7. PICK z \in Seq(CallRecord) : z = <<d, c>> /\ Len(z) = 2 /\ z[1] = d /\ z[2] = c
  <2>1. <<d, c>> \in Seq(CallRecord)
    BY <1>4
  <2> QED BY <2>1
<1>8. /\ s \in Seq(CallRecord) /\ Len(s) = L + 1
      /\ \A k \in 1 .. (L - 1) : s[k] = stack[k]
      /\ s[L] = d /\ s[L + 1] = c
  <2>1. s = r \o z
    BY <1>6, <1>7
  <2>2. s \in Seq(CallRecord) /\ Len(s) = L + 1
    BY <1>5, <1>7, <2>1
  <2>3. \A k \in 1 .. (L - 1) : s[k] = stack[k]
    BY <1>5, <1>7, <2>1
  <2>4. s[L] = d
    BY <1>5, <1>7, <2>1
  <2>5. s[L + 1] = c
    BY <1>5, <1>7, <2>1
  <2> QED BY <2>2, <2>3, <2>4, <2>5
<1>9. /\ m \in LeavesIn(nodes) /\ Len(stack[L].node) = Len(m) + 1 /\ Touch(stack[L].node, m)
      /\ m \in Path /\ Len(m) \in Nat
  <2>1. /\ m \in LeavesIn(nodes) \cup nodes
        /\ Len(stack[L].node) = Len(m) + 1 /\ Touch(stack[L].node, m)
    BY <1>1 DEF CallsInv, CallsInTree
  <2> QED BY <2>1, LeafInTree DEF TreeInv
<1>10. \A k \in 1 .. (L + 1) : k \in 1 .. L \/ k = L + 1
  OBVIOUS
<1>11. \A k \in 1 .. L : s[k].node = stack[k].node /\ s[k].pending \subseteq stack[k].pending
  <2>1. ASSUME NEW k \in 1 .. L
        PROVE  s[k].node = stack[k].node /\ s[k].pending \subseteq stack[k].pending
    <3>1. CASE k = L
      BY <1>4, <1>8, <3>1
    <3>2. CASE k \in 1 .. (L - 1)
      BY <1>8, <3>2
    <3> QED BY <3>1, <3>2
  <2> QED BY <2>1
<1>12. CallsInTree(nodes, s)
  <2>1. ASSUME NEW k \in 1 .. L
        PROVE  /\ s[k].node \in LeavesIn(nodes)
               /\ \A b \in s[k].pending : /\ b \in LeavesIn(nodes) \cup nodes
                                          /\ Len(s[k].node) = Len(b) + 1
                                          /\ Touch(s[k].node, b)
    BY <1>1, <1>11 DEF CallsInv, CallsInTree
  <2>2. \A b \in c.pending : b \in LeavesIn(nodes) /\ Len(m) = Len(b) + 1 /\ Touch(m, b)
    BY DEF Coarser
  <2> QED BY <1>8, <1>9, <1>10, <2>1, <2>2 DEF CallsInTree
<1>13. ASSUME NEW k \in 1 .. L
       PROVE  stack[k].node \in Path /\ Len(stack[k].node) \in Nat
  BY <1>2, LengthOfPath DEF CallRecord
<1>14. CallsAscend(s)
  <2>1. ASSUME NEW j \in 1 .. (L + 1), NEW k \in 1 .. (L + 1), j < k
        PROVE  /\ Len(s[j].node) > Len(s[k].node)
               /\ k = j + 1 => Len(s[j].node) = Len(s[k].node) + 1 /\ Touch(s[j].node, s[k].node)
    <3>1. CASE k \in 1 .. L
      <4>1. j \in 1 .. L
        BY <2>1, <3>1
      <4> QED BY <1>1, <1>11, <2>1, <3>1, <4>1 DEF CallsInv, CallsAscend
    <3>2. CASE k = L + 1
      <4>1. j \in 1 .. L /\ s[k].node = m
        BY <1>8, <2>1, <3>2
      <4>2. CASE j = L
        BY <1>9, <1>11, <4>1, <4>2
      <4>3. CASE j < L
        <5>1. L \in 1 .. L
          OBVIOUS
        <5>2. Len(stack[j].node) > Len(stack[L].node)
          BY <1>1, <4>1, <4>3, <5>1 DEF CallsInv, CallsAscend
        <5>3. Len(stack[j].node) > Len(m)
          BY <1>9, <1>13, <4>1, <5>1, <5>2
        <5>4. k # j + 1
          BY <3>2, <4>1, <4>3
        <5> QED BY <1>11, <4>1, <5>3, <5>4
      <4> QED BY <4>1, <4>2, <4>3
    <3> QED BY <3>1, <3>2, <1>10
  <2> QED BY <1>8, <2>1 DEF CallsAscend
<1>15. CallsWait(nodes, s)
  <2>1. ASSUME Cardinality(nodes) < MaxRefined, NEW k \in 1 .. (L + 1), NEW b \in LeavesIn(nodes),
               Touch(s[k].node, b), Len(s[k].node) = Len(b) + 1
        PROVE  b \in s[k].pending \/ (k < L + 1 /\ b = s[k + 1].node)
    <3>1. CASE k = L + 1
      BY <1>8, <2>1, <3>1 DEF Coarser
    <3>2. CASE k \in 1 .. L
      <4>1. b \in stack[k].pending \/ (k < L /\ b = stack[k + 1].node)
        BY <1>1, <1>11, <2>1, <3>2 DEF CallsInv, CallsWait
      <4>2. CASE k = L
        BY <1>4, <1>8, <3>2, <4>1, <4>2
      <4>3. CASE k \in 1 .. (L - 1)
        <5>1. k + 1 \in 1 .. L /\ s[k] = stack[k]
          BY <1>8, <4>3
        <5> QED BY <1>11, <4>1, <5>1
      <4> QED BY <3>2, <4>2, <4>3
    <3> QED BY <3>1, <3>2, <1>10
  <2> QED BY <1>8, <2>1 DEF CallsWait
<1>16. CallsAsk(nodes, s, old)
  <2>1. ASSUME Cardinality(nodes) < MaxRefined, NEW x \in nodes \ old
        PROVE  \E y \in Path : /\ Len(y) = Len(x) + 1 /\ Touch(y, x)
                               /\ y \in nodes \/ \E k \in 1 .. (L + 1) : y = s[k].node
    <3>1. PICK y \in Path : /\ Len(y) = Len(x) + 1 /\ Touch(y, x)
                            /\ y \in nodes \/ \E k \in 1 .. L : y = stack[k].node
      BY <1>1, <2>1 DEF CallsInv, CallsAsk
    <3>2. \A k \in 1 .. L : k \in 1 .. (L + 1)
      OBVIOUS
    <3> QED BY <1>11, <3>1, <3>2
  <2> QED BY <1>8, <2>1 DEF CallsAsk
<1>17. CallsKeepRoot(s, old)
  <2>1. 1 \in 1 .. L
    OBVIOUS
  <2> QED BY <1>11, <2>1 DEF CallsInv, CallsKeepRoot
<1> QED BY <1>1, <1>3, <1>5, <1>6, <1>8, <1>12, <1>14, <1>15, <1>16, <1>17 DEF CallsInv

(* Refining a leaf that no coarser leaf touches keeps the tree a balanced one. *)
LEMMA RefinedTree ==
  ASSUME NEW nodes, TreeInv(nodes), NEW t \in LeavesIn(nodes), Cardinality(nodes) < MaxRefined,
         \A b \in LeavesIn(nodes) : Len(t) = Len(b) + 1 => ~Touch(t, b)
  PROVE  TreeInv(nodes \cup {t})
<1>1. t \in Path /\ t \notin nodes /\ Len(t) \in Nat
  BY LeafInTree DEF TreeInv
<1>2. IsFiniteSet(nodes \cup {t}) /\ Cardinality(nodes \cup {t}) <= MaxRefined
  <2>1. IsFiniteSet(nodes) /\ Cardinality(nodes) \in Nat
    BY FS_CardinalityType DEF TreeInv
  <2>2. IsFiniteSet(nodes \cup {t}) /\ Cardinality(nodes \cup {t}) = Cardinality(nodes) + 1
    BY <1>1, <2>1, FS_AddElement
  <2> QED BY <2>1, <2>2, MaxRefinedAssumption
<1>3. CASE t = <<>>
  <2>1. nodes = {}
    BY <1>3, LeafInTree DEF TreeInv
  <2>2. TreeSet(nodes \cup {t})
    BY <1>1, <1>3, <2>1 DEF TreeSet
  <2>3. \A a \in LeavesOf(nodes \cup {t}) : Len(a) = 1
    <3>1. ASSUME NEW a \in LeavesOf(nodes \cup {t})
          PROVE  Len(a) = 1
      <4>1. PICK p \in child_pos : a = Append(t, p)
        BY <2>1 DEF LeavesOf
      <4>2. Len(a) = Len(t) + 1 /\ Len(t) = 0
        BY <1>1, <1>3, <4>1, ChildPath
      <4> QED BY <4>2
    <3> QED BY <3>1
  <2>4. Balanced(nodes \cup {t})
    <3>1. \A a, b \in LeavesOf(nodes \cup {t}) : ~(Len(a) > Len(b) + 1)
      BY <2>3
    <3> QED BY <3>1, BalancedLeaves
  <2> QED BY <1>2, <2>2, <2>4 DEF TreeInv
<1>4. CASE t # <<>>
  <2>1. t \in LeavesOf(nodes)
    BY <1>4, LeafInTree DEF TreeInv
  <2>2. ASSUME NEW b \in LeavesOf(nodes), Len(b) = Len(t) - 1
        PROVE  ~Touch(t, b)
    <3>1. b \in LeavesIn(nodes) /\ Len(b) \in Nat
      BY LeafHasParent, LengthOfPath DEF LeavesIn, TreeInv
    <3> QED BY <1>1, <2>2, <3>1
  <2>3. Balanced(nodes \cup {t})
    BY <2>1, <2>2, RefineKeeps DEF TreeInv
  <2>4. TreeSet(nodes \cup {t})
    BY <2>1, TreeSetGrows DEF TreeInv
  <2> QED BY <1>2, <2>3, <2>4 DEF TreeInv
<1> QED BY <1>3, <1>4

(* Which leaves there are after a leaf is refined. *)
LEMMA RefinedLeaves ==
  ASSUME NEW nodes, TreeSet(nodes), NEW t \in LeavesIn(nodes)
  PROVE  /\ \A b \in LeavesIn(nodes) : b # t => b \in LeavesIn(nodes \cup {t})
         /\ \A b \in LeavesIn(nodes \cup {t}) :
              b \in LeavesIn(nodes) \/ \E p \in child_pos : b = Append(t, p)
<1>1. ASSUME NEW b \in LeavesIn(nodes), b # t
      PROVE  b \in LeavesIn(nodes \cup {t})
  <2>1. b \in LeavesOf(nodes)
    <3>1. CASE nodes = {}
      BY <1>1, <3>1 DEF LeavesIn, LeavesOf
    <3>2. CASE nodes # {}
      BY <3>2 DEF LeavesIn
    <3> QED BY <3>1, <3>2
  <2> QED BY <1>1, <2>1 DEF LeavesIn, LeavesOf
<1>2. ASSUME NEW b \in LeavesIn(nodes \cup {t})
      PROVE  b \in LeavesIn(nodes) \/ \E p \in child_pos : b = Append(t, p)
  BY DEF LeavesIn, LeavesOf
<1> QED BY <1>1, <1>2

(* A call refines its node, or finds the tree full, and returns to its *)
(* caller: what is left of the calls is as it should be,               *)
LEMMA ReturnKeeps ==
  ASSUME NEW nodes, TreeInv(nodes), NEW stack, NEW old, CallsInv(nodes, stack, old),
         stack # <<>>, \A m \in stack[Len(stack)].pending : m \in nodes,
         NEW t, t = stack[Len(stack)].node,
         NEW new, \/ Cardinality(nodes) < MaxRefined /\ new = nodes \cup {t}
                  \/ Cardinality(nodes) >= MaxRefined /\ new = nodes,
         NEW rest, rest = SubSeq(stack, 1, Len(stack) - 1), rest # <<>>
  PROVE  CallsInv(new, rest, old)
<1>1. PICK L \in Nat \ {0} : L = Len(stack)
  BY DEF CallsInv
<1>2. stack \in Seq(CallRecord) /\ \A k \in 1 .. L : stack[k] \in CallRecord
  BY <1>1 DEF CallsInv
<1>3. rest \in Seq(CallRecord) /\ Len(rest) = L - 1 /\ \A k \in 1 .. (L - 1) : rest[k] = stack[k]
  BY <1>1, <1>2, FrontOfStack
<1>4. L \in 1 .. L /\ L - 1 \in 1 .. L /\ L - 1 \in Nat \ {0} /\ (L - 1) + 1 = L
  BY <1>1, <1>3
<1>5. \A k \in 1 .. (L - 1) : k \in 1 .. L /\ k + 1 \in 1 .. L /\ k < L /\ (k = L - 1 <=> k + 1 = L)
  BY <1>1
<1>6. \A k \in 1 .. L : stack[k].node \in LeavesIn(nodes) /\ stack[k].node \in Path
                        /\ Len(stack[k].node) \in Nat
  BY <1>1, LeafInTree DEF CallsInv, CallsInTree, TreeInv
<1>7. t = stack[L].node /\ t \in LeavesIn(nodes) /\ t \in Path /\ Len(t) \in Nat /\ t \notin nodes
  BY <1>1, <1>4, <1>6, LeafInTree DEF TreeInv
<1>8. \A k \in 1 .. (L - 1) : Len(stack[k].node) > Len(t)
  BY <1>1, <1>4, <1>5, <1>7 DEF CallsInv, CallsAscend
<1>9. nodes \subseteq new /\ new \subseteq nodes \cup {t}
  OBVIOUS
<1>10. \A b \in LeavesIn(nodes) : b = t \/ b \in LeavesIn(new)
  BY RefinedLeaves, <1>7 DEF TreeInv
<1>11. \A b \in LeavesIn(new) : b \in LeavesIn(nodes) \/ \E p \in child_pos : b = Append(t, p)
  <2>1. CASE new = nodes
    BY <2>1
  <2>2. CASE new = nodes \cup {t}
    BY <1>7, <2>2, RefinedLeaves DEF TreeInv
  <2> QED BY <2>1, <2>2
<1>12. CallsInTree(new, rest)
  <2>1. ASSUME NEW k \in 1 .. (L - 1)
        PROVE  stack[k].node \in LeavesIn(new)
    <3>1. stack[k].node # t
      BY <1>5, <1>6, <1>7, <1>8
    <3> QED BY <1>5, <1>6, <1>10, <3>1
  <2>2. ASSUME NEW k \in 1 .. (L - 1), NEW m \in stack[k].pending
        PROVE  /\ m \in LeavesIn(new) \cup new
               /\ Len(stack[k].node) = Len(m) + 1
               /\ Touch(stack[k].node, m)
    <3>1. /\ m \in LeavesIn(nodes) \cup nodes
          /\ Len(stack[k].node) = Len(m) + 1
          /\ Touch(stack[k].node, m)
      BY <1>1, <1>5 DEF CallsInv, CallsInTree
    <3>2. m \in LeavesIn(new) \cup new
      <4>1. CASE Cardinality(nodes) < MaxRefined /\ new = nodes \cup {t}
        BY <1>10, <3>1, <4>1
      <4>2. CASE new = nodes
        BY <3>1, <4>2
      <4> QED BY <4>1, <4>2
    <3> QED BY <3>1, <3>2
  <2> QED BY <1>3, <2>1, <2>2 DEF CallsInTree
<1>13. CallsAscend(rest)
  <2>1. ASSUME NEW j \in 1 .. (L - 1), NEW k \in 1 .. (L - 1), j < k
        PROVE  /\ Len(rest[j].node) > Len(rest[k].node)
               /\ k = j + 1 => /\ Len(rest[j].node) = Len(rest[k].node) + 1
                               /\ Touch(rest[j].node, rest[k].node)
    <3>1. j \in 1 .. L /\ k \in 1 .. L /\ rest[j] = stack[j] /\ rest[k] = stack[k]
      BY <1>3, <1>5
    <3> QED BY <1>1, <2>1, <3>1 DEF CallsInv, CallsAscend
  <2> QED BY <1>3, <2>1 DEF CallsAscend
<1>14. Cardinality(new) < MaxRefined => Cardinality(nodes) < MaxRefined /\ new = nodes \cup {t}
  <2>1. Cardinality(nodes) \in Nat
    BY FS_CardinalityType DEF TreeInv
  <2> QED BY <2>1, MaxRefinedAssumption
<1>15. CallsWait(new, rest)
  <2>1. ASSUME Cardinality(new) < MaxRefined, NEW k \in 1 .. (L - 1), NEW b \in LeavesIn(new),
               Touch(stack[k].node, b), Len(stack[k].node) = Len(b) + 1
        PROVE  b \in stack[k].pending \/ (k < L - 1 /\ b = stack[k + 1].node)
    <3>1. Cardinality(nodes) < MaxRefined /\ new = nodes \cup {t}
      BY <1>14, <2>1
    <3>2. CASE b \in LeavesIn(nodes)
      <4>1. b \in stack[k].pending \/ (k < L /\ b = stack[k + 1].node)
        BY <1>1, <1>5, <2>1, <3>1, <3>2 DEF CallsInv, CallsWait
      <4>2. CASE b \in stack[k].pending
        BY <4>2
      <4>3. CASE b = stack[k + 1].node /\ k = L - 1
        <5>1. b \in new
          BY <1>4, <1>7, <3>1, <4>3
        <5>2. b \notin new
          <6>1. b # <<>> \/ b \notin new
            BY <2>1 DEF LeavesIn, LeavesOf
          <6>2. CASE b # <<>>
            BY <2>1, <6>2 DEF LeavesIn, LeavesOf
          <6> QED BY <6>1, <6>2
        <5> QED BY <5>1, <5>2
      <4>4. CASE b = stack[k + 1].node /\ k < L - 1
        BY <4>4
      <4> QED BY <4>1, <4>2, <4>3, <4>4, <1>4
    <3>3. CASE \E p \in child_pos : b = Append(t, p)
      <4>1. PICK p \in child_pos : b = Append(t, p)
        BY <3>3
      <4>2. PICK a \in Path : a = stack[k].node /\ a \in LeavesIn(nodes) /\ Len(a) \in Nat
        BY <1>5, <1>6
      <4>3. Len(b) = Len(t) + 1 /\ b \in Path
        BY <1>7, <4>1, ChildPath
      <4>4. Touch(t, a)
        BY <1>7, <2>1, <4>1, <4>2, <4>3, TouchSymmetric, TouchParent
      <4>5. Len(a) > Len(t) + 1
        BY <1>7, <2>1, <4>2, <4>3
      <4>6. a \in LeavesOf(nodes)
        <5>1. a # <<>>
          BY <1>7, <4>5, <4>2
        <5> QED BY <4>2, <5>1, LeafInTree DEF TreeInv
      <4>7. t \in LeavesOf(nodes)
        <5>1. nodes # {}
          BY <4>6 DEF LeavesOf
        <5> QED BY <1>7, <5>1 DEF LeavesIn
      <4> QED BY <4>4, <4>5, <4>6, <4>7, TouchSymmetric, BalancedLeaves DEF TreeInv
    <3> QED BY <1>11, <3>2, <3>3
  <2>2. ASSUME Cardinality(new) < MaxRefined, NEW k \in 1 .. Len(rest), NEW b \in LeavesIn(new),
               Touch(rest[k].node, b), Len(rest[k].node) = Len(b) + 1
        PROVE  b \in rest[k].pending \/ (k < Len(rest) /\ b = rest[k + 1].node)
    <3>1. k \in 1 .. (L - 1) /\ rest[k] = stack[k]
      BY <1>3
    <3>2. b \in stack[k].pending \/ (k < L - 1 /\ b = stack[k + 1].node)
      BY <2>1, <2>2, <3>1
    <3>3. k < L - 1 => rest[k + 1] = stack[k + 1]
      <4>1. k < L - 1 => k + 1 \in 1 .. (L - 1)
        BY <3>1
      <4> QED BY <1>3, <4>1
    <3> QED BY <1>3, <3>1, <3>2, <3>3
  <2> QED BY <2>2 DEF CallsWait
<1>16. CallsAsk(new, rest, old)
  <2>1. ASSUME Cardinality(new) < MaxRefined, NEW m \in new \ old
        PROVE  \E c \in Path : /\ Len(c) = Len(m) + 1 /\ Touch(c, m)
                               /\ c \in new \/ \E k \in 1 .. (L - 1) : c = stack[k].node
    <3>1. Cardinality(nodes) < MaxRefined /\ new = nodes \cup {t}
      BY <1>14, <2>1
    <3>2. CASE m \in nodes
      <4>1. PICK c \in Path : /\ Len(c) = Len(m) + 1 /\ Touch(c, m)
                              /\ c \in nodes \/ \E k \in 1 .. L : c = stack[k].node
        BY <1>1, <2>1, <3>1, <3>2 DEF CallsInv, CallsAsk
      <4>2. CASE c \in nodes
        BY <3>1, <4>1, <4>2
      <4>3. CASE \E k \in 1 .. L : c = stack[k].node
        <5>1. PICK k \in 1 .. L : c = stack[k].node
          BY <4>3
        <5>2. k = L \/ k \in 1 .. (L - 1)
          OBVIOUS
        <5>3. CASE k = L
          BY <1>7, <3>1, <4>1, <5>1, <5>3
        <5>4. CASE k \in 1 .. (L - 1)
          BY <4>1, <5>1, <5>4
        <5> QED BY <5>2, <5>3, <5>4
      <4> QED BY <4>1, <4>2, <4>3
    <3>3. CASE m = t
      <4>1. PICK c \in Path : c = stack[L - 1].node
        BY <1>4, <1>6
      <4>2. Len(c) = Len(t) + 1 /\ Touch(c, t)
        BY <1>1, <1>4, <1>7, <4>1 DEF CallsInv, CallsAscend
      <4>3. L - 1 \in 1 .. (L - 1)
        BY <1>4
      <4> QED BY <3>3, <4>1, <4>2, <4>3
    <3> QED BY <3>1, <3>2, <3>3
  <2> QED BY <1>3, <2>1 DEF CallsAsk
<1>17. CallsKeepRoot(rest, old)
  <2>1. 1 \in 1 .. (L - 1)
    BY <1>4
  <2> QED BY <1>3, <2>1 DEF CallsInv, CallsKeepRoot
<1> QED BY <1>3, <1>12, <1>13, <1>15, <1>16, <1>17 DEF CallsInv

(* and so is the tree, for no coarser leaf is left that touches the node. *)
LEMMA ReturnKeepsTree ==
  ASSUME NEW nodes, TreeInv(nodes), NEW stack, NEW old, CallsInv(nodes, stack, old),
         stack # <<>>, \A m \in stack[Len(stack)].pending : m \in nodes,
         Cardinality(nodes) < MaxRefined
  PROVE  TreeInv(nodes \cup {stack[Len(stack)].node})
<1>1. PICK L \in Nat \ {0} : L = Len(stack)
  BY DEF CallsInv
<1>2. L \in 1 .. L
  BY <1>1
<1>3. PICK t \in LeavesIn(nodes) : t = stack[L].node
  BY <1>1, <1>2 DEF CallsInv, CallsInTree
<1>4. ASSUME NEW b \in LeavesIn(nodes), Len(t) = Len(b) + 1, Touch(t, b)
      PROVE  FALSE
  <2>1. b \in stack[L].pending \/ (L < L /\ b = stack[L + 1].node)
    BY <1>1, <1>2, <1>3, <1>4 DEF CallsInv, CallsWait
  <2>2. b \in nodes
    BY <1>1, <2>1
  <2> QED BY <2>2, LeafInTree DEF TreeInv
<1> QED BY <1>1, <1>3, <1>4, RefinedTree

-----------------------------------------------------------------------------
(* Coarsening. *)

(* The abstract tree counts as this module does. *)
LEMMA SameCardinality ==
  ASSUME NEW S
  PROVE  Tree!Cardinality(S) = Cardinality(S)
BY DEF Tree!Cardinality, Cardinality

(* A node that passes the test of balanced_coarsen can go. *)
LEMMA CoarsenedTree ==
  ASSUME TreeInv(refined), NEW n \in refined, CanCoarsen(n)
  PROVE  TreeInv(refined \ {n})
<1>1. n \in Path /\ Len(n) \in Nat
  BY LengthOfPath DEF TreeInv, TreeSet
<1>2. \A p \in child_pos : Append(n, p) \notin refined
  BY DEF CanCoarsen, children, is_leaf
<1>3. ASSUME NEW a \in LeavesOf(refined), Len(a) > Len(n) + 1, Touch(a, n)
      PROVE  FALSE
  <2>1. a \in Path
    BY LeafHasParent DEF TreeInv
  <2>2. PICK p \in child_pos : Touch(Append(n, p), a)
    BY <1>1, <1>3, <2>1, TouchSymmetric, TouchChild
  <2>3. PICK c : c = Append(n, p)
    OBVIOUS
  <2>4. c \in LeavesOf(refined) /\ Len(c) = Len(n) + 1 /\ c \in children(n)
    BY <1>1, <1>2, <2>3, ChildIsLeaf, ChildPath DEF children
  <2>5. c # a
    BY <1>1, <1>3, <2>4
  <2>6. a \in node_neighbors(c)
    BY <2>2, <2>3, <2>4, <2>5, Complete DEF TreeInv
  <2>7. Len(a) <= Len(n) + 1
    BY <2>4, <2>6 DEF CanCoarsen, node_level
  <2> QED BY <1>1, <1>3, <2>1, <2>7, LengthOfPath
<1>4. Balanced(refined \ {n})
  BY <1>2, <1>3, CoarsenKeeps DEF TreeInv
<1>5. TreeSet(refined \ {n})
  BY <1>2, TreeSetShrinks DEF TreeInv
<1>6. IsFiniteSet(refined \ {n}) /\ Cardinality(refined \ {n}) <= MaxRefined
  <2>1. IsFiniteSet(refined) /\ Cardinality(refined) \in Nat
    BY FS_CardinalityType DEF TreeInv
  <2>2. IsFiniteSet(refined \ {n}) /\ Cardinality(refined \ {n}) = Cardinality(refined) - 1
    BY <2>1, FS_RemoveElement
  <2> QED BY <2>1, <2>2, MaxRefinedAssumption DEF TreeInv
<1> QED BY <1>4, <1>5, <1>6 DEF TreeInv

(* A node that can go without losing the balance passes the test. *)
LEMMA CoarsensWhatItCan ==
  ASSUME TreeInv(refined), NEW n \in refined, \A c \in children(n) : is_leaf(c),
         Balanced(refined \ {n})
  PROVE  CanCoarsen(n)
<1>1. n \in Path /\ Len(n) \in Nat
  BY LengthOfPath DEF TreeInv, TreeSet
<1>2. \A p \in child_pos : Append(n, p) \notin refined
  BY DEF children, is_leaf
<1>3. ASSUME NEW c \in children(n), NEW m \in node_neighbors(c), ~(Len(m) <= Len(n) + 1)
      PROVE  FALSE
  <2>1. PICK p \in child_pos : c = Append(n, p)
    BY DEF children
  <2>2. c \in LeavesOf(refined) /\ Len(c) = Len(n) + 1
    BY <1>1, <1>2, <2>1, ChildIsLeaf, ChildPath
  <2>3. m \in LeavesOf(refined) /\ Touch(c, m)
    BY <2>2, Sound DEF TreeInv
  <2>4. m \in Path /\ Len(m) \in Nat
    BY <2>3, LeafHasParent, LengthOfPath DEF TreeInv
  <2>5. Touch(m, n) /\ Len(m) > Len(n) + 1
    BY <1>1, <1>3, <2>1, <2>3, <2>4, TouchParent, TouchSymmetric
  <2>6. PICK r \in refined, o \in child_pos :
          r \in Path /\ m = Append(r, o) /\ Len(m) = Len(r) + 1
    BY <2>3, LeafHasParent DEF TreeInv
  <2>7. r # n
    BY <1>1, <2>5, <2>6
  <2>8. m \in LeavesOf(refined \ {n})
    BY <2>3, <2>6, <2>7 DEF LeavesOf
  <2>9. CASE n = <<>>
    <3>1. TreeSet(refined \ {n})
      BY <1>2, TreeSetShrinks DEF TreeInv
    <3> QED BY <2>6, <2>7, <2>9, <3>1 DEF TreeSet
  <2>10. CASE n # <<>>
    <3>1. PICK q \in Path, s \in child_pos :
            n = Append(q, s) /\ Len(q) = Len(n) - 1 /\ q = SubSeq(n, 1, Len(n) - 1)
      BY <1>1, <2>10, PathIsChild
    <3>2. q \in refined \ {n}
      <4>1. q \in refined
        BY <2>10, <3>1 DEF TreeInv, TreeSet
      <4>2. q # n
        <5>1. Len(q) # Len(n)
          BY <1>1, <3>1
        <5> QED BY <5>1
      <4> QED BY <4>1, <4>2
    <3>3. n \in LeavesOf(refined \ {n})
      <4>1. n \notin refined \ {n}
        OBVIOUS
      <4> QED BY <3>1, <3>2, <4>1, ChildIsLeaf
    <3> QED BY <2>5, <2>8, <3>3, BalancedLeaves
  <2> QED BY <2>9, <2>10
<1> QED BY <1>3 DEF CanCoarsen, node_level

-----------------------------------------------------------------------------
(* The invariant holds. *)

(* The invariant holds in a new tree. *)
LEMMA InitInv == Init => Inv
<1> SUFFICES ASSUME Init PROVE Inv
  OBVIOUS
<1>1. refined = {} /\ calls = <<>>
  BY DEF Init, Tree!Init
<1>2. TreeSet({})
  BY DEF TreeSet
<1>3. Balanced({})
  BY BalancedLeaves DEF LeavesOf
<1>4. IsFiniteSet({}) /\ Cardinality({}) = 0
  BY FS_EmptySet
<1>5. TreeInv(refined)
  BY <1>1, <1>2, <1>3, <1>4, MaxRefinedAssumption DEF TreeInv
<1> QED BY <1>1, <1>5, NoCalls DEF Inv

(* Every step keeps the invariant. *)
LEMMA NextInv == Inv /\ [Next]_vars => Inv'
<1> SUFFICES ASSUME Inv, [Next]_vars PROVE Inv'
  OBVIOUS
<1>0. TreeInv(refined) /\ CallsInv(refined, calls, before)
  BY DEF Inv
<1>1. ASSUME NEW n \in Tree!Leaves, balanced_refine(n)
      PROVE  Inv'
  <2>1. PICK c : c = Call(n)
    OBVIOUS
  <2>2. calls' = <<c>> /\ before' = refined /\ refined' = refined
    BY <1>1, <2>1 DEF balanced_refine
  <2>3. CallsInv(refined, <<c>>, refined)
    BY <1>0, <2>1, CallFacts, StartKeeps
  <2> QED BY <1>0, <2>2, <2>3 DEF Inv
<1>2. ASSUME VisitNeighbor
      PROVE  Inv'
  <2>1. PICK m \in top.pending :
          /\ is_leaf(m)
          /\ calls' = Returned \o <<[top EXCEPT !.pending = @ \ {m}], Call(m)>>
    BY <1>2 DEF VisitNeighbor
  <2>2. calls # <<>> /\ refined' = refined /\ before' = before
    BY <1>2 DEF VisitNeighbor
  <2>3. m \notin refined /\ m \in calls[Len(calls)].pending
    BY <2>1 DEF is_leaf, top
  <2>4. m \in LeavesIn(refined)
    <3>1. Len(calls) \in 1 .. Len(calls)
      BY <1>0, <2>2 DEF CallsInv
    <3> QED BY <1>0, <2>3, <3>1 DEF CallsInv, CallsInTree
  <2>5. m \in Tree!Leaves
    BY <2>4 DEF Tree!Leaves, LeavesIn, LeavesOf
  <2>6. PICK c : c = Call(m)
    OBVIOUS
  <2>7. c \in CallRecord /\ c.node = m /\ c.pending = Coarser(refined, m)
    BY <1>0, <2>5, <2>6, CallFacts
  <2>8. CallsInv(refined,
                 SubSeq(calls, 1, Len(calls) - 1)
                   \o <<[calls[Len(calls)] EXCEPT !.pending = @ \ {m}], c>>,
                 before)
    BY <1>0, <2>2, <2>3, <2>7, VisitKeeps
  <2>9. calls' = SubSeq(calls, 1, Len(calls) - 1)
                   \o <<[calls[Len(calls)] EXCEPT !.pending = @ \ {m}], c>>
    BY <2>1, <2>6 DEF top, Returned
  <2> QED BY <1>0, <2>2, <2>8, <2>9 DEF Inv
<1>3. ASSUME RefineNode
      PROVE  Inv'
  <2>1. PICK t : t = calls[Len(calls)].node
    OBVIOUS
  <2>2. PICK rest : rest = SubSeq(calls, 1, Len(calls) - 1)
    OBVIOUS
  <2>3. /\ calls # <<>>
        /\ \A m \in calls[Len(calls)].pending : m \in refined
        /\ calls' = rest
        /\ before' = IF rest = <<>> THEN {} ELSE before
    BY <1>3, <2>2 DEF RefineNode, top, is_leaf, Returned
  <2>4. \/ Cardinality(refined) < MaxRefined /\ refined' = refined \cup {t}
        \/ Cardinality(refined) >= MaxRefined /\ refined' = refined
    <3>1. top.node = t
      BY <2>1 DEF top
    <3>2. Tree!Refine(t) \/ (Cardinality(refined) >= MaxRefined /\ refined' = refined)
      BY <1>3, <3>1 DEF RefineNode
    <3>3. Tree!Refine(t) => Cardinality(refined) < MaxRefined /\ refined' = refined \cup {t}
      BY SameCardinality DEF Tree!Refine
    <3> QED BY <3>2, <3>3
  <2>5. PICK new : new = refined'
    OBVIOUS
  <2>6. TreeInv(new)
    <3>1. CASE Cardinality(refined) < MaxRefined /\ refined' = refined \cup {t}
      BY <1>0, <2>1, <2>3, <2>5, <3>1, ReturnKeepsTree
    <3>2. CASE refined' = refined
      BY <1>0, <2>5, <3>2
    <3> QED BY <2>4, <3>1, <3>2
  <2>7. CallsInv(new, rest, IF rest = <<>> THEN {} ELSE before)
    <3>1. CASE rest = <<>>
      BY <3>1, NoCalls
    <3>2. CASE rest # <<>>
      BY <1>0, <2>1, <2>2, <2>3, <2>4, <2>5, <3>2, ReturnKeeps
    <3> QED BY <3>1, <3>2
  <2> QED BY <2>3, <2>5, <2>6, <2>7 DEF Inv
<1>4. ASSUME NEW n \in refined, balanced_coarsen(n)
      PROVE  Inv'
  <2>1. calls = <<>> /\ calls' = <<>> /\ before' = before /\ CanCoarsen(n)
        /\ refined' = refined \ {n}
    BY <1>4 DEF balanced_coarsen, Tree!Coarsen
  <2>2. PICK new : new = refined \ {n}
    OBVIOUS
  <2>3. TreeInv(new)
    BY <1>0, <2>1, <2>2, CoarsenedTree
  <2>4. CallsInv(new, <<>>, before)
    BY NoCalls
  <2> QED BY <2>1, <2>2, <2>3, <2>4 DEF Inv
<1>5. CASE UNCHANGED vars
  BY <1>0, <1>5 DEF Inv, vars
<1> QED BY <1>1, <1>2, <1>3, <1>4, <1>5 DEF Next

(* The strengthened invariant: the calls in progress climb from finer to     *)
(* coarser leaves that touch, and every coarser leaf that touches the node   *)
(* of a call is waited for, unless the tree is full.                         *)
THEOREM InvHolds == Spec => []Inv
<1>1. Init => Inv
  BY InitInv
<1>2. Inv /\ [Next]_vars => Inv'
  BY NextInv
<1> QED BY <1>1, <1>2, PTL DEF Spec

(* The leaves of the tree that touch, be it in a corner, differ by one level *)
(* at most, in every state between the steps of balanced_refine and          *)
(* balanced_coarsen, also when the tree is full: for every number of         *)
(* dimensions and every size of the tree.                                    *)
THEOREM TwoToOneHolds == Spec => []TwoToOne
<1>1. Inv => TwoToOne
  BY DEF Inv, TreeInv, TwoToOne
<1> QED BY <1>1, InvHolds, PTL

(* Between two operations node_neighbors finds the leaves that touch a leaf, *)
(* and no other node: none is missed and none is reported that does not      *)
(* touch.                                                                    *)
THEOREM NeighborsExactHolds == Spec => []NeighborsExact
<1>1. Inv => NeighborsExact
  BY SearchExact DEF Inv, TreeInv, NeighborsExact
<1> QED BY <1>1, InvHolds, PTL

(* balanced_coarsen coarsens every node that can go without losing the       *)
(* balance, and no other.                                                    *)
THEOREM CoarsensWhatItMayHolds == Spec => []CoarsensWhatItMay
<1>1. Inv => CoarsensWhatItMay
  <2> SUFFICES ASSUME Inv, NEW n \in refined, \A c \in children(n) : is_leaf(c)
               PROVE  CanCoarsen(n) <=> Balanced(refined \ {n})
    BY DEF CoarsensWhatItMay
  <2>1. CanCoarsen(n) => Balanced(refined \ {n})
    BY CoarsenedTree DEF Inv, TreeInv
  <2>2. Balanced(refined \ {n}) => CanCoarsen(n)
    BY CoarsensWhatItCan DEF Inv
  <2> QED BY <2>1, <2>2
<1> QED BY <1>1, InvHolds, PTL

(* What the end of the outermost call leaves: every node refined since its   *)
(* start, but the one asked for, is one the balance needs.                   *)
LEMMA NeededAtTheEnd ==
  ASSUME NEW nodes, TreeInv(nodes), NEW stack, NEW old, CallsInv(nodes, stack, old),
         Len(stack) = 1, NEW n, n = stack[1].node, Cardinality(nodes) < MaxRefined,
         TreeInv(nodes \cup {n}),
         NEW m \in nodes \ (old \cup {n})
  PROVE  ~Balanced((nodes \cup {n}) \ {m})
<1>1. stack # <<>> /\ 1 .. Len(stack) = {1}
  OBVIOUS
<1>2. m \in Path /\ Len(m) \in Nat
  BY LengthOfPath DEF TreeInv, TreeSet
<1>3. PICK c \in Path : /\ Len(c) = Len(m) + 1 /\ Touch(c, m)
                        /\ c \in nodes \/ c = n
  BY <1>1 DEF CallsInv, CallsAsk
<1>4. PICK less : less = (nodes \cup {n}) \ {m}
  OBVIOUS
<1>5. c \in less
  BY <1>2, <1>3, <1>4
<1>6. less \in SUBSET Path /\ IsFiniteSet(less)
  <2>1. IsFiniteSet(nodes \cup {n}) /\ nodes \cup {n} \in SUBSET Path
    BY DEF TreeInv, TreeSet
  <2>2. less \in SUBSET (nodes \cup {n})
    BY <1>4
  <2> QED BY <2>1, <2>2, FS_Subset
<1>7. PICK b \in LeavesOf(less) : Touch(b, m) /\ Len(b) > Len(c)
  BY <1>2, <1>3, <1>5, <1>6, DeepLeaf
<1>8. m # <<>>
  BY <1>1 DEF CallsInv, CallsKeepRoot
<1>9. PICK q \in Path, s \in child_pos :
        m = Append(q, s) /\ Len(q) = Len(m) - 1 /\ q = SubSeq(m, 1, Len(m) - 1)
  BY <1>2, <1>8, PathIsChild
<1>10. q \in less
  <2>1. q \in nodes
    BY <1>8, <1>9 DEF TreeInv, TreeSet
  <2>2. Len(q) # Len(m)
    BY <1>2, <1>9
  <2>3. q # m
    BY <2>2
  <2> QED BY <1>4, <2>1, <2>3
<1>11. m \in LeavesOf(less)
  <2>1. m \notin less
    BY <1>4
  <2> QED BY <1>9, <1>10, <2>1, ChildIsLeaf
<1>12. Len(b) > Len(m) + 1
  BY <1>3, <1>7
<1> QED BY <1>4, <1>7, <1>11, <1>12, BalancedLeaves

(* balanced_refine refines its node unless the tree is full, and then no     *)
(* more nodes than the balance asks for.                                     *)
THEOREM RefinesWhatItMustHolds == Spec => RefinesWhatItMust
<1> DEFINE Smallest ==
      \A n \in {calls[1].node : k \in DOMAIN calls \cap {1}} :
        calls' = <<>> =>
          \/ n \notin refined' /\ Cardinality(refined') = MaxRefined
          \/ /\ n \in refined'
             /\ \A m \in refined' \ (before \cup {n}) : ~Balanced(refined' \ {m})
<1>1. Inv /\ Inv' /\ [Next]_vars => [Smallest]_vars
  <2> SUFFICES ASSUME Inv, Inv', Next, calls' = <<>>,
                      NEW n \in {calls[1].node : k \in DOMAIN calls \cap {1}}
               PROVE  \/ n \notin refined' /\ Cardinality(refined') = MaxRefined
                      \/ /\ n \in refined'
                         /\ \A m \in refined' \ (before \cup {n}) : ~Balanced(refined' \ {m})
    OBVIOUS
  <2>1. TreeInv(refined) /\ CallsInv(refined, calls, before) /\ TreeInv(refined')
    BY DEF Inv
  <2>2. calls \in Seq(CallRecord) /\ calls # <<>> /\ n = calls[1].node
    BY <2>1 DEF CallsInv
  <2>3. ~VisitNeighbor
    <3> SUFFICES ASSUME VisitNeighbor PROVE FALSE
      OBVIOUS
    <3>1. PICK m \in top.pending :
            calls' = Returned \o <<[top EXCEPT !.pending = @ \ {m}], Call(m)>>
      BY DEF VisitNeighbor
    <3>2. PICK a, b : a = [top EXCEPT !.pending = @ \ {m}] /\ b = Call(m)
      OBVIOUS
    <3>3. PICK r \in Seq(CallRecord) : r = Returned
      BY <2>2, FrontOfStack DEF Returned
    <3>4. calls' = r \o <<a, b>>
      BY <3>1, <3>2, <3>3
    <3>5. Len(r \o <<a, b>>) # 0
      OBVIOUS
    <3> QED BY <3>4, <3>5
  <2>4. RefineNode
    BY <2>2, <2>3 DEF Next, balanced_refine, balanced_coarsen
  <2>5. Len(calls) = 1
    <3>1. PICK r : r = SubSeq(calls, 1, Len(calls) - 1)
      OBVIOUS
    <3>2. r = <<>>
      BY <2>4, <3>1 DEF RefineNode, Returned
    <3>3. Len(r) = Len(calls) - 1 /\ Len(r) = 0
      BY <2>2, <3>1, <3>2, FrontOfStack
    <3> QED BY <2>2, <3>3
  <2>6. top.node = n
    BY <2>2, <2>5 DEF top
  <2>7. CASE Tree!Refine(n)
    <3>1. Cardinality(refined) < MaxRefined /\ refined' = refined \cup {n}
      BY <2>7, SameCardinality DEF Tree!Refine
    <3>2. ASSUME NEW m \in refined' \ (before \cup {n})
          PROVE  ~Balanced(refined' \ {m})
      <4>1. m \in refined \ (before \cup {n}) /\ TreeInv(refined \cup {n})
        BY <2>1, <3>1, <3>2
      <4> QED BY <2>1, <2>2, <2>5, <3>1, <4>1, NeededAtTheEnd
    <3> QED BY <3>1, <3>2
  <2>8. CASE Cardinality(refined) >= MaxRefined /\ refined' = refined
    <3>1. n \notin refined
      <4>1. n \in LeavesIn(refined)
        BY <2>1, <2>2, <2>5 DEF CallsInv, CallsInTree
      <4> QED BY <2>1, <4>1, LeafInTree DEF TreeInv
    <3>2. Cardinality(refined) = MaxRefined
      <4>1. Cardinality(refined) \in Nat /\ Cardinality(refined) <= MaxRefined
        BY <2>1, FS_CardinalityType DEF TreeInv
      <4> QED BY <2>8, <4>1, MaxRefinedAssumption
    <3> QED BY <2>8, <3>1, <3>2
  <2> QED BY <2>4, <2>6, <2>7, <2>8 DEF RefineNode
<1>2. Spec => [][Smallest]_vars
  BY <1>1, InvHolds, PTL DEF Spec
<1> QED BY <1>2 DEF RefinesWhatItMust
=============================================================================
