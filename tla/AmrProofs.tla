----------------------------- MODULE AmrProofs -----------------------------
(***************************************************************************)
(* Theorems about Amr, for every dimension, every capacity of the tree and *)
(* any set of target levels.                                               *)
(*                                                                         *)
(* The enforcement: a round settles the marks of one level more than the   *)
(* round before, from the finest level to the coarsest, for a mark depends *)
(* on marks of finer levels; so the rounds are bounded, and when a round   *)
(* changes nothing all levels are settled.  For a grid this means, by the  *)
(* exactness of the neighbour search (BalancedProofs), that the tree is    *)
(* balanced once all groups are coarsened, and that each leaf to refine    *)
(* has its coarser neighbours marked.                                      *)
(***************************************************************************)
EXTENDS Amr, RelationsProofs

(* What is proved of the search and of the balance, for the tree of a        *)
(* target.                                                                   *)
BP == INSTANCE BalancedProofs WITH calls <- <<>>, before <- {}

-----------------------------------------------------------------------------
(* The geometry and the search, from BalancedProofs. *)

(* The nodes with children of a tree: each has the nodes above it. *)
TreeSet(nodes) ==
  /\ nodes \subseteq Path
  /\ \A r \in nodes : r # <<>> => parent(r) \in nodes
  /\ nodes # {} => <<>> \in nodes

(* BalancedProofs and this module speak of the same paths and positions. *)
LEMMA SamePaths ==
  BP!Path = Path /\ BP!child_pos = child_pos /\ Bal!child_pos = child_pos
BY DEF BP!child_pos, BP!no_children, Bal!child_pos, Bal!no_children, child_pos,
       no_children, BP!Path, Path

(* ... of the same contact of two nodes. *)
LEMMA SameTouch ==
  \A a, b : BP!Touch(a, b) <=> Bal!Touch(a, b)
BY DEF BP!Touch, Bal!Touch, BP!Lower, Bal!Lower, BP!Upper, Bal!Upper, BP!Coordinate,
       Bal!Coordinate, BP!bit, Bal!bit, BP!Dimension, Bal!Dimension, BP!node_level,
       Bal!node_level

(* ... of the same balance of a tree. *)
LEMMA SameBalanced ==
  \A nodes : BP!Balanced(nodes) <=> Bal!Balanced(nodes)
BY DEF BP!Balanced, Bal!Balanced, BP!node_level, Bal!node_level, BP!child_pos,
       Bal!child_pos, BP!no_children, Bal!no_children, BP!Touch, Bal!Touch, BP!Lower,
       Bal!Lower, BP!Upper, Bal!Upper, BP!Coordinate, Bal!Coordinate, BP!bit, Bal!bit,
       BP!Dimension, Bal!Dimension

(* ... of the same neighbour search (node_neighbors.hpp). *)
LEMMA SameSearch ==
  \A n : BP!node_neighbors(n) = Bal!node_neighbors(n)
BY DEF BP!node_neighbors, Bal!node_neighbors, BP!neighbors_at, Bal!neighbors_at,
       BP!Neighbor, Bal!Neighbor, BP!neighbor_idx, Bal!neighbor_idx, BP!Manifold,
       Bal!Manifold, BP!neighbor_lookup_table, Bal!neighbor_lookup_table, BP!offset,
       Bal!offset, BP!shift_location, Bal!shift_location, BP!Coordinate, Bal!Coordinate,
       BP!bit, Bal!bit, BP!Dimension, Bal!Dimension, BP!PathTo, Bal!PathTo, BP!child_pos,
       Bal!child_pos, BP!no_children, Bal!no_children, BP!is_leaf, Bal!is_leaf,
       BP!children_sharing_face, Bal!children_sharing_face,
       BP!neighbor_children_sharing_face, Bal!neighbor_children_sharing_face,
       BP!node_or_parent_at, Bal!node_or_parent_at, BP!Tree!Exists, Bal!Tree!Exists,
       BP!Max, Bal!Max

(* ... of the same test before coarsening (balanced_coarsen.hpp). *)
LEMMA SameCoarsening ==
  \A n : BP!CanCoarsen(n) <=> Bal!CanCoarsen(n)
BY SameSearch DEF BP!CanCoarsen, Bal!CanCoarsen, BP!is_leaf, Bal!is_leaf, BP!children,
       Bal!children, BP!child_pos, Bal!child_pos, BP!no_children, Bal!no_children,
       BP!node_level, Bal!node_level

(* ... of the same trees. *)
LEMMA SameTreeSet ==
  \A nodes : BP!TreeSet(nodes) <=> TreeSet(nodes)
BY SamePaths DEF BP!TreeSet, TreeSet, parent, Front

(* ... of the same finite sets. *)
LEMMA SameFinite ==
  \A S : (BP!IsFiniteSet(S) <=> IsFiniteSet(S)) /\ BP!Cardinality(S) = Cardinality(S)
BY DEF BP!IsFiniteSet, IsFiniteSet, BP!Cardinality, Cardinality

(* Contact is symmetric. *)
LEMMA TouchMutual ==
  ASSUME NEW a, NEW b, Bal!Touch(a, b)
  PROVE  Bal!Touch(b, a)
BY SameTouch, BP!TouchSymmetric, AmrAssumption, NdAssumption

(* What touches a child touches its parent. *)
LEMMA ParentTouches ==
  ASSUME NEW n \in Path, NEW p \in child_pos, NEW a \in Path, Bal!Touch(Append(n, p), a)
  PROVE  Bal!Touch(n, a)
BY SameTouch, SamePaths, BP!TouchParent, AmrAssumption, NdAssumption

(* What touches a node touches one of its children. *)
LEMMA ChildTouches ==
  ASSUME NEW n \in Path, NEW a \in Path, Bal!Touch(n, a)
  PROVE  \E p \in child_pos : Bal!Touch(Append(n, p), a)
BY SameTouch, SamePaths, BP!TouchChild, AmrAssumption, NdAssumption

-----------------------------------------------------------------------------
(* Trees and their leaves. *)

(* A child, its parent, and its length. *)
LEMMA ChildOf ==
  ASSUME NEW n \in Path, NEW p \in child_pos
  PROVE  /\ Append(n, p) \in Path /\ Append(n, p) # <<>>
         /\ parent(Append(n, p)) = n /\ Len(Append(n, p)) = Len(n) + 1 /\ Len(n) \in Nat
         /\ \A q \in Path, o \in child_pos : Append(n, p) = Append(q, o) => n = q /\ p = o
BY ChildPath DEF parent, Front

(* A node other than the root is a child of its parent. *)
LEMMA ParentOf ==
  ASSUME NEW n \in Path, n # <<>>
  PROVE  /\ parent(n) \in Path /\ Len(n) = Len(parent(n)) + 1 /\ Len(parent(n)) \in Nat
         /\ \E p \in child_pos : n = Append(parent(n), p)
<1>1. PICK q \in Path, p \in child_pos :
        n = Append(q, p) /\ Len(q) = Len(n) - 1 /\ q = SubSeq(n, 1, Len(n) - 1)
  BY PathIsChild
<1>2. parent(n) = q
  BY <1>1 DEF parent, Front
<1> QED BY <1>1, <1>2, ChildOf

(* The root is a path of length zero. *)
LEMMA RootPath ==
  <<>> \in Path /\ Len(<<>>) = 0
BY DEF Path

(* A leaf is a path without children, and its parent has children. *)
LEMMA LeafFacts ==
  ASSUME NEW nodes, TreeSet(nodes), NEW n \in Leaves(nodes)
  PROVE  /\ n \in Path /\ n \notin nodes /\ Len(n) \in Nat
         /\ n # <<>> => parent(n) \in nodes
         /\ n = <<>> => nodes = {}
<1>1. n \notin nodes
  BY DEF Leaves
<1>2. CASE n = <<>>
  BY <1>1, <1>2, RootPath DEF TreeSet
<1>3. CASE n # <<>>
  <2>1. PICK r \in nodes, p \in child_pos : n = Append(r, p)
    BY <1>3 DEF Leaves
  <2>2. r \in Path
    BY DEF TreeSet
  <2>3. Len(n) \in Nat
    BY <2>1, <2>2, ChildOf
  <2> QED BY <1>1, <1>3, <2>1, <2>2, <2>3, ChildOf
<1> QED BY <1>2, <1>3

(* A child of a refined node is refined or a leaf, and so is the root. *)
LEMMA ChildInTree ==
  ASSUME NEW nodes, NEW n \in nodes, NEW p \in child_pos
  PROVE  Append(n, p) \in nodes \cup Leaves(nodes)
BY DEF Leaves

(* A node without children, of a parent with children, is a leaf. *)
LEMMA LeafByParent ==
  ASSUME NEW nodes, NEW n \in Path, n # <<>>, parent(n) \in nodes, n \notin nodes
  PROVE  n \in Leaves(nodes)
<1>1. PICK p \in child_pos : n = Append(parent(n), p)
  BY ParentOf
<1> QED BY <1>1 DEF Leaves

(* The root is a node of every tree. *)
LEMMA RootInTree ==
  ASSUME NEW nodes
  PROVE  <<>> \in nodes \cup Leaves(nodes)
BY DEF Leaves

(* The leaves of the target's tree are the leaves of the abstract tree. *)
LEMMA SameLeaves ==
  ASSUME TreeSet(refined)
  PROVE  BP!Tree!Leaves = Leaves(refined)
<1>1. \A r \in refined, p \in child_pos : r \in Path /\ Append(r, p) # <<>>
  BY ChildOf DEF TreeSet
<1>2. refined # {} => <<>> \in refined
  BY DEF TreeSet
<1> QED BY <1>1, <1>2, SamePaths DEF BP!Tree!Leaves, Leaves

(* The search finds the leaves that touch a leaf. *)
LEMMA SearchFindsLeaves ==
  ASSUME TreeSet(refined), IsFiniteSet(refined), Bal!Balanced(refined),
         NEW n \in Leaves(refined)
  PROVE  Bal!node_neighbors(n) = {m \in Leaves(refined) \ {n} : Bal!Touch(n, m)}
<1>1. BP!TreeSet(refined) /\ BP!IsFiniteSet(refined) /\ BP!Balanced(refined)
  BY SameTreeSet, SameFinite, SameBalanced
<1>2. n \in BP!Tree!Leaves
  BY SameLeaves
<1>3. BP!node_neighbors(n) = {m \in BP!Tree!Leaves \ {n} : BP!Touch(n, m)}
  BY <1>1, <1>2, BP!SearchExact, AmrAssumption, NdAssumption
<1> QED BY <1>3, SameSearch, SameTouch, SameLeaves

(* Leaves of a balanced tree that touch differ by one level at most. *)
LEMMA BalancedMeans ==
  ASSUME NEW nodes, TreeSet(nodes)
  PROVE  Bal!Balanced(nodes) <=>
           \A a, b \in Leaves(nodes) : Len(a) > Len(b) + 1 => ~Bal!Touch(a, b)
<1> DEFINE proper == {n \in {Append(r, p) : r \in nodes, p \in child_pos} : n \notin nodes}
<1>1. Bal!Balanced(nodes) <=>
        \A a, b \in proper : Len(a) > Len(b) + 1 => ~Bal!Touch(a, b)
  BY SamePaths DEF Bal!Balanced, Bal!node_level
<1>2. CASE nodes = {}
  <2>1. proper = {} /\ Leaves(nodes) = {<<>>}
    BY <1>2 DEF Leaves
  <2>2. \A a, b \in Leaves(nodes) : ~(Len(a) > Len(b) + 1)
    BY <2>1, RootPath
  <2> HIDE DEF proper
  <2> QED BY <1>1, <2>1, <2>2
<1>3. CASE nodes # {}
  <2>1. Leaves(nodes) = proper
    BY <1>3 DEF Leaves, TreeSet
  <2> HIDE DEF proper
  <2> QED BY <1>1, <2>1
<1> QED BY <1>2, <1>3

-----------------------------------------------------------------------------
(* Refining and coarsening. *)

(* The length of a path is a number. *)
LEMMA LengthOfPath ==
  ASSUME NEW n \in Path
  PROVE  Len(n) \in Nat
BY DEF Path

(* The children of a set of nodes. *)
Children(S) == UNION {{Append(m, p) : p \in child_pos} : m \in S}

(* A node is among the children of a set if its parent is in the set. *)
LEMMA ChildrenOf ==
  ASSUME NEW S, NEW x
  PROVE  x \in Children(S) <=> \E m \in S, p \in child_pos : x = Append(m, p)
BY DEF Children

(* A tree without the children of some nodes, which were leaves. *)
LEMMA CoarsenedLeaves ==
  ASSUME NEW nodes, TreeSet(nodes), NEW less \in SUBSET nodes,
         \A n \in less, p \in child_pos : Append(n, p) \notin nodes
  PROVE  /\ TreeSet(nodes \ less)
         /\ Leaves(nodes \ less) = (Leaves(nodes) \ Children(less)) \cup less
<1>1. \A n \in less : n \in Path
  BY DEF TreeSet
<1>2. ASSUME NEW r \in nodes, r # <<>>
      PROVE  parent(r) \in nodes \ less
  <2>1. r \in Path /\ parent(r) \in nodes
    BY <1>2 DEF TreeSet
  <2>2. PICK p \in child_pos : r = Append(parent(r), p)
    BY <1>2, <2>1, ParentOf
  <2> QED BY <2>1, <2>2
<1>3. ASSUME <<>> \in less
      PROVE  nodes = {<<>>}
  <2>1. SUFFICES ASSUME NEW r \in nodes, r # <<>> PROVE FALSE
    BY <1>3
  <2>3. \A m \in nodes : m # <<>> => parent(m) \in nodes /\ parent(m) # <<>>
    BY <1>3, <1>2
  <2>4. PICK S : S = {Len(m) : m \in {k \in nodes : k # <<>>}}
    OBVIOUS
  <2>5. \A m \in nodes : m \in Path /\ Len(m) \in Nat
    BY LengthOfPath DEF TreeSet
  <2>6. S \in SUBSET Nat /\ S # {}
    BY <2>1, <2>4, <2>5
  <2>7. PICK l \in S : \A k \in S : l <= k
    BY <2>6, LeastNumber
  <2>8. PICK m \in nodes : m # <<>> /\ l = Len(m)
    BY <2>4
  <2>9. /\ parent(m) \in nodes /\ parent(m) # <<>>
        /\ Len(m) = Len(parent(m)) + 1 /\ Len(parent(m)) \in Nat
    BY <2>3, <2>5, <2>8, ParentOf
  <2>10. Len(parent(m)) \in S
    BY <2>4, <2>9
  <2> QED BY <2>7, <2>8, <2>9, <2>10
<1>4. TreeSet(nodes \ less)
  BY <1>2, <1>3 DEF TreeSet
<1>5. ASSUME NEW x \in Leaves(nodes \ less), x \notin less
      PROVE  x \in Leaves(nodes) \ Children(less)
  <2>2. x \notin nodes
    BY <1>5 DEF Leaves
  <2>3. CASE x = <<>>
    <3>1. \A n \in less, p \in child_pos : x # Append(n, p)
      BY <2>3, <1>1, ChildOf
    <3> QED BY <2>2, <2>3, <3>1, RootInTree, ChildrenOf
  <2>4. CASE x # <<>>
    <3>1. PICK r \in nodes \ less, p \in child_pos : x = Append(r, p)
      BY <2>4 DEF Leaves
    <3>2. r \in Path
      BY DEF TreeSet
    <3>3. \A n \in less, o \in child_pos : x # Append(n, o)
      BY <3>1, <3>2, <1>1, ChildOf
    <3>4. x \notin Children(less)
      BY <3>3, ChildrenOf
    <3>5. x \in nodes \cup Leaves(nodes)
      BY <3>1, ChildInTree
    <3> QED BY <2>2, <3>4, <3>5
  <2> QED BY <2>3, <2>4
<1>6. ASSUME NEW x \in Leaves(nodes), x \notin Children(less)
      PROVE  x \in Leaves(nodes \ less)
  <2>1. \A n \in less, p \in child_pos : x # Append(n, p)
    BY <1>6, ChildrenOf
  <2> QED BY <2>1 DEF Leaves
<1>7. ASSUME NEW n \in less
      PROVE  n \in Leaves(nodes \ less)
  <2>1. CASE n = <<>>
    BY <2>1 DEF Leaves
  <2>2. CASE n # <<>>
    <3>1. parent(n) \in nodes \ less
      BY <2>2, <1>2
    <3> QED BY <2>2, <3>1, <1>1, LeafByParent
  <2> QED BY <2>1, <2>2
<1> QED BY <1>4, <1>5, <1>6, <1>7

(* A tree in which some leaves have been refined. *)
LEMMA RefinedLeaves ==
  ASSUME NEW nodes, TreeSet(nodes), NEW more \in SUBSET Leaves(nodes)
  PROVE  /\ TreeSet(nodes \cup more)
         /\ Leaves(nodes \cup more) =
              (Leaves(nodes) \ more) \cup Children(more)
<1> DEFINE new == Children(more)
<1>1. \A m \in more : /\ m \in Path /\ m \notin nodes
                      /\ m # <<>> => parent(m) \in nodes
                      /\ m = <<>> => nodes = {}
  BY LeafFacts
<1>2. TreeSet(nodes \cup more)
  <2>1. nodes \cup more \subseteq Path
    BY <1>1 DEF TreeSet
  <2>2. \A r \in nodes \cup more : r # <<>> => parent(r) \in nodes \cup more
    BY <1>1 DEF TreeSet
  <2>3. nodes \cup more # {} => <<>> \in nodes \cup more
    BY <1>1 DEF TreeSet
  <2> QED BY <2>1, <2>2, <2>3 DEF TreeSet
<1>3. ASSUME NEW m \in more, NEW p \in child_pos
      PROVE  Append(m, p) \in Leaves(nodes \cup more)
  <2>1. m \in Path /\ Append(m, p) \in Path /\ Append(m, p) # <<>> /\ parent(Append(m, p)) = m
    BY <1>1, ChildOf
  <2>2. Append(m, p) \notin nodes
    BY <2>1, <1>1 DEF TreeSet
  <2>3. Append(m, p) \notin more
    BY <2>1, <1>1
  <2> QED BY <2>1, <2>2, <2>3, LeafByParent
<1>4. ASSUME NEW x \in Leaves(nodes), x \notin more
      PROVE  x \in Leaves(nodes \cup more)
  BY <1>4 DEF Leaves
<1>5. ASSUME NEW x \in Leaves(nodes \cup more), x \notin new
      PROVE  x \in Leaves(nodes) \ more
  BY <1>5, ChildrenOf DEF Leaves
<1>6. new \subseteq Leaves(nodes \cup more)
  <2>1. ASSUME NEW x \in new PROVE \E m \in more, p \in child_pos : x = Append(m, p)
    BY ChildrenOf
  <2> QED BY <1>3, <2>1
<1>7. more \cap Leaves(nodes \cup more) = {}
  BY DEF Leaves
<1>8. Leaves(nodes \cup more) = (Leaves(nodes) \ more) \cup new
  BY <1>4, <1>5, <1>6, <1>7
<1> QED BY <1>2, <1>8

(* A tree of finitely many nodes has finitely many leaves. *)
LEMMA LeavesFinite ==
  ASSUME NEW nodes, IsFiniteSet(nodes)
  PROVE  IsFiniteSet(Leaves(nodes))
<1>1. IsFiniteSet(child_pos)
  <2>1. child_pos = 0 .. 2^Nd - 1 /\ 2^Nd \in Nat \ {0}
    BY NdAssumption, PowerOfTwo DEF child_pos, no_children
  <2> QED BY <2>1, FS_Interval
<1>2. PICK pairs : pairs = nodes \X child_pos
  OBVIOUS
<1>3. IsFiniteSet(pairs)
  BY <1>1, <1>2, FS_Product
<1>4. PICK f : f = [x \in pairs |-> Append(x[1], x[2])]
  OBVIOUS
<1>5. PICK T : T = {f[x] : x \in pairs}
  OBVIOUS
<1>6. f \in Surjection(pairs, T)
  BY <1>4, <1>5 DEF Surjection
<1>7. IsFiniteSet(T)
  BY <1>3, <1>6, FS_Surjection
<1>8. IsFiniteSet(T \cup {<<>>})
  BY <1>7, FS_AddElement
<1>9. ASSUME NEW n \in Leaves(nodes), n # <<>>
      PROVE  n \in T
  <2>1. PICK r \in nodes, p \in child_pos : n = Append(r, p)
    BY <1>9 DEF Leaves
  <2>2. <<r, p>> \in pairs /\ f[<<r, p>>] = n
    BY <1>2, <1>4, <2>1
  <2> QED BY <1>5, <2>2
<1>10. Leaves(nodes) \in SUBSET (T \cup {<<>>})
  BY <1>9
<1> QED BY <1>8, <1>10, FS_Subset

-----------------------------------------------------------------------------
(* The balance. *)

(* Refining leaves together with the coarser leaves that touch them. *)
LEMMA RefineKeeps ==
  ASSUME NEW nodes, TreeSet(nodes), Bal!Balanced(nodes), NEW more \in SUBSET Leaves(nodes),
         \A m \in more, k \in Leaves(nodes) :
           Bal!Touch(m, k) /\ Len(m) = Len(k) + 1 => k \in more
  PROVE  Bal!Balanced(nodes \cup more)
<1>1. BP!TreeSet(nodes) /\ BP!Balanced(nodes)
  BY SameTreeSet, SameBalanced
<1>2. BP!LeavesIn(nodes) = Leaves(nodes)
  <2>1. \A r \in nodes, p \in child_pos : r \in Path /\ Append(r, p) # <<>>
    BY ChildOf DEF TreeSet
  <2>2. nodes # {} => <<>> \in nodes
    BY DEF TreeSet
  <2> QED BY <2>1, <2>2, SamePaths DEF BP!LeavesIn, BP!LeavesOf, Leaves
<1>3. \A m \in more, k \in BP!LeavesIn(nodes) :
        BP!Touch(m, k) /\ Len(m) = Len(k) + 1 => k \in more
  BY <1>2, SameTouch
<1>4. BP!Balanced(nodes \cup more)
  BY <1>1, <1>2, <1>3, BP!RefineAllKeeps, AmrAssumption, NdAssumption
<1> QED BY <1>4, SameBalanced

(* Coarsening nodes with leaves for children, if each leaf that is too fine *)
(* then goes with them.                                                     *)
LEMMA CoarsenKeeps ==
  ASSUME NEW nodes, TreeSet(nodes), Bal!Balanced(nodes), NEW less \in SUBSET nodes,
         \A n \in less, p \in child_pos : Append(n, p) \notin nodes,
         \A n \in less, p \in child_pos, a \in Leaves(nodes) :
           Bal!Touch(Append(n, p), a) /\ Len(a) = Len(n) + 2 => a \in Children(less)
  PROVE  Bal!Balanced(nodes \ less)
<1>1. TreeSet(nodes \ less)
  BY CoarsenedLeaves
<1>2. \A a, b \in Leaves(nodes) : Len(a) > Len(b) + 1 => ~Bal!Touch(a, b)
  BY BalancedMeans
<1>3. ASSUME NEW x \in Leaves(nodes \ less)
      PROVE  x \in Leaves(nodes) \ Children(less) \/ x \in less
  <2>1. Leaves(nodes \ less) = (Leaves(nodes) \ Children(less)) \cup less
    BY CoarsenedLeaves
  <2> QED BY <2>1
<1>4. \A x \in Leaves(nodes) : x \in Path /\ Len(x) \in Nat
  BY LeafFacts
<1>5. ASSUME NEW n \in less, NEW p \in child_pos
      PROVE  /\ n \in Path /\ Len(n) \in Nat /\ Append(n, p) \in Leaves(nodes)
             /\ Len(Append(n, p)) = Len(n) + 1
  <2>1. n \in Path
    BY DEF TreeSet
  <2>2. Append(n, p) \in nodes \cup Leaves(nodes)
    BY ChildInTree
  <2> QED BY <2>1, <2>2, ChildOf
<1>6. ASSUME NEW a \in Leaves(nodes \ less), NEW b \in Leaves(nodes \ less),
             Len(a) > Len(b) + 1, Bal!Touch(a, b)
      PROVE  FALSE
  <2>1. \A x \in less : x \in Path /\ Len(x) \in Nat
    BY LengthOfPath DEF TreeSet
  <2>2. a \in Path /\ Len(a) \in Nat /\ b \in Path /\ Len(b) \in Nat
    BY <1>3, <1>4, <2>1
  <2>3. CASE a \in less
    <3>1. PICK p \in child_pos : Bal!Touch(Append(a, p), b)
      BY <2>2, <1>6, ChildTouches
    <3>2. PICK c \in Leaves(nodes) : c = Append(a, p) /\ Len(c) = Len(a) + 1 /\ c \in Path
      BY <1>4, <1>5, <2>3
    <3>3. Bal!Touch(c, b)
      BY <3>1, <3>2
    <3>4. CASE b \in Leaves(nodes)
      <4>1. Len(c) > Len(b) + 1
        BY <3>2, <1>6, <2>2
      <4> QED BY <3>3, <3>4, <4>1, <1>2
    <3>5. CASE b \in less
      <4>1. Bal!Touch(b, c)
        BY <3>3, TouchMutual
      <4>2. PICK o \in child_pos : Bal!Touch(Append(b, o), c)
        BY <4>1, <3>2, <2>2, ChildTouches
      <4>3. PICK e \in Leaves(nodes) : e = Append(b, o) /\ Len(e) = Len(b) + 1
        BY <1>5, <3>5
      <4>4. Bal!Touch(c, e)
        BY <4>2, <4>3, TouchMutual
      <4>5. Len(c) > Len(e) + 1
        BY <4>3, <3>2, <1>6, <2>2
      <4> QED BY <4>4, <4>5, <1>2
    <3> QED BY <3>4, <3>5, <1>3
  <2>4. CASE a \in Leaves(nodes) \ Children(less)
    <3>1. CASE b \in Leaves(nodes)
      BY <2>4, <3>1, <1>2, <1>6
    <3>2. CASE b \in less
      <4>1. Bal!Touch(b, a)
        BY <1>6, TouchMutual
      <4>2. PICK o \in child_pos : Bal!Touch(Append(b, o), a)
        BY <4>1, <2>2, ChildTouches
      <4>3. PICK e \in Leaves(nodes) : e = Append(b, o) /\ Len(e) = Len(b) + 1
        BY <1>5, <3>2
      <4>4. Bal!Touch(a, e)
        BY <4>2, <4>3, TouchMutual
      <4>5. ~(Len(a) > Len(e) + 1)
        BY <4>4, <2>4, <1>2
      <4>6. Len(a) = Len(b) + 2
        BY <4>3, <4>5, <1>6, <2>2
      <4>7. a \in Children(less)
        BY <4>2, <4>6, <2>4, <3>2
      <4> QED BY <4>7, <2>4
    <3> QED BY <3>1, <3>2, <1>3
  <2> QED BY <2>3, <2>4, <1>3
<1> QED BY <1>1, <1>6, BalancedMeans

-----------------------------------------------------------------------------
(* The order in which nodes are visited. *)

(* At position k a comes before b. *)
Differ(a, b, k) ==
  /\ k \in 1 .. Len(b) /\ k <= Len(a) + 1
  /\ \A j \in 1 .. Len(b) : j < k => a[j] = b[j]
  /\ k = Len(a) + 1 \/ a[k] < b[k]

(* A path is a sequence of integers. *)
LEMMA PathElements ==
  ASSUME NEW a \in Path
  PROVE  Len(a) \in Nat /\ DOMAIN a = 1 .. Len(a) /\ \A k \in 1 .. Len(a) : a[k] \in Int
<1>1. \A p \in child_pos : p \in Int
  BY NdAssumption, PowerOfTwo DEF child_pos, no_children
<1> QED BY <1>1 DEF Path

(* Paths that agree everywhere are the same. *)
LEMMA PathsEqual ==
  ASSUME NEW a \in Path, NEW b \in Path, Len(a) = Len(b), \A k \in 1 .. Len(a) : a[k] = b[k]
  PROVE  a = b
BY DEF Path

(* Two paths start alike if they agree position by position. *)
LEMMA SameStart ==
  ASSUME NEW a \in Path, NEW b \in Path, NEW l \in Nat, l <= Len(a), l <= Len(b)
  PROVE  SubSeq(a, 1, l) = SubSeq(b, 1, l) <=> \A j \in 1 .. l : a[j] = b[j]
<1>1. a \in Seq(child_pos) /\ b \in Seq(child_pos)
  BY DEF Path
<1>2. ASSUME NEW c \in Seq(child_pos), l <= Len(c)
      PROVE  /\ SubSeq(c, 1, l) \in Seq(child_pos) /\ Len(SubSeq(c, 1, l)) = l
             /\ \A j \in 1 .. l : SubSeq(c, 1, l)[j] = c[j]
  <2>1. SubSeq(c, 1, l) \in Seq(child_pos) /\ Len(SubSeq(c, 1, l)) = l
    BY <1>2
  <2>2. \A j \in 1 .. l : SubSeq(c, 1, l)[j] = c[j]
    BY <1>2
  <2> QED BY <2>1, <2>2
<1>3. PICK x, y : x = SubSeq(a, 1, l) /\ y = SubSeq(b, 1, l)
  OBVIOUS
<1>4. /\ x \in Seq(child_pos) /\ Len(x) = l /\ \A j \in 1 .. l : x[j] = a[j]
      /\ y \in Seq(child_pos) /\ Len(y) = l /\ \A j \in 1 .. l : y[j] = b[j]
  BY <1>1, <1>2, <1>3
<1>5. x = y <=> \A j \in 1 .. l : x[j] = y[j]
  BY <1>4
<1> QED BY <1>3, <1>4, <1>5

(* The depth-first order is decided at the first position where paths        *)
(* differ.                                                                   *)
LEMMA BeforeMeans ==
  ASSUME NEW a \in Path, NEW b \in Path, a # b
  PROVE  Before(a, b) <=> \E k \in 1 .. Len(b) : Differ(a, b, k)
<1>1. PICK v \in Nat, w \in Nat : v = Len(a) /\ w = Len(b)
  BY PathElements
<1>2. DOMAIN a = 1 .. v /\ DOMAIN b = 1 .. w
  BY <1>1, PathElements
<1>3. IsPrefix(a, b) <=> v + 1 \in 1 .. w /\ \A j \in 1 .. v : a[j] = b[j]
  <2>1. CASE v < w
    <3>1. SubSeq(a, 1, v) = SubSeq(b, 1, v) <=> \A j \in 1 .. v : a[j] = b[j]
      BY <1>1, <2>1, SameStart
    <3> QED BY <1>1, <2>1, <3>1 DEF IsPrefix
  <2>2. CASE v = w
    <3>1. SubSeq(a, 1, v) = SubSeq(b, 1, v) <=> \A j \in 1 .. v : a[j] = b[j]
      BY <1>1, <2>2, SameStart
    <3>2. ~(\A j \in 1 .. v : a[j] = b[j])
      BY <1>1, <2>2, PathsEqual
    <3> QED BY <1>1, <2>2, <3>1, <3>2 DEF IsPrefix
  <2>3. CASE v > w
    BY <1>1, <2>3 DEF IsPrefix
  <2> QED BY <2>1, <2>2, <2>3
<1>4. ASSUME NEW k \in DOMAIN a \cap DOMAIN b
      PROVE  SubSeq(a, 1, k - 1) = SubSeq(b, 1, k - 1) <=> \A j \in 1 .. w : j < k => a[j] = b[j]
  <2>1. k \in 1 .. v /\ k \in 1 .. w
    BY <1>2
  <2>2. PICK l \in Nat : l = k - 1 /\ l <= v /\ l <= w
    BY <2>1
  <2>3. SubSeq(a, 1, l) = SubSeq(b, 1, l) <=> \A j \in 1 .. l : a[j] = b[j]
    BY <1>1, <2>2, SameStart
  <2>4. \A j \in 1 .. w : j < k <=> j \in 1 .. l
    BY <2>1, <2>2
  <2>5. \A j \in 1 .. l : j \in 1 .. w
    BY <2>2
  <2> QED BY <2>2, <2>3, <2>4, <2>5
<1>5. Before(a, b) => \E k \in 1 .. w : Differ(a, b, k)
  <2>1. CASE IsPrefix(a, b)
    <3>1. Differ(a, b, v + 1)
      BY <1>1, <1>3, <2>1 DEF Differ
    <3> QED BY <1>3, <2>1, <3>1
  <2>2. ASSUME NEW k \in DOMAIN a \cap DOMAIN b,
               SubSeq(a, 1, k - 1) = SubSeq(b, 1, k - 1), a[k] < b[k]
        PROVE  Differ(a, b, k) /\ k \in 1 .. w
    BY <1>1, <1>2, <1>4, <2>2 DEF Differ
  <2> QED BY <2>1, <2>2 DEF Before
<1>6. ASSUME NEW k \in 1 .. w, Differ(a, b, k)
      PROVE  Before(a, b)
  <2>1. CASE k = v + 1
    BY <1>1, <1>3, <1>6, <2>1 DEF Differ, Before
  <2>2. CASE k # v + 1
    <3>1. k \in DOMAIN a \cap DOMAIN b /\ a[k] < b[k]
      BY <1>1, <1>2, <1>6, <2>2 DEF Differ
    <3>2. SubSeq(a, 1, k - 1) = SubSeq(b, 1, k - 1)
      BY <1>1, <3>1, <1>4, <1>6 DEF Differ
    <3> QED BY <3>1, <3>2 DEF Before
  <2> QED BY <2>1, <2>2
<1> QED BY <1>1, <1>5, <1>6

(* Paths are totally ordered. *)
LEMMA BeforeIrreflexive ==
  ASSUME NEW a \in Path, NEW k \in 1 .. Len(a)
  PROVE  ~Differ(a, a, k)
BY PathElements DEF Differ

(* The depth-first order is transitive. *)
LEMMA BeforeTransitive ==
  ASSUME NEW a \in Path, NEW b \in Path, NEW c \in Path,
         a # b, b # c, Before(a, b), Before(b, c)
  PROVE  a # c /\ Before(a, c)
<1>1. PICK k \in 1 .. Len(b) : Differ(a, b, k)
  BY BeforeMeans
<1>2. PICK l \in 1 .. Len(c) : Differ(b, c, l)
  BY BeforeMeans
<1>3. /\ Len(a) \in Nat /\ Len(b) \in Nat /\ Len(c) \in Nat
      /\ \A j \in 1 .. Len(a) : a[j] \in Int
      /\ \A j \in 1 .. Len(b) : b[j] \in Int
      /\ \A j \in 1 .. Len(c) : c[j] \in Int
  BY PathElements
<1>4. \E j \in 1 .. Len(c) : Differ(a, c, j)
  <2>1. CASE k <= l
    <3>1. k \in 1 .. Len(c)
      BY <1>2, <1>3, <2>1 DEF Differ
    <3>2. \A j \in 1 .. Len(c) : j < k => a[j] = c[j]
      BY <1>1, <1>2, <1>3, <2>1 DEF Differ
    <3>3. k = Len(a) + 1 \/ a[k] < c[k]
      <4>1. k < l => b[k] = c[k]
        BY <1>2, <3>1 DEF Differ
      <4>2. k = l => b[k] < c[k]
        BY <1>1, <1>2, <1>3 DEF Differ
      <4> QED BY <1>1, <1>3, <4>1, <4>2, <2>1, <3>1 DEF Differ
    <3> QED BY <3>1, <3>2, <3>3, <1>1 DEF Differ
  <2>2. CASE k > l
    <3>1. \A j \in 1 .. Len(c) : j < l => a[j] = c[j]
      BY <1>1, <1>2, <1>3, <2>2 DEF Differ
    <3>2. a[l] = b[l] /\ b[l] < c[l] /\ l <= Len(a) + 1
      BY <1>1, <1>2, <1>3, <2>2 DEF Differ
    <3> QED BY <3>1, <3>2 DEF Differ
  <2> QED BY <2>1, <2>2, <1>3
<1>5. a # c
  BY <1>4, BeforeIrreflexive
<1> QED BY <1>4, <1>5, BeforeMeans

(* Of two different paths one comes before the other. *)
LEMMA BeforeTotal ==
  ASSUME NEW a \in Path, NEW b \in Path, a # b
  PROVE  Before(a, b) \/ Before(b, a)
<1>1. PICK v \in Nat, w \in Nat : v = Len(a) /\ w = Len(b)
  BY PathElements
<1>2. \A k \in 1 .. v : a[k] \in Int
  BY <1>1, PathElements
<1>3. \A k \in 1 .. w : b[k] \in Int
  BY <1>1, PathElements
<1>4. PICK T : T = {k \in Nat : 1 <= k /\ k <= v + 1 /\ k <= w + 1
                               /\ (k = v + 1 \/ k = w + 1 \/ a[k] # b[k])}
  OBVIOUS
<1>5. T \in SUBSET Nat /\ T # {}
  <2>1. IF v <= w THEN v + 1 \in T ELSE w + 1 \in T
    BY <1>4
  <2> QED BY <2>1, <1>4
<1>6. PICK k \in T : \A j \in T : k <= j
  BY <1>5, LeastNumber
<1>7. k \in Nat /\ 1 <= k /\ k <= v + 1 /\ k <= w + 1 /\ (k = v + 1 \/ k = w + 1 \/ a[k] # b[k])
  BY <1>4, <1>6
<1>8. ASSUME NEW j \in Nat, 1 <= j, j < k
      PROVE  a[j] = b[j]
  <2>1. j \notin T
    BY <1>6, <1>7, <1>8
  <2> QED BY <1>4, <1>7, <1>8, <2>1
<1>9. ~(k = v + 1 /\ k = w + 1)
  BY <1>1, <1>8, PathsEqual
<1>10. (Differ(a, b, k) /\ k \in 1 .. w) \/ (Differ(b, a, k) /\ k \in 1 .. v)
  <2>1. CASE k = v + 1
    <3>1. k \in 1 .. w
      BY <1>7, <1>9, <2>1
    <3> QED BY <1>1, <1>7, <1>8, <2>1, <3>1 DEF Differ
  <2>2. CASE k = w + 1
    <3>1. k \in 1 .. v
      BY <1>7, <1>9, <2>2
    <3> QED BY <1>1, <1>7, <1>8, <2>2, <3>1 DEF Differ
  <2>3. CASE k # v + 1 /\ k # w + 1
    <3>1. k \in 1 .. v /\ k \in 1 .. w /\ (a[k] < b[k] \/ b[k] < a[k])
      BY <1>2, <1>3, <1>7, <2>3
    <3>2. k <= Len(a) + 1 /\ k <= Len(b) + 1
      BY <1>1, <1>7
    <3> QED BY <1>1, <3>1, <3>2, <1>8 DEF Differ
  <2> QED BY <2>1, <2>2, <2>3
<1> QED BY <1>1, <1>10, BeforeMeans

(* The order of the indices is transitive, sorted or reversed. *)
LEMMA PrecedesTransitive ==
  ASSUME NEW a \in Path, NEW b \in Path, NEW c \in Path, Precedes(a, b), Precedes(b, c)
  PROVE  Precedes(a, c)
<1>1. a # b /\ b # c
  BY DEF Precedes
<1>2. CASE order = "sorted"
  BY <1>1, <1>2, BeforeTransitive DEF Precedes
<1>3. CASE order # "sorted"
  <2>1. Before(c, b) /\ Before(b, a)
    BY <1>3 DEF Precedes
  <2> QED BY <1>1, <1>3, <2>1, BeforeTransitive DEF Precedes
<1> QED BY <1>2, <1>3

(* Of two different nodes one has the lower index. *)
LEMMA PrecedesTotal ==
  ASSUME NEW a \in Path, NEW b \in Path, a # b
  PROVE  Precedes(a, b) \/ Precedes(b, a)
BY BeforeTotal DEF Precedes

(* How many nodes come before a node. *)
Rank(S, n) == Cardinality({m \in S : Precedes(m, n)})

(* The rank of a node grows along the order. *)
LEMMA RankGrows ==
  ASSUME NEW S \in SUBSET Path, IsFiniteSet(S), NEW a \in S, NEW b \in S, Precedes(a, b)
  PROVE  Rank(S, a) < Rank(S, b)
<1>1. PICK P : P = {m \in S : Precedes(m, a)}
  OBVIOUS
<1>2. PICK Q : Q = {m \in S : Precedes(m, b)}
  OBVIOUS
<1>3. \A m \in P : m \in Q
  <2>1. ASSUME NEW m \in P PROVE m \in Q
    <3>1. m \in Path /\ a \in Path /\ b \in Path /\ Precedes(m, a)
      BY <1>1
    <3>2. Precedes(m, b)
      BY <3>1, PrecedesTransitive
    <3> QED BY <1>1, <1>2, <3>2
  <2> QED BY <2>1
<1>4. a \in Q /\ a \notin P
  BY <1>1, <1>2 DEF Precedes
<1>5. IsFiniteSet(Q) /\ Cardinality(Q) \in Nat
  <2>1. Q \in SUBSET S
    BY <1>2
  <2> QED BY <2>1, FS_Subset, FS_CardinalityType
<1>6. P \in SUBSET Q /\ P # Q
  BY <1>3, <1>4
<1>7. IsFiniteSet(P) /\ Cardinality(P) <= Cardinality(Q) /\ Cardinality(P) # Cardinality(Q)
  BY <1>5, <1>6, FS_Subset
<1>8. Cardinality(P) \in Nat
  BY <1>7, FS_CardinalityType
<1> QED BY <1>1, <1>2, <1>5, <1>7, <1>8 DEF Rank

(* There are as many ranks as nodes. *)
LEMMA RankRange ==
  ASSUME NEW S \in SUBSET Path, IsFiniteSet(S), NEW n \in S
  PROVE  Rank(S, n) \in 0 .. Cardinality(S) - 1
<1>1. PICK P : P = {m \in S : Precedes(m, n)}
  OBVIOUS
<1>2. P \in SUBSET S /\ n \notin P
  BY <1>1 DEF Precedes
<1>3. P # S
  BY <1>2
<1>4. Cardinality(S) \in Nat
  BY FS_CardinalityType
<1>5. IsFiniteSet(P) /\ Cardinality(P) <= Cardinality(S) /\ Cardinality(P) # Cardinality(S)
  BY <1>2, <1>3, FS_Subset
<1>6. Cardinality(P) \in Nat
  BY <1>5, FS_CardinalityType
<1> QED BY <1>1, <1>4, <1>5, <1>6 DEF Rank

(* No two nodes have the same rank. *)
LEMMA RankUnique ==
  ASSUME NEW S \in SUBSET Path, IsFiniteSet(S), NEW a \in S, NEW b \in S,
         Rank(S, a) = Rank(S, b)
  PROVE  a = b
<1>1. SUFFICES ASSUME a # b PROVE FALSE
  OBVIOUS
<1>2. Precedes(a, b) \/ Precedes(b, a)
  BY <1>1, PrecedesTotal
<1>3. Rank(S, a) \in Nat /\ Rank(S, b) \in Nat
  <2>1. Rank(S, a) \in 0 .. Cardinality(S) - 1 /\ Rank(S, b) \in 0 .. Cardinality(S) - 1
    BY RankRange
  <2> QED BY <2>1
<1>4. Rank(S, a) < Rank(S, b) \/ Rank(S, b) < Rank(S, a)
  BY <1>2, RankGrows
<1> QED BY <1>3, <1>4

(* The first of some nodes is one of them. *)
LEMMA FirstIsOne ==
  ASSUME NEW S \in SUBSET Path, IsFiniteSet(S), S # {}
  PROVE  First(S) \in S
<1>1. PICK T : T = {Rank(S, n) : n \in S}
  OBVIOUS
<1>2. \A n \in S : Rank(S, n) \in Nat
  <2>1. \A n \in S : Rank(S, n) \in 0 .. Cardinality(S) - 1
    BY RankRange
  <2> QED BY <2>1
<1>3. T \in SUBSET Nat /\ T # {}
  BY <1>1, <1>2
<1>4. PICK l \in T : \A k \in T : l <= k
  BY <1>3, LeastNumber
<1>5. PICK n \in S : l = Rank(S, n)
  BY <1>1
<1>6. ASSUME NEW m \in S, Precedes(m, n)
      PROVE  FALSE
  <2>1. Rank(S, m) < Rank(S, n)
    BY <1>6, RankGrows
  <2>2. Rank(S, m) \in T /\ Rank(S, m) \in Nat /\ Rank(S, n) \in Nat
    BY <1>1, <1>2
  <2> QED BY <1>4, <1>5, <2>1, <2>2
<1>7. \E x \in S : \A m \in S : ~Precedes(m, x)
  BY <1>6
<1> QED BY <1>7 DEF First

(* Every node is visited. *)
LEMMA OrderedCovers ==
  ASSUME NEW S \in SUBSET Path, IsFiniteSet(S)
  PROVE  /\ Ordered(S) \in Seq(S) /\ Len(Ordered(S)) = Cardinality(S)
         /\ \A n \in S : \E k \in 1 .. Len(Ordered(S)) : Ordered(S)[k] = n
<1>1. PICK N \in Nat : N = Cardinality(S)
  BY FS_CardinalityType
<1>2. PICK T : T = 0 .. N - 1
  OBVIOUS
<1>3. IsFiniteSet(T) /\ Cardinality(T) = N
  BY <1>2, FS_Interval
<1>4. PICK f : f = [n \in S |-> Rank(S, n)]
  OBVIOUS
<1>5. f \in Injection(S, T)
  <2>1. f \in [S -> T]
    BY <1>1, <1>2, <1>4, RankRange
  <2>2. \A a, b \in S : f[a] = f[b] => a = b
    BY <1>4, RankUnique
  <2> QED BY <2>1, <2>2 DEF Injection, IsInjective
<1>6. f \in Surjection(S, T)
  BY <1>1, <1>3, <1>5, FS_Injection
<1>7. \A k \in T : \E n \in S : Rank(S, n) = k
  BY <1>4, <1>6 DEF Surjection
<1>8. ASSUME NEW k \in 1 .. N
      PROVE  Ordered(S)[k] \in S /\ Rank(S, Ordered(S)[k]) = k - 1
  <2>1. k - 1 \in T
    BY <1>2
  <2>2. \E n \in S : Rank(S, n) = k - 1
    BY <1>7, <2>1
  <2>3. Ordered(S)[k] = CHOOSE n \in S : Rank(S, n) = k - 1
    BY <1>1 DEF Ordered, Rank
  <2> QED BY <2>2, <2>3
<1>9. DOMAIN Ordered(S) = 1 .. N /\ Ordered(S) = [k \in 1 .. N |-> Ordered(S)[k]]
  <2>1. PICK f1 : f1 = [k \in 1 .. N |-> Ordered(S)[k]]
    OBVIOUS
  <2>2. Ordered(S) = [k \in 1 .. N |->
          CHOOSE n \in S : Cardinality({m \in S : Precedes(m, n)}) = k - 1]
    BY <1>1 DEF Ordered
  <2>3. \A k \in 1 .. N : f1[k] =
          CHOOSE n \in S : Cardinality({m \in S : Precedes(m, n)}) = k - 1
    BY <2>1, <2>2
  <2>4. f1 = Ordered(S)
    BY <2>1, <2>2, <2>3
  <2> QED BY <2>1, <2>4
<1>10. Ordered(S) \in Seq(S) /\ Len(Ordered(S)) = N
  BY <1>8, <1>9
<1>11. ASSUME NEW n \in S
       PROVE  \E k \in 1 .. N : Ordered(S)[k] = n
  <2>1. Rank(S, n) \in 0 .. N - 1
    BY <1>1, RankRange
  <2>2. PICK k \in 1 .. N : k = Rank(S, n) + 1
    BY <2>1
  <2>3. Rank(S, Ordered(S)[k]) = Rank(S, n)
    BY <1>8, <2>1, <2>2
  <2> QED BY <1>8, <2>3, RankUnique
<1> QED BY <1>1, <1>10, <1>11

-----------------------------------------------------------------------------
(* Sibling groups. *)

(* Siblings, the node included, are nodes of the target, have the same       *)
(* siblings and are at the same level (amr/state.hpp, siblings).             *)
LEMMA SiblingFacts ==
  ASSUME actions.nodes \in SUBSET Path, NEW n \in actions.nodes
  PROVE  /\ n \in siblings(n) /\ siblings(n) \subseteq actions.nodes
         /\ \A m \in siblings(n) : siblings(m) = siblings(n) /\ Len(m) = Len(n)
<1>1. CASE n = <<>>
  BY <1>1 DEF siblings
<1>2. CASE n # <<>>
  <2>1. siblings(n) = {m \in actions.nodes : m # <<>> /\ parent(m) = parent(n)}
    BY <1>2 DEF siblings
  <2>2. ASSUME NEW m \in siblings(n)
        PROVE  siblings(m) = siblings(n) /\ Len(m) = Len(n)
    <3>1. m \in Path /\ n \in Path /\ m # <<>> /\ parent(m) = parent(n)
      BY <2>1
    <3>2. siblings(m) = {k \in actions.nodes : k # <<>> /\ parent(k) = parent(m)}
      BY <3>1 DEF siblings
    <3>3. Len(m) = Len(n)
      BY <3>1, <1>2, ParentOf
    <3> QED BY <2>1, <3>1, <3>2, <3>3
  <2> QED BY <1>2, <2>1, <2>2
<1> QED BY <1>1, <1>2

(* A group with all its members: the children of a node. *)
LEMMA WholeGroup ==
  ASSUME actions.nodes \in SUBSET Path, NEW n \in actions.nodes,
         Cardinality(siblings(n)) = no_children(Nd)
  PROVE  n # <<>> /\ siblings(n) = {Append(parent(n), p) : p \in child_pos}
<1>1. no_children(Nd) \in Nat /\ no_children(Nd) > 1
  <2>1. PICK d \in Nat : Nd = d + 1
    BY NdAssumption
  <2>2. 2^d \in Nat \ {0} /\ 2^(d + 1) = 2 * 2^d
    BY PowerOfTwo
  <2>3. PICK w \in Nat \ {0} : w = 2^d
    BY <2>2
  <2>4. no_children(Nd) = 2 * w
    BY <2>1, <2>2, <2>3 DEF no_children
  <2> QED BY <2>4
<1>2. n # <<>>
  <2>1. n = <<>> => Cardinality(siblings(n)) = 1
    BY FS_Singleton DEF siblings
  <2> QED BY <1>1, <2>1
<1>3. parent(n) \in Path
  BY <1>2, ParentOf
<1>4. PICK f : f = [p \in child_pos |-> Append(parent(n), p)]
  OBVIOUS
<1>5. PICK G : G = {Append(parent(n), p) : p \in child_pos}
  OBVIOUS
<1>6. f \in Bijection(child_pos, G)
  <2>1. f \in [child_pos -> G] /\ \A c \in G : \E p \in child_pos : f[p] = c
    BY <1>4, <1>5
  <2>2. \A p, o \in child_pos : f[p] = f[o] => p = o
    BY <1>3, <1>4, ChildOf
  <2> QED BY <2>1, <2>2 DEF Bijection, Injection, Surjection, IsInjective
<1>7. IsFiniteSet(child_pos) /\ Cardinality(child_pos) = no_children(Nd)
  <2>1. PICK c \in Nat : c = no_children(Nd) /\ c > 1
    BY <1>1
  <2>2. child_pos = 0 .. c - 1
    BY <2>1 DEF child_pos
  <2> QED BY <2>1, <2>2, FS_Interval
<1>8. IsFiniteSet(G) /\ Cardinality(G) = no_children(Nd)
  BY <1>6, <1>7, FS_Bijection DEF ExistsBijection
<1>9. siblings(n) \in SUBSET G
  <2>1. ASSUME NEW m \in siblings(n) PROVE m \in G
    <3>1. m \in Path /\ m # <<>> /\ parent(m) = parent(n)
      BY <1>2 DEF siblings
    <3> QED BY <3>1, <1>5, ParentOf
  <2> QED BY <2>1
<1>10. siblings(n) = G
  BY <1>8, <1>9, FS_Subset
<1> QED BY <1>2, <1>5, <1>10

-----------------------------------------------------------------------------
(* The passes of the enforcement. *)

(* The actions for the nodes of the target: none is refined and coarsened. *)
Acts ==
  {x \in [nodes : {actions.nodes}, refine : SUBSET actions.nodes,
          coarsen : SUBSET actions.nodes] : x.refine \cap x.coarsen = {}}

(* Groups are coarsened as a whole. *)
Whole(x) ==
  \A n \in x.coarsen :
    siblings(n) \subseteq x.coarsen /\ Cardinality(siblings(n)) = no_children(Nd)

(* Why a group cannot be coarsened. *)
TooFine(adjacent, x, n) ==
  \E e \in adjacent :
    /\ e[1] \in siblings(n)
    /\ \/ level(e[2]) = level(n) /\ e[2] \in x.refine
       \/ level(e[2]) = level(n) + 1 /\ e[2] \notin x.coarsen

(* Taking the mark from whole groups leaves the other groups whole. *)
LEMMA LessCoarsening ==
  ASSUME actions.nodes \in SUBSET Path, NEW x \in Acts, NEW less \in SUBSET actions.nodes,
         \A n \in less : siblings(n) \subseteq less
  PROVE  LET y == [x EXCEPT !.coarsen = @ \ less] IN
         /\ y \in Acts /\ y.refine = x.refine /\ y.coarsen = x.coarsen \ less
         /\ Whole(x) => Whole(y)
<1>1. PICK y : y = [x EXCEPT !.coarsen = x.coarsen \ less]
  OBVIOUS
<1>2. y \in Acts /\ y.refine = x.refine /\ y.coarsen = x.coarsen \ less
  BY <1>1 DEF Acts
<1>3. ASSUME Whole(x), NEW n \in y.coarsen
      PROVE  /\ siblings(n) \subseteq y.coarsen
             /\ Cardinality(siblings(n)) = no_children(Nd)
  <2>1. n \in x.coarsen /\ n \notin less /\ n \in actions.nodes
    BY <1>2 DEF Acts
  <2>2. siblings(n) \subseteq x.coarsen /\ Cardinality(siblings(n)) = no_children(Nd)
    BY <1>3, <2>1 DEF Whole
  <2>3. ASSUME NEW m \in siblings(n), m \in less
        PROVE  FALSE
    <3>1. siblings(m) = siblings(n) /\ n \in siblings(n)
      BY <2>1, SiblingFacts
    <3> QED BY <2>1, <2>3, <3>1
  <2> QED BY <1>2, <2>2, <2>3
<1> QED BY <1>1, <1>2, <1>3 DEF Whole

(* What a turn of the second pass does. *)
LEMMA CoarsenTurn ==
  ASSUME actions.nodes \in SUBSET Path, NEW x \in Acts, NEW A, NEW n \in actions.nodes
  PROVE  LET y == KeepCoarsenable(A, x, n) IN
         /\ y \in Acts /\ y.refine = x.refine
         /\ y.coarsen = IF n \in x.coarsen /\ TooFine(A, x, n) THEN x.coarsen \ siblings(n)
                        ELSE x.coarsen
         /\ Whole(x) => Whole(y)
<1>1. CASE n \in x.coarsen /\ TooFine(A, x, n)
  <2>1. KeepCoarsenable(A, x, n) = [x EXCEPT !.coarsen = @ \ siblings(n)]
    BY <1>1 DEF KeepCoarsenable, TooFine
  <2>2. siblings(n) \in SUBSET actions.nodes /\ \A m \in siblings(n) : siblings(m) = siblings(n)
    BY SiblingFacts
  <2> QED BY <1>1, <2>1, <2>2, LessCoarsening
<1>2. CASE ~(n \in x.coarsen /\ TooFine(A, x, n))
  BY <1>2 DEF KeepCoarsenable, TooFine
<1> QED BY <1>1, <1>2

(* The first pass. *)
LEMMA WholeTurn ==
  ASSUME actions.nodes \in SUBSET Path, NEW x \in Acts
  PROVE  LET y == KeepWholeGroups(x) IN
         /\ y \in Acts /\ y.refine = x.refine /\ y.coarsen \subseteq x.coarsen
         /\ Whole(y)
         /\ Whole(x) => y = x
<1>1. PICK S : S = {n \in x.coarsen : /\ Cardinality(siblings(n)) = no_children(Nd)
                                      /\ siblings(n) \subseteq x.coarsen}
  OBVIOUS
<1>2. PICK y : y = [x EXCEPT !.coarsen = S]
  OBVIOUS
<1>3. KeepWholeGroups(x) = y
  BY <1>1, <1>2 DEF KeepWholeGroups
<1>4. S \in SUBSET x.coarsen
  BY <1>1
<1>5. y \in Acts /\ y.refine = x.refine /\ y.coarsen = S
  BY <1>2, <1>4 DEF Acts
<1>6. ASSUME NEW n \in S
      PROVE  siblings(n) \subseteq S /\ Cardinality(siblings(n)) = no_children(Nd)
  <2>1. n \in actions.nodes /\ siblings(n) \subseteq x.coarsen
    BY <1>1 DEF Acts
  <2>2. ASSUME NEW m \in siblings(n) PROVE m \in S
    <3>1. siblings(m) = siblings(n)
      BY <2>1, SiblingFacts
    <3> QED BY <1>1, <2>1, <3>1
  <2> QED BY <1>1, <2>2
<1>7. ASSUME Whole(x) PROVE y = x
  <2>1. S = x.coarsen
    BY <1>1, <1>7 DEF Whole
  <2> QED BY <1>2, <2>1 DEF Acts
<1> QED BY <1>3, <1>4, <1>5, <1>6, <1>7 DEF Whole

(* What the third pass adds for a node. *)
MoreToRefine(A, x, n) ==
  UNION {siblings(m) :
           m \in {k \in x.nodes : <<n, k>> \in A /\ level(k) < level(n)} \ x.refine}

(* What a turn of the third pass does. *)
LEMMA RefineTurn ==
  ASSUME actions.nodes \in SUBSET Path, NEW x \in Acts, NEW A, NEW n \in actions.nodes
  PROVE  LET y == RefineCoarser(A, x, n)
             more == IF n \in x.refine THEN MoreToRefine(A, x, n) ELSE {} IN
         /\ y \in Acts /\ y.refine = x.refine \cup more /\ y.coarsen = x.coarsen \ more
         /\ Whole(x) => Whole(y)
<1>1. CASE n \in x.refine
  <2>1. PICK more : more = MoreToRefine(A, x, n)
    OBVIOUS
  <2>2. \A m \in more : \E k \in actions.nodes : m \in siblings(k)
    BY <2>1 DEF MoreToRefine, Acts
  <2>3. more \in SUBSET actions.nodes
    BY <2>2, SiblingFacts
  <2>4. ASSUME NEW m \in more PROVE siblings(m) \subseteq more
    <3>1. PICK k \in {j \in x.nodes : <<n, j>> \in A /\ level(j) < level(n)} \ x.refine :
            m \in siblings(k)
      BY <2>1 DEF MoreToRefine
    <3>2. k \in actions.nodes
      BY <3>1 DEF Acts
    <3>3. siblings(m) = siblings(k)
      BY <3>1, <3>2, SiblingFacts
    <3>4. siblings(k) \subseteq more
      BY <2>1 DEF MoreToRefine
    <3> QED BY <3>3, <3>4
  <2>5. PICK z : z = [x EXCEPT !.coarsen = @ \ more]
    OBVIOUS
  <2>6. /\ z \in Acts /\ z.refine = x.refine /\ z.coarsen = x.coarsen \ more
        /\ Whole(x) => Whole(z)
    BY <2>3, <2>4, <2>5, LessCoarsening
  <2>7. PICK y : y = [x EXCEPT !.refine = @ \cup more, !.coarsen = @ \ more]
    OBVIOUS
  <2>8. RefineCoarser(A, x, n) = y
    BY <1>1, <2>1, <2>7 DEF RefineCoarser, MoreToRefine, Acts
  <2>9. y \in Acts /\ y.refine = x.refine \cup more /\ y.coarsen = x.coarsen \ more
    BY <2>3, <2>7 DEF Acts
  <2>10. Whole(x) => Whole(y)
    BY <2>6, <2>9 DEF Whole
  <2> QED BY <1>1, <2>1, <2>8, <2>9, <2>10
<1>2. CASE n \notin x.refine
  BY <1>2 DEF RefineCoarser
<1> QED BY <1>1, <1>2

(* A chain of values of V: the first is a, each step applies a function of   *)
(* g.                                                                        *)
HasChain(L, V, a, g) ==
  \E f \in [0 .. L -> V] : f[0] = a /\ \A k \in 1 .. L : f[k] = g[k][f[k - 1]]

(* A pass is a chain of turns. *)
LEMMA ChainExists ==
  ASSUME NEW L \in Nat, NEW V, NEW a \in V, NEW g \in [1 .. L -> [V -> V]]
  PROVE  HasChain(L, V, a, g)
<1> DEFINE Chain(f, l) == f[0] = a /\ \A k \in 1 .. l : f[k] = g[k][f[k - 1]]
           T == {l \in Nat : l <= L => \E f \in [0 .. l -> V] : Chain(f, l)}
<1>1. 0 \in T
  <2>1. PICK f \in [0 .. 0 -> V] : f = [k \in 0 .. 0 |-> a]
    OBVIOUS
  <2>2. Chain(f, 0)
    BY <2>1
  <2> QED BY <2>2
<1>2. ASSUME NEW l \in Nat, l \in T
      PROVE  l + 1 \in T
  <2>1. SUFFICES ASSUME l + 1 <= L PROVE \E f \in [0 .. l + 1 -> V] : Chain(f, l + 1)
    OBVIOUS
  <2>2. PICK f \in [0 .. l -> V] : Chain(f, l)
    BY <1>2, <2>1
  <2>3. l + 1 \in 1 .. L /\ f[l] \in V
    BY <2>1
  <2>4. g[l + 1][f[l]] \in V
    BY <2>3
  <2>5. PICK h : h = [k \in 0 .. l + 1 |-> IF k <= l THEN f[k] ELSE g[l + 1][f[l]]]
    OBVIOUS
  <2>6. h \in [0 .. l + 1 -> V]
    BY <2>2, <2>4, <2>5
  <2>7. h[0] = a
    BY <2>2, <2>5
  <2>8. ASSUME NEW k \in 1 .. l + 1 PROVE h[k] = g[k][h[k - 1]]
    <3>1. CASE k <= l
      <4>1. k \in 1 .. l /\ k - 1 \in 0 .. l
        BY <3>1
      <4>2. h[k] = f[k] /\ h[k - 1] = f[k - 1]
        BY <2>5, <4>1
      <4> QED BY <2>2, <4>1, <4>2
    <3>2. CASE k = l + 1
      <4>1. k - 1 = l /\ h[l] = f[l] /\ h[k] = g[l + 1][f[l]]
        BY <2>5, <3>2
      <4> QED BY <3>2, <4>1
    <3> QED BY <3>1, <3>2
  <2> QED BY <2>6, <2>7, <2>8
<1> HIDE DEF T
<1>3. Nat \subseteq T
  BY <1>1, <1>2, Induction
<1>4. L \in T
  BY <1>3
<1> QED BY <1>4 DEF T, HasChain

(* The second pass over the nodes is a chain of turns. *)
LEMMA CoarsenPass ==
  ASSUME actions.nodes \in SUBSET Path, NEW x \in Acts, NEW A, NEW s \in Seq(actions.nodes)
  PROVE  \E h \in [0 .. Len(s) -> Acts] :
           /\ h[0] = x /\ KeepCoarsenableGroups(A, x, s) = h[Len(s)]
           /\ \A k \in 1 .. Len(s) : h[k] = KeepCoarsenable(A, h[k - 1], s[k])
<1>1. PICK L \in Nat : L = Len(s)
  OBVIOUS
<1>2. \A k \in 1 .. L : s[k] \in actions.nodes
  BY <1>1
<1>3. PICK g : g = [k \in 1 .. L |-> [y \in Acts |-> KeepCoarsenable(A, y, s[k])]]
  OBVIOUS
<1>4. g \in [1 .. L -> [Acts -> Acts]]
  <2>1. ASSUME NEW k \in 1 .. L, NEW y \in Acts PROVE KeepCoarsenable(A, y, s[k]) \in Acts
    BY <1>2, CoarsenTurn
  <2> QED BY <1>3, <2>1
<1>5. PICK f \in [0 .. L -> Acts] : f[0] = x /\ \A k \in 1 .. L : f[k] = g[k][f[k - 1]]
  <2>1. PICK V : V = Acts
    OBVIOUS
  <2>2. g \in [1 .. L -> [V -> V]] /\ x \in V
    BY <1>4, <2>1
  <2>3. HasChain(L, V, x, g)
    BY <1>1, <2>2, ChainExists
  <2> QED BY <2>1, <2>3 DEF HasChain
<1>6. ASSUME NEW k \in 1 .. L PROVE f[k] = KeepCoarsenable(A, f[k - 1], s[k])
  <2>1. k - 1 \in 0 .. L
    OBVIOUS
  <2>2. f[k - 1] \in Acts
    BY <2>1
  <2> QED BY <1>3, <1>5, <2>2
<1> DEFINE After(h) ==
      h = [k \in 0 .. L |-> IF k = 0 THEN x ELSE KeepCoarsenable(A, h[k - 1], s[k])]
<1>7. After(f)
  <2>1. \A k \in 0 .. L : f[k] = IF k = 0 THEN x ELSE KeepCoarsenable(A, f[k - 1], s[k])
    BY <1>5, <1>6
  <2> QED BY <2>1
<1>8. PICK h : h = CHOOSE z : After(z)
  OBVIOUS
<1>9. After(h)
  BY <1>7, <1>8
<1>10. KeepCoarsenableGroups(A, x, s) = h[L]
  BY <1>1, <1>8 DEF KeepCoarsenableGroups
<1>11. h[0] = x /\ \A k \in 1 .. L : h[k] = KeepCoarsenable(A, h[k - 1], s[k])
  BY <1>9
<1> DEFINE T == {k \in Nat : k <= L => h[k] \in Acts}
<1>12. 0 \in T
  BY <1>11
<1>13. ASSUME NEW k \in Nat, k \in T PROVE k + 1 \in T
  <2>1. SUFFICES ASSUME k + 1 <= L PROVE h[k + 1] \in Acts
    OBVIOUS
  <2>2. h[k] \in Acts /\ k + 1 \in 1 .. L /\ k + 1 - 1 = k
    BY <1>13, <2>1
  <2>3. h[k + 1] = KeepCoarsenable(A, h[k], s[k + 1])
    BY <1>11, <2>2
  <2> QED BY <1>2, <2>2, <2>3, CoarsenTurn
<1> HIDE DEF T
<1>14. Nat \subseteq T
  BY <1>12, <1>13, Induction
<1>15. \A k \in 0 .. L : h[k] \in Acts
  BY <1>14 DEF T
<1>16. h \in [0 .. L -> Acts]
  BY <1>9, <1>15
<1> QED BY <1>1, <1>10, <1>11, <1>16

(* The third pass over the nodes is a chain of turns. *)
RefinesThrough(A, x, s) ==
  \E h \in [0 .. Len(s) -> Acts] :
    /\ h[0] = x /\ RefineAllCoarser(A, x, s) = h[Len(s)]
    /\ \A k \in 1 .. Len(s) : h[k] = RefineCoarser(A, h[k - 1], s[k])

(* The third pass over the nodes is such a chain. *)
LEMMA RefinePass ==
  ASSUME actions.nodes \in SUBSET Path, NEW x \in Acts, NEW A, NEW s \in Seq(actions.nodes)
  PROVE  RefinesThrough(A, x, s)
<1>1. PICK L \in Nat : L = Len(s)
  OBVIOUS
<1>2. \A k \in 1 .. L : s[k] \in actions.nodes
  BY <1>1
<1>3. PICK g : g = [k \in 1 .. L |-> [y \in Acts |-> RefineCoarser(A, y, s[k])]]
  OBVIOUS
<1>4. g \in [1 .. L -> [Acts -> Acts]]
  <2>1. ASSUME NEW k \in 1 .. L, NEW y \in Acts PROVE RefineCoarser(A, y, s[k]) \in Acts
    BY <1>2, RefineTurn
  <2> QED BY <1>3, <2>1
<1>5. PICK f \in [0 .. L -> Acts] : f[0] = x /\ \A k \in 1 .. L : f[k] = g[k][f[k - 1]]
  <2>1. PICK V : V = Acts
    OBVIOUS
  <2>2. g \in [1 .. L -> [V -> V]] /\ x \in V
    BY <1>4, <2>1
  <2>3. HasChain(L, V, x, g)
    BY <1>1, <2>2, ChainExists
  <2> QED BY <2>1, <2>3 DEF HasChain
<1>6. ASSUME NEW k \in 1 .. L PROVE f[k] = RefineCoarser(A, f[k - 1], s[k])
  <2>1. k - 1 \in 0 .. L
    OBVIOUS
  <2>2. f[k - 1] \in Acts
    BY <2>1
  <2> QED BY <1>3, <1>5, <2>2
<1> DEFINE After(h) ==
      h = [k \in 0 .. L |-> IF k = 0 THEN x ELSE RefineCoarser(A, h[k - 1], s[k])]
<1>7. After(f)
  <2>1. \A k \in 0 .. L : f[k] = IF k = 0 THEN x ELSE RefineCoarser(A, f[k - 1], s[k])
    BY <1>5, <1>6
  <2> QED BY <2>1
<1>8. PICK h : h = CHOOSE z : After(z)
  OBVIOUS
<1>9. After(h)
  BY <1>7, <1>8
<1>10. RefineAllCoarser(A, x, s) = h[L]
  BY <1>1, <1>8 DEF RefineAllCoarser
<1>11. h[0] = x /\ \A k \in 1 .. L : h[k] = RefineCoarser(A, h[k - 1], s[k])
  BY <1>9
<1> DEFINE T == {k \in Nat : k <= L => h[k] \in Acts}
<1>12. 0 \in T
  BY <1>11
<1>13. ASSUME NEW k \in Nat, k \in T PROVE k + 1 \in T
  <2>1. SUFFICES ASSUME k + 1 <= L PROVE h[k + 1] \in Acts
    OBVIOUS
  <2>2. h[k] \in Acts /\ k + 1 \in 1 .. L /\ k + 1 - 1 = k
    BY <1>13, <2>1
  <2>3. h[k + 1] = RefineCoarser(A, h[k], s[k + 1])
    BY <1>11, <2>2
  <2> QED BY <1>2, <2>2, <2>3, RefineTurn
<1> HIDE DEF T
<1>14. Nat \subseteq T
  BY <1>12, <1>13, Induction
<1>15. \A k \in 0 .. L : h[k] \in Acts
  BY <1>14 DEF T
<1>16. h \in [0 .. L -> Acts]
  BY <1>9, <1>15
<1> QED BY <1>1, <1>10, <1>11, <1>16 DEF RefinesThrough

(* A chain of sets, each within the one before. *)
LEMMA ChainShrinks ==
  ASSUME NEW L \in Nat, NEW F, \A k \in 1 .. L : F[k] \subseteq F[k - 1]
  PROVE  \A j \in 0 .. L : \A i \in 0 .. j : F[j] \subseteq F[i]
<1> DEFINE T == {j \in Nat : j <= L => \A i \in 0 .. j : F[j] \subseteq F[i]}
<1>1. 0 \in T
  OBVIOUS
<1>2. ASSUME NEW j \in Nat, j \in T PROVE j + 1 \in T
  <2>1. SUFFICES ASSUME j + 1 <= L, NEW i \in 0 .. j + 1 PROVE F[j + 1] \subseteq F[i]
    OBVIOUS
  <2>2. j + 1 \in 1 .. L /\ j + 1 - 1 = j /\ j <= L
    BY <2>1
  <2>3. F[j + 1] \subseteq F[j]
    BY <2>2
  <2>4. CASE i = j + 1
    BY <2>4
  <2>5. CASE i # j + 1
    <3>1. i \in 0 .. j
      BY <2>1, <2>5
    <3>2. F[j] \subseteq F[i]
      BY <1>2, <2>2, <3>1
    <3> QED BY <2>3, <3>2
  <2> QED BY <2>4, <2>5
<1> HIDE DEF T
<1>3. Nat \subseteq T
  BY <1>1, <1>2, Induction
<1>4. ASSUME NEW j \in 0 .. L PROVE \A i \in 0 .. j : F[j] \subseteq F[i]
  <2>1. j \in T /\ j <= L
    BY <1>3
  <2> QED BY <2>1 DEF T
<1> QED BY <1>4

(* A chain of sets, each containing the one before. *)
LEMMA ChainGrows ==
  ASSUME NEW L \in Nat, NEW F, \A k \in 1 .. L : F[k - 1] \subseteq F[k]
  PROVE  \A j \in 0 .. L : \A i \in 0 .. j : F[i] \subseteq F[j]
<1> DEFINE T == {j \in Nat : j <= L => \A i \in 0 .. j : F[i] \subseteq F[j]}
<1>1. 0 \in T
  OBVIOUS
<1>2. ASSUME NEW j \in Nat, j \in T PROVE j + 1 \in T
  <2>1. SUFFICES ASSUME j + 1 <= L, NEW i \in 0 .. j + 1 PROVE F[i] \subseteq F[j + 1]
    OBVIOUS
  <2>2. j + 1 \in 1 .. L /\ j + 1 - 1 = j /\ j <= L
    BY <2>1
  <2>3. F[j] \subseteq F[j + 1]
    BY <2>2
  <2>4. CASE i = j + 1
    BY <2>4
  <2>5. CASE i # j + 1
    <3>1. i \in 0 .. j
      BY <2>1, <2>5
    <3>2. F[i] \subseteq F[j]
      BY <1>2, <2>2, <3>1
    <3> QED BY <2>3, <3>2
  <2> QED BY <2>4, <2>5
<1> HIDE DEF T
<1>3. Nat \subseteq T
  BY <1>1, <1>2, Induction
<1>4. ASSUME NEW j \in 0 .. L PROVE \A i \in 0 .. j : F[i] \subseteq F[j]
  <2>1. j \in T /\ j <= L
    BY <1>3
  <2> QED BY <2>1 DEF T
<1> QED BY <1>4

-----------------------------------------------------------------------------
(* A round settles one more level, from the finest on. *)

(* How many levels the nodes of the target have. *)
NoLevels == Cardinality({level(n) : n \in actions.nodes})

(* How many levels are as fine as the node's. *)
Depth(n) == Cardinality({level(m) : m \in {k \in actions.nodes : level(k) >= level(n)}})

(* The level of a node is the length of its path. *)
LEMMA LevelOf ==
  ASSUME NEW n \in Path
  PROVE  level(n) = Len(n) /\ level(n) \in Nat
BY LengthOfPath DEF level, node_level

(* A finite set of nodes has finitely many levels. *)
LEMMA LevelsCounted ==
  ASSUME NEW S, IsFiniteSet(S)
  PROVE  IsFiniteSet({level(m) : m \in S}) /\ Cardinality({level(m) : m \in S}) \in Nat
<1>1. PICK f : f = [m \in S |-> level(m)]
  OBVIOUS
<1>2. PICK T : T = {level(m) : m \in S}
  OBVIOUS
<1>3. f \in Surjection(S, T)
  BY <1>1, <1>2 DEF Surjection
<1>4. IsFiniteSet(T)
  BY <1>3, FS_Surjection
<1> QED BY <1>2, <1>4, FS_CardinalityType

(* So has each set of nodes of the target. *)
LEMMA LevelsFinite ==
  ASSUME actions.nodes \in SUBSET Path, IsFiniteSet(actions.nodes), NEW S \in SUBSET actions.nodes
  PROVE  IsFiniteSet({level(m) : m \in S}) /\ Cardinality({level(m) : m \in S}) \in Nat
<1>1. IsFiniteSet(S)
  BY FS_Subset
<1> QED BY <1>1, LevelsCounted

(* Nodes at a finer level are less deep, and there are as many depths as     *)
(* levels.                                                                   *)
LEMMA DepthFacts ==
  ASSUME actions.nodes \in SUBSET Path, IsFiniteSet(actions.nodes),
         NEW a \in actions.nodes
  PROVE  /\ Depth(a) \in 1 .. NoLevels
         /\ \A b \in actions.nodes :
              /\ level(a) = level(b) => Depth(a) = Depth(b)
              /\ level(b) < level(a) => Depth(a) < Depth(b)
<1>1. PICK all : all = {level(n) : n \in actions.nodes}
  OBVIOUS
<1>2. PICK P : P = {level(m) : m \in {k \in actions.nodes : level(k) >= level(a)}}
  OBVIOUS
<1>3. IsFiniteSet(all) /\ Cardinality(all) \in Nat
  <2>1. actions.nodes \in SUBSET actions.nodes
    OBVIOUS
  <2> QED BY <1>1, <2>1, LevelsFinite
<1>4. IsFiniteSet(P) /\ Cardinality(P) \in Nat
  <2>1. {k \in actions.nodes : level(k) >= level(a)} \in SUBSET actions.nodes
    OBVIOUS
  <2> QED BY <1>2, <2>1, LevelsFinite
<1>5. \A n \in actions.nodes : level(n) \in Nat
  BY LevelOf
<1>6. level(a) \in P
  BY <1>2, <1>5
<1>7. P \in SUBSET all
  BY <1>1, <1>2
<1>8. Cardinality(P) <= Cardinality(all)
  BY <1>3, <1>7, FS_Subset
<1>9. Cardinality(P) # 0
  BY <1>4, <1>6, FS_EmptySet
<1>10. Depth(a) = Cardinality(P) /\ NoLevels = Cardinality(all)
  BY <1>1, <1>2 DEF Depth, NoLevels
<1>11. ASSUME NEW b \in actions.nodes, level(a) = level(b)
       PROVE  Depth(a) = Depth(b)
  BY <1>11 DEF Depth
<1>12. ASSUME NEW b \in actions.nodes, level(b) < level(a)
       PROVE  Depth(a) < Depth(b)
  <2>1. PICK Q : Q = {level(m) : m \in {k \in actions.nodes : level(k) >= level(b)}}
    OBVIOUS
  <2>2. IsFiniteSet(Q) /\ Cardinality(Q) \in Nat
    <3>1. {k \in actions.nodes : level(k) >= level(b)} \in SUBSET actions.nodes
      OBVIOUS
    <3> QED BY <2>1, <3>1, LevelsFinite
  <2>3. level(a) \in Nat /\ level(b) \in Nat
    BY <1>5
  <2>4. level(b) \in Q /\ level(b) \notin P
    BY <1>2, <1>12, <2>1, <2>3
  <2>5. P \in SUBSET Q
    BY <1>2, <1>5, <1>12, <2>1, <2>3
  <2>6. P # Q
    BY <2>4
  <2>7. Cardinality(P) <= Cardinality(Q) /\ Cardinality(P) # Cardinality(Q)
    BY <2>2, <2>5, <2>6, FS_Subset
  <2>8. Depth(b) = Cardinality(Q)
    BY <2>1 DEF Depth
  <2> QED BY <1>4, <1>10, <2>2, <2>7, <2>8
<1> QED BY <1>3, <1>4, <1>8, <1>9, <1>10, <1>11, <1>12

(* What the enforcement asks of the nodes of the k finest levels. *)
SettledRefine(A, x, k) ==
  \A n \in x.refine, m \in actions.nodes :
    Depth(n) <= k /\ <<n, m>> \in A /\ level(m) < level(n) => m \in x.refine

(* No group of those levels is coarsened next to a node too fine for it. *)
SettledCoarsen(A, x, k) ==
  \A n \in x.coarsen : Depth(n) <= k => ~TooFine(A, x, n)

(* The k finest levels are as the enforcement wants them. *)
Settled(A, x, k) == SettledRefine(A, x, k) /\ SettledCoarsen(A, x, k)

(* A pass visits every node. *)
Visits(s) ==
  s \in Seq(actions.nodes) /\ \A n \in actions.nodes : \E j \in 1 .. Len(s) : s[j] = n

(* The second pass settles the coarsening of one more level: whether a group *)
(* must stay depends on marks at finer levels, which are settled.            *)
LEMMA SecondPass ==
  ASSUME actions.nodes \in SUBSET Path, IsFiniteSet(actions.nodes), NEW A, NEW k \in Nat,
         NEW x \in Acts, Whole(x), SettledCoarsen(A, x, k), NEW s, Visits(s)
  PROVE  LET y == KeepCoarsenableGroups(A, x, s) IN
         /\ y \in Acts /\ Whole(y) /\ y.refine = x.refine /\ y.coarsen \subseteq x.coarsen
         /\ SettledCoarsen(A, y, k + 1)
         /\ NoLevels <= k => y = x
<1>1. s \in Seq(actions.nodes)
  BY DEF Visits
<1>2. PICK h \in [0 .. Len(s) -> Acts] :
        /\ h[0] = x /\ KeepCoarsenableGroups(A, x, s) = h[Len(s)]
        /\ \A j \in 1 .. Len(s) : h[j] = KeepCoarsenable(A, h[j - 1], s[j])
  BY <1>1, CoarsenPass
<1>3. PICK L \in Nat : L = Len(s)
  BY <1>1
<1>4. \A j \in 1 .. L : s[j] \in actions.nodes
  BY <1>1, <1>3
<1>5. \A j \in 0 .. L : h[j] \in Acts
  BY <1>2, <1>3
<1> DEFINE Turn(u, v, n) ==
             /\ u \in Acts /\ v.refine = u.refine /\ n \in actions.nodes
             /\ v.coarsen = IF n \in u.coarsen /\ TooFine(A, u, n)
                            THEN u.coarsen \ siblings(n) ELSE u.coarsen
             /\ Whole(u) => Whole(v)
<1>6. ASSUME NEW j \in 1 .. L, NEW u, NEW v, NEW n, u = h[j - 1], v = h[j], n = s[j]
      PROVE  Turn(u, v, n)
  <2>1. j - 1 \in 0 .. L
    OBVIOUS
  <2>2. u \in Acts /\ n \in actions.nodes
    BY <1>4, <1>5, <1>6, <2>1
  <2>3. v = KeepCoarsenable(A, u, n)
    BY <1>2, <1>3, <1>6
  <2> QED BY <2>2, <2>3, CoarsenTurn
<1> DEFINE Kept(y) == /\ y.refine = x.refine /\ y.coarsen \subseteq x.coarsen /\ Whole(y)
                      /\ \A n \in x.coarsen : Depth(n) <= k => n \in y.coarsen
           T == {j \in Nat : j <= L => Kept(h[j])}
<1>7. 0 \in T
  BY <1>2
<1>8. ASSUME NEW j \in Nat, j \in T PROVE j + 1 \in T
  <2>1. SUFFICES ASSUME j + 1 <= L PROVE Kept(h[j + 1])
    OBVIOUS
  <2>2. j + 1 \in 1 .. L /\ j + 1 - 1 = j /\ j \in 0 .. L
    BY <2>1
  <2>3. PICK u, v, n : u = h[j] /\ v = h[j + 1] /\ n = s[j + 1]
    OBVIOUS
  <2>4. /\ u \in Acts /\ v.refine = u.refine /\ n \in actions.nodes
        /\ v.coarsen = IF n \in u.coarsen /\ TooFine(A, u, n)
                       THEN u.coarsen \ siblings(n) ELSE u.coarsen
        /\ Whole(u) => Whole(v)
    <3>1. u = h[(j + 1) - 1] /\ v = h[j + 1] /\ n = s[j + 1]
      BY <2>2, <2>3
    <3> HIDE DEF Turn
    <3>2. Turn(u, v, n)
      BY <1>6, <2>2, <3>1
    <3> QED BY <3>2 DEF Turn
  <2>5. Kept(u)
    BY <1>8, <2>1, <2>2, <2>3
  <2>6. ASSUME n \in u.coarsen, TooFine(A, u, n), Depth(n) <= k
        PROVE  FALSE
    <3>1. PICK e \in A :
            /\ e[1] \in siblings(n)
            /\ \/ level(e[2]) = level(n) /\ e[2] \in u.refine
               \/ level(e[2]) = level(n) + 1 /\ e[2] \notin u.coarsen
      BY <2>6 DEF TooFine
    <3>2. n \in x.coarsen /\ ~TooFine(A, x, n)
      BY <2>5, <2>6 DEF SettledCoarsen
    <3>3. level(e[2]) = level(n) + 1 /\ e[2] \notin u.coarsen /\ e[2] \in x.coarsen
      BY <2>5, <3>1, <3>2 DEF TooFine
    <3>4. e[2] \in actions.nodes /\ level(n) \in Nat
      BY <3>3, <2>4, LevelOf DEF Acts
    <3>5. Depth(e[2]) < Depth(n) /\ Depth(n) \in Nat /\ Depth(e[2]) \in Nat
      <4>1. level(n) < level(e[2])
        BY <3>3, <3>4
      <4>2. Depth(e[2]) \in 1 .. NoLevels /\ Depth(n) \in 1 .. NoLevels
        BY <3>4, <2>4, DepthFacts
      <4> QED BY <4>1, <4>2, <3>4, <2>4, DepthFacts
    <3>6. Depth(e[2]) <= k
      BY <3>5, <2>6
    <3> QED BY <3>3, <3>6, <2>5
  <2>7. ASSUME NEW m \in x.coarsen, Depth(m) <= k
        PROVE  m \in v.coarsen
    <3>1. m \in u.coarsen /\ m \in actions.nodes
      BY <2>5, <2>7 DEF Acts
    <3>2. SUFFICES ASSUME n \in u.coarsen, TooFine(A, u, n), m \in siblings(n) PROVE FALSE
      BY <2>4, <3>1
    <3>3. Len(m) = Len(n)
      BY <3>2, <2>4, SiblingFacts
    <3>4. Depth(n) = Depth(m)
      BY <3>1, <3>3, <2>4, DepthFacts, LevelOf
    <3> QED BY <3>2, <3>4, <2>6, <2>7
  <2>8. v.coarsen \subseteq u.coarsen
    BY <2>4
  <2> QED BY <2>3, <2>4, <2>5, <2>7, <2>8
<1> HIDE DEF T
<1>9. Nat \subseteq T
  BY <1>7, <1>8, Induction
<1>10. \A j \in 0 .. L : Kept(h[j])
  <2>1. ASSUME NEW j \in 0 .. L PROVE Kept(h[j])
    <3>1. j \in T /\ j <= L
      BY <1>9
    <3> QED BY <3>1 DEF T
  <2> QED BY <2>1
<1>11. PICK y : y = h[L]
  OBVIOUS
<1>12. y \in Acts /\ Kept(y)
  <2>1. L \in 0 .. L
    OBVIOUS
  <2> QED BY <2>1, <1>5, <1>10, <1>11
<1>13. ASSUME NEW j \in 0 .. L
       PROVE  y.coarsen \subseteq h[j].coarsen
  <2>1. PICK F : F = [i \in 0 .. L |-> h[i].coarsen]
    OBVIOUS
  <2>2. ASSUME NEW i \in 1 .. L PROVE F[i] \subseteq F[i - 1]
    <3>1. i \in 0 .. L /\ i - 1 \in 0 .. L
      OBVIOUS
    <3>2. F[i] = h[i].coarsen /\ F[i - 1] = h[i - 1].coarsen
      BY <2>1, <3>1
    <3>3. Turn(h[i - 1], h[i], s[i])
      BY <1>6
    <3> QED BY <3>2, <3>3
  <2>3. \A l \in 0 .. L : \A i \in 0 .. l : F[l] \subseteq F[i]
    BY <2>2, ChainShrinks
  <2>4. L \in 0 .. L
    OBVIOUS
  <2>5. F[L] \subseteq F[j]
    BY <2>3, <2>4
  <2> QED BY <2>1, <2>4, <2>5, <1>11
<1>14. ASSUME NEW n \in y.coarsen, Depth(n) <= k + 1, TooFine(A, y, n)
       PROVE  FALSE
  <2>1. n \in actions.nodes
    BY <1>12 DEF Acts
  <2>2. PICK j \in 1 .. L : s[j] = n
    BY <2>1, <1>3 DEF Visits
  <2>3. PICK u : u = h[j - 1]
    OBVIOUS
  <2>4. j - 1 \in 0 .. L /\ j \in 0 .. L
    OBVIOUS
  <2>5. n \in h[j].coarsen /\ y.coarsen \subseteq u.coarsen /\ u \in Acts /\ Kept(u)
    BY <1>5, <1>10, <1>13, <2>3, <2>4
  <2>6. n \in siblings(n)
    BY <2>1, SiblingFacts
  <2>7. ~TooFine(A, u, n)
    <3>1. PICK v : v = h[j]
      OBVIOUS
    <3>2. u = h[j - 1] /\ n = s[j]
      BY <2>2, <2>3
    <3>3. Turn(u, v, n)
      <4> HIDE DEF Turn
      <4> QED BY <1>6, <3>1, <3>2
    <3> QED BY <3>1, <3>3, <2>5, <2>6
  <2>8. PICK e \in A :
          /\ e[1] \in siblings(n)
          /\ \/ level(e[2]) = level(n) /\ e[2] \in y.refine
             \/ level(e[2]) = level(n) + 1 /\ e[2] \notin y.coarsen
    BY <1>14 DEF TooFine
  <2>9. level(e[2]) = level(n) + 1 /\ e[2] \notin y.coarsen /\ e[2] \in u.coarsen
    BY <2>5, <2>7, <2>8, <1>12 DEF TooFine
  <2>10. e[2] \in actions.nodes /\ level(n) \in Nat /\ e[2] \in x.coarsen
    BY <2>1, <2>5, <2>9, LevelOf DEF Acts
  <2>11. Depth(e[2]) < Depth(n) /\ Depth(n) \in Nat /\ Depth(e[2]) \in Nat
    <3>1. level(n) < level(e[2])
      BY <2>9, <2>10
    <3>2. Depth(e[2]) \in 1 .. NoLevels /\ Depth(n) \in 1 .. NoLevels
      BY <2>1, <2>10, DepthFacts
    <3> QED BY <3>1, <3>2, <2>1, <2>10, DepthFacts
  <2>12. Depth(e[2]) <= k
    BY <2>11, <1>14
  <2> QED BY <2>9, <2>10, <2>12, <1>12
<1>15. ASSUME NoLevels <= k
       PROVE  y = x
  <2>1. \A n \in x.coarsen : Depth(n) \in 1 .. NoLevels
    <3>1. \A n \in x.coarsen : n \in actions.nodes
      BY DEF Acts
    <3> QED BY <3>1, DepthFacts
  <2>2. NoLevels \in Nat
    <3>1. {level(m) : m \in actions.nodes} = {level(m) : m \in actions.nodes}
      OBVIOUS
    <3>2. actions.nodes \in SUBSET actions.nodes
      OBVIOUS
    <3> QED BY <3>2, LevelsFinite DEF NoLevels
  <2>3. \A n \in x.coarsen : Depth(n) <= k
    BY <1>15, <2>1, <2>2
  <2>4. y.coarsen = x.coarsen /\ y.refine = x.refine
    BY <2>3, <1>12
  <2> QED BY <2>4, <1>12 DEF Acts
<1> QED BY <1>2, <1>3, <1>11, <1>12, <1>14, <1>15 DEF SettledCoarsen

(* The third pass settles the refinement of one more level, and keeps the    *)
(* coarsening settled: a node is marked because of a finer one.              *)
LEMMA ThirdPass ==
  ASSUME actions.nodes \in SUBSET Path, IsFiniteSet(actions.nodes), NEW A, NEW k \in Nat,
         NEW x \in Acts, Whole(x), SettledRefine(A, x, k), SettledCoarsen(A, x, k + 1),
         NEW s, Visits(s)
  PROVE  LET y == RefineAllCoarser(A, x, s) IN
         /\ y \in Acts /\ Whole(y) /\ Settled(A, y, k + 1)
         /\ NoLevels <= k => y = x
<1>1. s \in Seq(actions.nodes)
  BY DEF Visits
<1>2. PICK h \in [0 .. Len(s) -> Acts] :
        /\ h[0] = x /\ RefineAllCoarser(A, x, s) = h[Len(s)]
        /\ \A j \in 1 .. Len(s) : h[j] = RefineCoarser(A, h[j - 1], s[j])
  <2>1. RefinesThrough(A, x, s)
    BY <1>1, RefinePass
  <2> QED BY <2>1 DEF RefinesThrough
<1>3. PICK L \in Nat : L = Len(s)
  BY <1>1
<1>4. \A j \in 1 .. L : s[j] \in actions.nodes
  BY <1>1, <1>3
<1>5. \A j \in 0 .. L : h[j] \in Acts
  BY <1>2, <1>3
<1> DEFINE More(u, n) == IF n \in u.refine THEN MoreToRefine(A, u, n) ELSE {}
           Turn(u, v, n) ==
             /\ u \in Acts /\ n \in actions.nodes
             /\ v.refine = u.refine \cup More(u, n)
             /\ v.coarsen = u.coarsen \ More(u, n)
             /\ Whole(u) => Whole(v)
<1>6. ASSUME NEW j \in 1 .. L, NEW u, NEW v, NEW n, u = h[j - 1], v = h[j], n = s[j]
      PROVE  Turn(u, v, n)
  <2>1. j - 1 \in 0 .. L
    OBVIOUS
  <2>2. u \in Acts /\ n \in actions.nodes
    BY <1>4, <1>5, <1>6, <2>1
  <2>3. v = RefineCoarser(A, u, n)
    BY <1>2, <1>3, <1>6
  <2> QED BY <2>2, <2>3, RefineTurn
<1> DEFINE Kept(y) == /\ x.refine \subseteq y.refine /\ y.coarsen \subseteq x.coarsen
                      /\ Whole(y)
                      /\ \A n \in y.refine : Depth(n) <= k + 1 => n \in x.refine
                      /\ \A n \in x.coarsen : Depth(n) <= k + 1 => n \in y.coarsen
           T == {j \in Nat : j <= L => Kept(h[j])}
<1>7. 0 \in T
  BY <1>2
<1>8. ASSUME NEW j \in Nat, j \in T PROVE j + 1 \in T
  <2>1. SUFFICES ASSUME j + 1 <= L PROVE Kept(h[j + 1])
    OBVIOUS
  <2>2. j + 1 \in 1 .. L /\ j + 1 - 1 = j /\ j \in 0 .. L
    BY <2>1
  <2>3. PICK u, v, n : u = h[j] /\ v = h[j + 1] /\ n = s[j + 1]
    OBVIOUS
  <2>4. Turn(u, v, n)
    <3>1. u = h[(j + 1) - 1] /\ v = h[j + 1] /\ n = s[j + 1]
      BY <2>2, <2>3
    <3> HIDE DEF Turn
    <3> QED BY <1>6, <2>2, <3>1
  <2>5. Kept(u)
    BY <1>8, <2>1, <2>2, <2>3
  <2>6. ASSUME NEW m \in More(u, n), Depth(m) <= k + 1
        PROVE  FALSE
    <3>1. n \in u.refine /\ m \in MoreToRefine(A, u, n)
      BY <2>6
    <3>2. PICK q \in {i \in u.nodes : <<n, i>> \in A /\ level(i) < level(n)} \ u.refine :
            m \in siblings(q)
      BY <3>1 DEF MoreToRefine
    <3>3. /\ q \in actions.nodes /\ n \in actions.nodes
          /\ <<n, q>> \in A /\ level(q) < level(n) /\ q \notin u.refine
      BY <2>4, <3>2 DEF Acts
    <3>4. m \in actions.nodes /\ level(m) = level(q)
      BY <3>2, <3>3, SiblingFacts, LevelOf
    <3>5. /\ Depth(m) = Depth(q) /\ Depth(n) < Depth(q)
          /\ Depth(n) \in Nat /\ Depth(q) \in Nat
      <4>1. Depth(n) \in 1 .. NoLevels /\ Depth(q) \in 1 .. NoLevels
        BY <3>3, DepthFacts
      <4> QED BY <3>3, <3>4, <4>1, DepthFacts
    <3>6. Depth(n) <= k
      BY <3>5, <2>6
    <3>7. Depth(n) <= k + 1
      BY <3>5, <3>6
    <3>8. n \in x.refine
      BY <2>5, <3>1, <3>7
    <3>9. q \in x.refine
      BY <3>3, <3>6, <3>8 DEF SettledRefine
    <3> QED BY <2>5, <3>3, <3>9
  <2>7. /\ v.refine = u.refine \cup More(u, n)
        /\ v.coarsen = u.coarsen \ More(u, n)
        /\ Whole(u) => Whole(v)
    BY <2>4
  <2> HIDE DEF More
  <2>8. \A m \in v.refine : Depth(m) <= k + 1 => m \in x.refine
    BY <2>5, <2>6, <2>7
  <2>9. \A m \in x.coarsen : Depth(m) <= k + 1 => m \in v.coarsen
    BY <2>5, <2>6, <2>7
  <2> QED BY <2>3, <2>5, <2>7, <2>8, <2>9
<1> HIDE DEF T
<1>9. Nat \subseteq T
  BY <1>7, <1>8, Induction
<1>10. \A j \in 0 .. L : Kept(h[j])
  <2>1. ASSUME NEW j \in 0 .. L PROVE Kept(h[j])
    <3>1. j \in T /\ j <= L
      BY <1>9
    <3> QED BY <3>1 DEF T
  <2> QED BY <2>1
<1>11. PICK y : y = h[L]
  OBVIOUS
<1>12. y \in Acts /\ Kept(y)
  <2>1. L \in 0 .. L
    OBVIOUS
  <2> QED BY <2>1, <1>5, <1>10, <1>11
<1>13. ASSUME NEW j \in 0 .. L
       PROVE  h[j].refine \subseteq y.refine
  <2>1. PICK F : F = [i \in 0 .. L |-> h[i].refine]
    OBVIOUS
  <2>2. ASSUME NEW i \in 1 .. L PROVE F[i - 1] \subseteq F[i]
    <3>1. i \in 0 .. L /\ i - 1 \in 0 .. L
      OBVIOUS
    <3>2. F[i] = h[i].refine /\ F[i - 1] = h[i - 1].refine
      BY <2>1, <3>1
    <3>3. PICK u, v, n : u = h[i - 1] /\ v = h[i] /\ n = s[i]
      OBVIOUS
    <3>4. Turn(u, v, n)
      <4> HIDE DEF Turn
      <4> QED BY <1>6, <3>3
    <3> QED BY <3>2, <3>3, <3>4
  <2>3. \A l \in 0 .. L : \A i \in 0 .. l : F[i] \subseteq F[l]
    BY <2>2, ChainGrows
  <2>4. L \in 0 .. L
    OBVIOUS
  <2>5. F[j] \subseteq F[L]
    BY <2>3, <2>4
  <2> QED BY <2>1, <2>4, <2>5, <1>11
<1>14. SettledRefine(A, y, k + 1)
  <2>1. SUFFICES ASSUME NEW n \in y.refine, NEW m \in actions.nodes, Depth(n) <= k + 1,
                        <<n, m>> \in A, level(m) < level(n)
                 PROVE  m \in y.refine
    BY DEF SettledRefine
  <2>2. n \in actions.nodes
    BY <1>12 DEF Acts
  <2>3. PICK j \in 1 .. L : s[j] = n
    BY <2>2, <1>3 DEF Visits
  <2>4. PICK u, v : u = h[j - 1] /\ v = h[j]
    OBVIOUS
  <2>5. j - 1 \in 0 .. L /\ j \in 0 .. L
    OBVIOUS
  <2>6. u \in Acts /\ Kept(u) /\ v.refine \subseteq y.refine
    BY <1>5, <1>10, <1>13, <2>4, <2>5
  <2>7. n \in u.refine
    BY <2>1, <2>6, <1>12
  <2>8. Turn(u, v, n)
    <3> HIDE DEF Turn
    <3> QED BY <1>6, <2>3, <2>4
  <2>9. m \in u.refine \/ m \in MoreToRefine(A, u, n)
    <3>1. SUFFICES ASSUME m \notin u.refine PROVE m \in MoreToRefine(A, u, n)
      OBVIOUS
    <3>2. u.nodes = actions.nodes
      BY <2>6 DEF Acts
    <3>3. m \in {i \in u.nodes : <<n, i>> \in A /\ level(i) < level(n)} \ u.refine
      BY <2>1, <3>1, <3>2
    <3>4. m \in siblings(m)
      BY SiblingFacts
    <3> QED BY <3>3, <3>4 DEF MoreToRefine
  <2> QED BY <2>6, <2>7, <2>8, <2>9
<1>15. SettledCoarsen(A, y, k + 1)
  <2>1. SUFFICES ASSUME NEW n \in y.coarsen, Depth(n) <= k + 1, TooFine(A, y, n)
                 PROVE  FALSE
    BY DEF SettledCoarsen
  <2>2. n \in x.coarsen /\ n \in actions.nodes /\ ~TooFine(A, x, n)
    BY <2>1, <1>12 DEF SettledCoarsen, Acts
  <2>3. PICK e \in A :
          /\ e[1] \in siblings(n)
          /\ \/ level(e[2]) = level(n) /\ e[2] \in y.refine
             \/ level(e[2]) = level(n) + 1 /\ e[2] \notin y.coarsen
    BY <2>1 DEF TooFine
  <2>4. CASE level(e[2]) = level(n) /\ e[2] \in y.refine
    <3>1. e[2] \in actions.nodes
      BY <2>4, <1>12 DEF Acts
    <3>2. Depth(e[2]) = Depth(n)
      BY <2>2, <2>4, <3>1, DepthFacts
    <3>3. e[2] \in x.refine
      BY <2>1, <2>4, <3>2, <1>12
    <3> QED BY <2>2, <2>3, <2>4, <3>3 DEF TooFine
  <2>5. CASE level(e[2]) = level(n) + 1 /\ e[2] \notin y.coarsen
    <3>1. e[2] \in x.coarsen
      BY <2>2, <2>3, <2>5 DEF TooFine
    <3>2. e[2] \in actions.nodes /\ level(n) \in Nat
      BY <2>2, <3>1, LevelOf DEF Acts
    <3>3. Depth(e[2]) < Depth(n) /\ Depth(n) \in Nat /\ Depth(e[2]) \in Nat
      <4>1. level(n) < level(e[2])
        BY <2>5, <3>2
      <4>2. Depth(e[2]) \in 1 .. NoLevels /\ Depth(n) \in 1 .. NoLevels
        BY <2>2, <3>2, DepthFacts
      <4> QED BY <4>1, <4>2, <2>2, <3>2, DepthFacts
    <3>4. Depth(e[2]) <= k + 1
      BY <2>1, <3>3
    <3> QED BY <2>5, <3>1, <3>4, <1>12
  <2> QED BY <2>3, <2>4, <2>5
<1>16. ASSUME NoLevels <= k
       PROVE  y = x
  <2>1. \A n \in actions.nodes : Depth(n) \in 1 .. NoLevels
    BY DepthFacts
  <2>2. NoLevels \in Nat
    <3>1. actions.nodes \in SUBSET actions.nodes
      OBVIOUS
    <3> QED BY <3>1, LevelsFinite DEF NoLevels
  <2>3. \A n \in actions.nodes : Depth(n) <= k + 1
    BY <1>16, <2>1, <2>2
  <2>4. y.coarsen = x.coarsen /\ y.refine = x.refine
    <3>1. y.refine \subseteq actions.nodes /\ x.coarsen \subseteq actions.nodes
      BY <1>12 DEF Acts
    <3> QED BY <2>3, <3>1, <1>12
  <2> QED BY <2>4, <1>12 DEF Acts
<1> QED BY <1>2, <1>3, <1>11, <1>12, <1>14, <1>15, <1>16 DEF Settled

(* A round settles one more level, and changes nothing once all are settled. *)
Round(A, x, s) ==
  RefineAllCoarser(A, KeepCoarsenableGroups(A, KeepWholeGroups(x), s), s)

(* A round settles one more level, and changes nothing once all are settled  *)
(* (amr/state.hpp, enforce_2_to_1_ratio_step).                               *)
LEMMA RoundSettles ==
  ASSUME actions.nodes \in SUBSET Path, IsFiniteSet(actions.nodes), NEW A, NEW k \in Nat,
         NEW x \in Acts, Settled(A, x, k), k > 0 => Whole(x), NEW s, Visits(s)
  PROVE  /\ Round(A, x, s) \in Acts /\ Whole(Round(A, x, s))
         /\ Settled(A, Round(A, x, s), k + 1)
         /\ Whole(x) /\ NoLevels <= k => Round(A, x, s) = x
<1>1. PICK one : one = KeepWholeGroups(x)
  OBVIOUS
<1>2. /\ one \in Acts /\ one.refine = x.refine /\ Whole(one)
      /\ Whole(x) => one = x
  BY <1>1, WholeTurn
<1>3. SettledCoarsen(A, one, k)
  <2>1. CASE k > 0
    BY <2>1, <1>2 DEF Settled
  <2>2. CASE k = 0
    <3>1. \A n \in one.coarsen : Depth(n) \in 1 .. NoLevels
      <4>1. \A n \in one.coarsen : n \in actions.nodes
        BY <1>2 DEF Acts
      <4> QED BY <4>1, DepthFacts
    <3> QED BY <2>2, <3>1 DEF SettledCoarsen
  <2> QED BY <2>1, <2>2
<1>4. PICK two : two = KeepCoarsenableGroups(A, one, s)
  OBVIOUS
<1>5. /\ two \in Acts /\ Whole(two) /\ two.refine = one.refine
      /\ SettledCoarsen(A, two, k + 1)
      /\ NoLevels <= k => two = one
  BY <1>2, <1>3, <1>4, SecondPass
<1>6. SettledRefine(A, two, k)
  BY <1>2, <1>5 DEF Settled, SettledRefine
<1>7. PICK three : three = RefineAllCoarser(A, two, s)
  OBVIOUS
<1>8. /\ three \in Acts /\ Whole(three) /\ Settled(A, three, k + 1)
      /\ NoLevels <= k => three = two
  BY <1>5, <1>6, <1>7, ThirdPass
<1>9. Round(A, x, s) = three
  BY <1>1, <1>4, <1>7 DEF Round
<1> QED BY <1>2, <1>5, <1>8, <1>9

(* A round that changes nothing leaves nothing to settle. *)
LEMMA RoundEnds ==
  ASSUME actions.nodes \in SUBSET Path, IsFiniteSet(actions.nodes), NEW A, NEW k \in Nat,
         NEW x \in Acts, Settled(A, x, k), k > 0 => Whole(x), NEW s, Visits(s),
         Round(A, x, s) = x
  PROVE  /\ Whole(x)
         /\ \A n \in x.refine, m \in actions.nodes :
              <<n, m>> \in A /\ level(m) < level(n) => m \in x.refine
         /\ \A n \in x.coarsen : ~TooFine(A, x, n)
<1>1. Whole(x)
  BY RoundSettles
<1> DEFINE T == {j \in Nat : Settled(A, x, k + j)}
<1>2. 0 \in T
  OBVIOUS
<1>3. ASSUME NEW j \in Nat, j \in T PROVE j + 1 \in T
  <2>1. PICK i \in Nat : i = k + j
    OBVIOUS
  <2>2. Settled(A, x, i)
    BY <1>3, <2>1
  <2>3. Settled(A, x, i + 1)
    BY <1>1, <2>2, RoundSettles
  <2>4. k + (j + 1) = i + 1
    BY <2>1
  <2> QED BY <2>3, <2>4
<1> HIDE DEF T
<1>4. Nat \subseteq T
  BY <1>2, <1>3, Induction
<1>5. NoLevels \in Nat
  <2>1. actions.nodes \in SUBSET actions.nodes
    OBVIOUS
  <2> QED BY <2>1, LevelsFinite DEF NoLevels
<1>6. Settled(A, x, k + NoLevels)
  BY <1>4, <1>5 DEF T
<1>7. \A n \in actions.nodes : Depth(n) <= k + NoLevels
  <2>1. \A n \in actions.nodes : Depth(n) \in 1 .. NoLevels
    BY DepthFacts
  <2> QED BY <1>5, <2>1
<1>8. x.refine \subseteq actions.nodes /\ x.coarsen \subseteq actions.nodes
  BY DEF Acts
<1> QED BY <1>1, <1>6, <1>7, <1>8 DEF Settled, SettledRefine, SettledCoarsen

-----------------------------------------------------------------------------
(* What a step of the enforcement leaves alone. *)

(* The search depends on the tree only. *)
LEMMA SearchStays ==
  ASSUME refined' = refined
  PROVE  \A n : Bal!node_neighbors(n)' = Bal!node_neighbors(n)
BY DEF Bal!node_neighbors, Bal!neighbors_at, Bal!Neighbor, Bal!neighbor_idx, Bal!Manifold,
       Bal!neighbor_lookup_table, Bal!offset, Bal!shift_location, Bal!Coordinate, Bal!bit,
       Bal!Dimension, Bal!PathTo, Bal!child_pos, Bal!no_children, Bal!is_leaf,
       Bal!children_sharing_face, Bal!neighbor_children_sharing_face,
       Bal!node_or_parent_at, Bal!Tree!Exists, Bal!Max

(* The search among cells depends on the tree and the cells only. *)
LEMMA SearchInStays ==
  ASSUME refined' = refined, cells' = cells
  PROVE  \A n : Bal!node_neighbors_in(cells, n)' = Bal!node_neighbors_in(cells, n)
BY DEF Bal!node_neighbors_in, Bal!neighbors_at_in, Bal!Neighbor, Bal!neighbor_idx,
       Bal!Manifold, Bal!neighbor_lookup_table, Bal!offset, Bal!shift_location,
       Bal!Coordinate, Bal!bit, Bal!Dimension, Bal!PathTo, Bal!child_pos, Bal!no_children,
       Bal!is_leaf, Bal!children_sharing_face, Bal!neighbor_children_sharing_face,
       Bal!node_or_parent_at, Bal!Tree!Exists, Bal!Max

(* Siblings depend on the nodes of the target only. *)
LEMMA SiblingsStay ==
  ASSUME actions'.nodes = actions.nodes
  PROVE  \A n : siblings(n)' = siblings(n)
BY DEF siblings, parent, Front

(* Marks do not change who is next to whom. *)
LEMMA AdjacentStays ==
  ASSUME target' = target, refined' = refined, cells' = cells, actions'.nodes = actions.nodes
  PROVE  Adjacent' = Adjacent
<1>1. ASSUME NEW n PROVE neighbors(n)' = neighbors(n)
  BY SearchStays, SearchInStays DEF neighbors
<1> QED BY <1>1 DEF Adjacent

(* What is settled for the new marks is settled in the next state. *)
LEMMA SettledStays ==
  ASSUME actions'.nodes = actions.nodes, Adjacent' = Adjacent, NEW k, rounds' = k,
         NEW A, A = Adjacent, NEW x, actions' = x, Settled(A, x, k)
  PROVE  Settled(Adjacent, actions, rounds)'
<1>1. \A n : Depth(n)' = Depth(n)
  BY DEF Depth, level
<1>2. SettledRefine(A, x, k) /\ SettledCoarsen(A, x, k)
  BY DEF Settled
<1>3. SettledRefine(Adjacent, actions, rounds)'
  BY <1>1, <1>2 DEF SettledRefine
<1>4. \A n : TooFine(Adjacent, actions, n)' <=> TooFine(A, x, n)
  BY SiblingsStay DEF TooFine
<1>5. SettledCoarsen(Adjacent, actions, rounds)'
  BY <1>1, <1>2, <1>4 DEF SettledCoarsen
<1> QED BY <1>3, <1>5 DEF Settled

(* Groups that are whole in the new marks are whole in the next state. *)
LEMMA WholeStays ==
  ASSUME actions'.nodes = actions.nodes, NEW x, actions' = x, Whole(x)
  PROVE  Whole(actions)'
BY SiblingsStay DEF Whole

-----------------------------------------------------------------------------
(* What the enforcement means for a grid. *)

(* The coarser neighbours of a marked leaf are marked. *)
Wanted(marked, nodes) ==
  \A a, b \in Leaves(nodes) :
    a \in marked /\ Bal!Touch(a, b) /\ Len(b) < Len(a) => b \in marked

(* In a grid, which is balanced, the enforcement sees exactly the leaves     *)
(* that touch a leaf.                                                        *)
LEMMA AdjacentMeans ==
  ASSUME TreeSet(refined), IsFiniteSet(refined), Bal!Balanced(refined), target = "grid",
         actions.nodes = Leaves(refined)
  PROVE  \A n, m \in Leaves(refined) : <<n, m>> \in Adjacent <=> n # m /\ Bal!Touch(n, m)
<1> SUFFICES ASSUME NEW n \in Leaves(refined), NEW m \in Leaves(refined)
             PROVE  <<n, m>> \in Adjacent <=> n # m /\ Bal!Touch(n, m)
  OBVIOUS
<1>1. \A k \in Leaves(refined) : neighbors(k) = {i \in Leaves(refined) \ {k} : Bal!Touch(k, i)}
  <2>1. SUFFICES ASSUME NEW k \in Leaves(refined)
                 PROVE  neighbors(k) = {i \in Leaves(refined) \ {k} : Bal!Touch(k, i)}
    OBVIOUS
  <2>2. Bal!node_neighbors(k) = {i \in Leaves(refined) \ {k} : Bal!Touch(k, i)}
    BY SearchFindsLeaves
  <2>3. neighbors(k) = actions.nodes \cap Bal!node_neighbors(k)
    BY DEF neighbors
  <2> QED BY <2>2, <2>3
<1>2. <<n, m>> \in Adjacent <=> \E k \in Leaves(refined) : <<n, m>> \in {k} \X neighbors(k)
  BY DEF Adjacent
<1>3. <<n, m>> \in Adjacent <=> m \in neighbors(n)
  BY <1>2
<1> QED BY <1>1, <1>3

(* A grid whose marks are settled stays balanced when the groups are         *)
(* coarsened, and then balanced_refine finds every coarser neighbour of a    *)
(* marked leaf marked.                                                       *)
LEMMA GridSettled ==
  ASSUME TreeSet(refined), IsFiniteSet(refined), Bal!Balanced(refined), target = "grid",
         actions.nodes = Leaves(refined), NEW x \in Acts, Whole(x),
         \A n \in x.refine, m \in actions.nodes :
           <<n, m>> \in Adjacent /\ level(m) < level(n) => m \in x.refine,
         \A n \in x.coarsen : ~TooFine(Adjacent, x, n),
         NEW less, less = {parent(n) : n \in x.coarsen}
  PROVE  /\ less \subseteq refined
         /\ \A n \in less, p \in child_pos : Append(n, p) \in x.coarsen
         /\ Bal!Balanced(refined \ less)
         /\ x.refine \subseteq Leaves(refined \ less)
         /\ Wanted(x.refine, refined \ less)
<1>1. actions.nodes \in SUBSET Path
  BY LeafFacts
<1>2. x.refine \subseteq Leaves(refined) /\ x.coarsen \subseteq Leaves(refined)
      /\ x.refine \cap x.coarsen = {}
  BY DEF Acts
<1>3. ASSUME NEW n \in x.coarsen
      PROVE  /\ n \in Path /\ n # <<>> /\ parent(n) \in refined /\ parent(n) \in less
             /\ Len(parent(n)) + 1 = Len(n)
             /\ \A p \in child_pos : Append(parent(n), p) \in x.coarsen
  <2>1. n \in Leaves(refined) /\ n \in Path
    BY <1>2, LeafFacts
  <2>2. siblings(n) \subseteq x.coarsen /\ Cardinality(siblings(n)) = no_children(Nd)
    BY DEF Whole
  <2>3. n # <<>> /\ siblings(n) = {Append(parent(n), p) : p \in child_pos}
    BY <1>1, <2>1, <2>2, WholeGroup
  <2> QED BY <2>1, <2>2, <2>3, LeafFacts, ParentOf
<1>4. \A n \in less : n \in refined /\ n \in Path /\ \A p \in child_pos : Append(n, p) \in x.coarsen
  BY <1>3 DEF TreeSet
<1>5. \A n \in less, p \in child_pos : Append(n, p) \notin refined
  BY <1>2, <1>4, LeafFacts
<1>6. less \in SUBSET refined
  BY <1>4
<1>7. /\ TreeSet(refined \ less)
      /\ Leaves(refined \ less) = (Leaves(refined) \ Children(less)) \cup less
  BY <1>5, <1>6, CoarsenedLeaves
<1>8. \A n, m \in Leaves(refined) : <<n, m>> \in Adjacent <=> n # m /\ Bal!Touch(n, m)
  BY AdjacentMeans
<1>9. \A n \in Leaves(refined) : level(n) = Len(n) /\ Len(n) \in Nat /\ n \in Path
  BY LeafFacts DEF level, node_level
<1>10. ASSUME NEW n \in x.coarsen, NEW a \in Leaves(refined), Bal!Touch(n, a), a # n
       PROVE  /\ Len(a) = Len(n) => a \notin x.refine
              /\ Len(a) = Len(n) + 1 => a \in x.coarsen
  <2>1. n \in Leaves(refined) /\ n \in siblings(n)
    BY <1>1, <1>2, SiblingFacts
  <2>2. PICK e : e = <<n, a>>
    OBVIOUS
  <2>3. e \in Adjacent /\ e[1] \in siblings(n) /\ e[2] = a
    BY <1>8, <1>10, <2>1, <2>2
  <2>4. ~TooFine(Adjacent, x, n)
    OBVIOUS
  <2>5. /\ ~(level(a) = level(n) /\ a \in x.refine)
        /\ ~(level(a) = level(n) + 1 /\ a \notin x.coarsen)
    BY <2>3, <2>4 DEF TooFine
  <2> QED BY <1>9, <2>1, <2>5
<1>11. Bal!Balanced(refined \ less)
  <2>1. ASSUME NEW n \in less, NEW p \in child_pos, NEW a \in Leaves(refined),
               Bal!Touch(Append(n, p), a), Len(a) = Len(n) + 2
        PROVE  a \in Children(less)
    <3>1. PICK c : c = Append(n, p)
      OBVIOUS
    <3>2. c \in x.coarsen /\ Len(c) = Len(n) + 1 /\ Len(n) \in Nat
      BY <1>4, <2>1, <3>1, ChildOf
    <3>3. a # c /\ Len(a) = Len(c) + 1
      BY <2>1, <3>2
    <3>4. a \in x.coarsen
      BY <1>10, <2>1, <3>1, <3>2, <3>3
    <3>5. parent(a) \in less /\ \E o \in child_pos : a = Append(parent(a), o)
      BY <1>3, <3>4, ParentOf
    <3> QED BY <3>5, ChildrenOf
  <2> QED BY <1>5, <1>6, <2>1, CoarsenKeeps
<1>12. ASSUME NEW a \in x.refine PROVE a \notin Children(less)
  <2>1. SUFFICES ASSUME NEW m \in less, NEW p \in child_pos, a = Append(m, p) PROVE FALSE
    BY ChildrenOf
  <2> QED BY <1>2, <1>4, <2>1
<1>13. x.refine \subseteq Leaves(refined \ less)
  BY <1>2, <1>7, <1>12
<1>14. Wanted(x.refine, refined \ less)
  <2>1. SUFFICES ASSUME NEW a \in Leaves(refined \ less), NEW b \in Leaves(refined \ less),
                        a \in x.refine, Bal!Touch(a, b), Len(b) < Len(a)
                 PROVE  b \in x.refine
    BY DEF Wanted
  <2>2. a \in Leaves(refined)
    BY <1>2, <2>1
  <2>3. CASE b \in Leaves(refined)
    <3>1. Len(a) \in Nat /\ Len(b) \in Nat
      BY <1>9, <2>2, <2>3
    <3>2. a # b
      BY <2>1, <3>1
    <3>3. <<a, b>> \in Adjacent /\ level(b) < level(a)
      BY <1>8, <1>9, <2>1, <2>2, <2>3, <3>2
    <3> QED BY <2>1, <2>3, <3>3
  <2>4. CASE b \in less
    <3>1. b \in Path /\ a \in Path /\ Len(a) \in Nat /\ Bal!Touch(b, a)
      BY <1>4, <1>9, <2>1, <2>2, <2>4, TouchMutual
    <3>2. PICK p \in child_pos : Bal!Touch(Append(b, p), a)
      BY <3>1, ChildTouches
    <3>3. PICK c : c = Append(b, p)
      OBVIOUS
    <3>4. c \in x.coarsen /\ Len(c) = Len(b) + 1 /\ Len(b) \in Nat /\ c \in Leaves(refined)
      BY <1>2, <1>4, <2>4, <3>1, <3>3, ChildOf
    <3>5. a # c /\ a \notin x.coarsen
      BY <1>2, <2>1, <3>4
    <3>6. Bal!Touch(c, a) /\ Bal!Touch(a, c)
      BY <3>2, <3>3, TouchMutual
    <3>7. ~(Len(a) > Len(c) + 1)
      BY <2>2, <3>4, <3>6, BalancedMeans
    <3>8. Len(a) # Len(c) /\ Len(a) # Len(c) + 1
      BY <1>10, <2>1, <2>2, <3>4, <3>5, <3>6
    <3> QED BY <2>1, <3>1, <3>4, <3>7, <3>8
  <2> QED BY <1>7, <2>3, <2>4
<1> QED BY <1>4, <1>6, <1>11, <1>13, <1>14

-----------------------------------------------------------------------------
(* What balanced_refine refines. *)

(* balanced_refine asks for the leaves that touch a leaf from one level      *)
(* above.                                                                    *)
LEMMA CoarserMeans ==
  ASSUME TreeSet(refined), IsFiniteSet(refined), Bal!Balanced(refined),
         NEW m \in Leaves(refined), NEW k
  PROVE  k \in Coarser(m) <=>
           k \in Leaves(refined) /\ Bal!Touch(m, k) /\ Len(m) = Len(k) + 1
<1>1. Bal!node_neighbors(m) = {i \in Leaves(refined) \ {m} : Bal!Touch(m, i)}
  BY SearchFindsLeaves
<1>2. k \in Coarser(m) <=>
        k \in Bal!node_neighbors(m) /\ Len(k) = Len(m) - 1 /\ k \notin refined
  BY DEF Coarser, Bal!Call, Bal!is_leaf, Bal!node_level
<1>3. Len(m) \in Nat /\ \A i \in Leaves(refined) : Len(i) \in Nat /\ i \notin refined
  BY LeafFacts
<1> QED BY <1>1, <1>2, <1>3

(* A set of leaves with the coarser neighbours of its members. *)
Closed(S) ==
  \A m \in S, k \in Leaves(refined) :
    Bal!Touch(m, k) /\ Len(m) = Len(k) + 1 => k \in S

(* What a leaf needs is the smallest such set that has the leaf. *)
LEMMA NeededFacts ==
  ASSUME TreeSet(refined), IsFiniteSet(refined), Bal!Balanced(refined),
         NEW n \in Leaves(refined)
  PROVE  /\ n \in Needed(n) /\ Needed(n) \subseteq Leaves(refined)
         /\ Closed(Needed(n))
         /\ \A S \in SUBSET Leaves(refined) : n \in S /\ Closed(S) => Needed(n) \subseteq S
<1>1. PICK coarser : coarser = UNION {{m} \X Coarser(m) : m \in Leaves(refined)}
  OBVIOUS
<1>2. PICK closed : closed = {S \in SUBSET Leaves(refined) :
                                n \in S /\ \A e \in coarser : e[1] \in S => e[2] \in S}
  OBVIOUS
<1>3. Needed(n) = {m \in Leaves(refined) : \A S \in closed : m \in S}
  BY <1>1, <1>2 DEF Needed
<1>4. ASSUME NEW S \in SUBSET Leaves(refined)
      PROVE  (\A e \in coarser : e[1] \in S => e[2] \in S) <=> Closed(S)
  <2>1. ASSUME \A e \in coarser : e[1] \in S => e[2] \in S PROVE Closed(S)
    <3>1. SUFFICES ASSUME NEW m \in S, NEW k \in Leaves(refined), Bal!Touch(m, k),
                          Len(m) = Len(k) + 1
                   PROVE  k \in S
      BY DEF Closed
    <3>2. m \in Leaves(refined)
      OBVIOUS
    <3>3. k \in Coarser(m)
      BY <3>1, <3>2, CoarserMeans
    <3>4. PICK e : e = <<m, k>>
      OBVIOUS
    <3>5. e \in coarser /\ e[1] = m /\ e[2] = k
      BY <1>1, <3>2, <3>3, <3>4
    <3> QED BY <2>1, <3>5
  <2>2. ASSUME Closed(S), NEW e \in coarser, e[1] \in S PROVE e[2] \in S
    <3>1. PICK m \in Leaves(refined) : e \in {m} \X Coarser(m)
      BY <1>1
    <3>2. e[1] = m /\ e[2] \in Coarser(m)
      BY <3>1
    <3>3. PICK k : k = e[2]
      OBVIOUS
    <3>4. k \in Coarser(m)
      BY <3>2, <3>3
    <3>5. k \in Leaves(refined) /\ Bal!Touch(m, k) /\ Len(m) = Len(k) + 1
      BY <3>4, CoarserMeans
    <3> QED BY <2>2, <3>2, <3>3, <3>5 DEF Closed
  <2> QED BY <2>1, <2>2
<1>5. \A S : S \in closed <=> S \in SUBSET Leaves(refined) /\ n \in S /\ Closed(S)
  BY <1>2, <1>4
<1>6. n \in Needed(n) /\ Needed(n) \subseteq Leaves(refined)
  BY <1>3, <1>5
<1>7. Closed(Needed(n))
  <2>1. SUFFICES ASSUME NEW m \in Needed(n), NEW k \in Leaves(refined), Bal!Touch(m, k),
                        Len(m) = Len(k) + 1
                 PROVE  k \in Needed(n)
    BY DEF Closed
  <2>2. ASSUME NEW S \in closed PROVE k \in S
    <3>1. m \in S /\ Closed(S)
      BY <1>3, <1>5, <2>1
    <3> QED BY <2>1, <3>1 DEF Closed
  <2> QED BY <1>3, <2>2
<1>8. \A S \in SUBSET Leaves(refined) : n \in S /\ Closed(S) => Needed(n) \subseteq S
  BY <1>3, <1>5
<1> QED BY <1>6, <1>7, <1>8

(* A call of balanced_refine leaves a balanced tree within its capacity,     *)
(* whether or not there is room for all that it needs.                       *)
LEMMA RefinementFacts ==
  ASSUME TreeSet(refined), IsFiniteSet(refined), Bal!Balanced(refined),
         Cardinality(refined) <= MaxRefined,
         NEW n \in Leaves(refined), NEW S \in Refinements(n)
  PROVE  /\ S \subseteq Needed(n) /\ S \subseteq Leaves(refined)
         /\ TreeSet(refined \cup S) /\ IsFiniteSet(refined \cup S)
         /\ Bal!Balanced(refined \cup S)
         /\ Leaves(refined \cup S) = (Leaves(refined) \ S) \cup Children(S)
         /\ Cardinality(refined \cup S) <= MaxRefined
         /\ S = Needed(n) \/ Cardinality(refined \cup S) = MaxRefined
         /\ Cardinality(refined) = MaxRefined => S = {}
<1>1. PICK needed : needed = Needed(n)
  OBVIOUS
<1>2. PICK before : before = UNION {{q} \X Coarser(q) : q \in needed}
  OBVIOUS
<1>3. MaxRefined \in Nat /\ Cardinality(refined) \in Nat
  BY AmrAssumption, FS_CardinalityType
<1>4. PICK room \in Nat : room = MaxRefined - Cardinality(refined)
  BY <1>3
<1>5. n \in needed /\ needed \subseteq Leaves(refined) /\ Closed(needed)
  BY <1>1, NeededFacts
<1>6. IsFiniteSet(needed) /\ Cardinality(needed) \in Nat
  <2>1. IsFiniteSet(Leaves(refined)) /\ needed \in SUBSET Leaves(refined)
    BY <1>5, LeavesFinite
  <2> QED BY <2>1, FS_Subset, FS_CardinalityType
<1>7. \/ Cardinality(needed) <= room /\ S = needed
      \/ /\ room < Cardinality(needed) /\ S \in SUBSET needed /\ Cardinality(S) = room
         /\ \A e \in before : e[1] \in S => e[2] \in S
  <2>1. CASE Cardinality(needed) <= room
    BY <1>1, <1>4, <2>1 DEF Refinements
  <2>2. CASE room < Cardinality(needed)
    <3>1. Refinements(n) = {nodes \in kSubset(room, needed) :
                              \A e \in before : e[1] \in nodes => e[2] \in nodes}
      BY <1>1, <1>2, <1>4, <1>6, <2>2 DEF Refinements
    <3>2. kSubset(room, needed) = {s \in SUBSET needed : Cardinality(s) = room}
      BY DEF kSubset
    <3> QED BY <2>2, <3>1, <3>2
  <2> QED BY <1>4, <1>6, <2>1, <2>2
<1>8. S \in SUBSET needed /\ S \in SUBSET Leaves(refined)
  BY <1>5, <1>7
<1>9. Closed(S)
  <2>1. CASE S = needed
    BY <1>5, <2>1
  <2>2. CASE \A e \in before : e[1] \in S => e[2] \in S
    <3>1. SUFFICES ASSUME NEW m \in S, NEW k \in Leaves(refined), Bal!Touch(m, k),
                          Len(m) = Len(k) + 1
                   PROVE  k \in S
      BY DEF Closed
    <3>2. m \in Leaves(refined) /\ m \in needed
      BY <1>8
    <3>3. k \in Coarser(m)
      BY <3>1, <3>2, CoarserMeans
    <3>4. PICK e : e = <<m, k>>
      OBVIOUS
    <3>5. e \in before /\ e[1] = m /\ e[2] = k
      BY <1>2, <3>2, <3>3, <3>4
    <3> QED BY <2>2, <3>5
  <2> QED BY <1>7, <2>1, <2>2
<1>10. /\ TreeSet(refined \cup S)
       /\ Leaves(refined \cup S) = (Leaves(refined) \ S) \cup Children(S)
  BY <1>8, RefinedLeaves
<1>11. Bal!Balanced(refined \cup S)
  BY <1>8, <1>9, RefineKeeps DEF Closed
<1>12. IsFiniteSet(S) /\ Cardinality(S) \in Nat
  BY <1>6, <1>8, FS_Subset, FS_CardinalityType
<1>13. /\ IsFiniteSet(refined \cup S)
       /\ Cardinality(refined \cup S) = Cardinality(refined) + Cardinality(S)
  <2>1. refined \cap S = {}
    BY <1>8, LeafFacts
  <2>2. IsFiniteSet(refined \cup S)
    BY <1>12, FS_Union
  <2>3. Cardinality(refined \cup S) =
          Cardinality(refined) + Cardinality(S) - Cardinality(refined \cap S)
    BY <1>12, FS_Union
  <2>4. Cardinality(refined \cap S) = 0
    BY <2>1, FS_EmptySet
  <2> QED BY <1>3, <1>12, <2>2, <2>3, <2>4
<1>14. /\ Cardinality(refined \cup S) <= MaxRefined
       /\ S = needed \/ Cardinality(refined \cup S) = MaxRefined
  BY <1>3, <1>4, <1>7, <1>12, <1>13
<1>15. ASSUME Cardinality(refined) = MaxRefined PROVE S = {}
  <2>1. room = 0
    BY <1>3, <1>4, <1>15
  <2>2. Cardinality(needed) # 0
    BY <1>5, <1>6, FS_EmptySet
  <2>3. Cardinality(S) = 0
    BY <1>6, <1>7, <2>1, <2>2
  <2> QED BY <1>12, <2>3, FS_EmptySet
<1> QED BY <1>1, <1>8, <1>10, <1>11, <1>13, <1>14, <1>15

-----------------------------------------------------------------------------
(* Which nodes lie in which. *)

(* Node b lies in node a. *)
Above(a, b) == Len(a) <= Len(b) /\ \A i \in 1 .. Len(a) : a[i] = b[i]

(* That is what a prefix of a path means. *)
LEMMA PrefixMeans ==
  ASSUME NEW a \in Path, NEW b \in Path
  PROVE  IsPrefix(a, b) <=> Above(a, b)
<1>1. PICK v \in Nat, w \in Nat : v = Len(a) /\ w = Len(b)
  BY PathElements
<1>2. CASE v <= w
  <2>1. SubSeq(a, 1, v) = SubSeq(b, 1, v) <=> \A j \in 1 .. v : a[j] = b[j]
    BY <1>1, <1>2, SameStart
  <2> QED BY <1>1, <1>2, <2>1 DEF IsPrefix, Above
<1>3. CASE ~(v <= w)
  BY <1>1, <1>3 DEF IsPrefix, Above
<1> QED BY <1>2, <1>3

(* A node lies in itself. *)
LEMMA AboveSelf ==
  ASSUME NEW a \in Path
  PROVE  Above(a, a)
BY PathElements DEF Above

(* What lies in a node lies in all that the node lies in. *)
LEMMA AboveTransitive ==
  ASSUME NEW a \in Path, NEW b \in Path, NEW c \in Path, Above(a, b), Above(b, c)
  PROVE  Above(a, c)
BY PathElements DEF Above

(* A node that lies in another one and is not deeper is the other one. *)
LEMMA AboveAntisymmetric ==
  ASSUME NEW a \in Path, NEW b \in Path, Above(a, b), Len(b) <= Len(a)
  PROVE  a = b
<1>1. Len(a) = Len(b)
  BY PathElements DEF Above
<1> QED BY <1>1, PathsEqual DEF Above

(* Of two nodes that contain a third one contains the other. *)
LEMMA AboveSame ==
  ASSUME NEW a \in Path, NEW b \in Path, NEW c \in Path, Above(a, c), Above(b, c)
  PROVE  Above(a, b) \/ Above(b, a)
BY PathElements DEF Above

(* The path of a child is that of its parent and a position. *)
LEMMA ElementsOfChild ==
  ASSUME NEW n \in Path, NEW p \in child_pos
  PROVE  /\ \A i \in 1 .. Len(n) : Append(n, p)[i] = n[i]
         /\ Append(n, p)[Len(n) + 1] = p
<1>1. n \in Seq(child_pos)
  BY DEF Path
<1> QED BY <1>1

(* A child lies in its parent, and in what its parent lies in. *)
LEMMA AboveChild ==
  ASSUME NEW n \in Path, NEW p \in child_pos
  PROVE  /\ Above(n, Append(n, p))
         /\ \A a \in Path : Above(a, Append(n, p)) <=> a = Append(n, p) \/ Above(a, n)
<1>1. PICK c : c = Append(n, p)
  OBVIOUS
<1>2. /\ c \in Path /\ Len(c) = Len(n) + 1 /\ Len(n) \in Nat
      /\ \A i \in 1 .. Len(n) : c[i] = n[i]
  BY <1>1, ChildOf, ElementsOfChild
<1>3. Above(n, c)
  BY <1>2 DEF Above
<1>4. ASSUME NEW a \in Path, Above(a, c), a # c PROVE Above(a, n)
  <2>1. Len(a) \in Nat /\ Len(a) <= Len(n) + 1 /\ \A i \in 1 .. Len(a) : a[i] = c[i]
    BY <1>2, <1>4, PathElements DEF Above
  <2>2. Len(a) # Len(n) + 1
    BY <1>2, <1>4, AboveAntisymmetric
  <2> QED BY <1>2, <2>1, <2>2 DEF Above
<1>5. ASSUME NEW a \in Path, Above(a, n) PROVE Above(a, c)
  BY <1>2, <1>3, <1>5, AboveTransitive
<1> QED BY <1>1, <1>2, <1>3, <1>4, <1>5, AboveSelf

(* What lies in a node and is not the node lies in a child of it. *)
LEMMA AboveByChild ==
  ASSUME NEW n \in Path, NEW a \in Path, Above(n, a), n # a
  PROVE  \E p \in child_pos : Above(Append(n, p), a)
<1>1. Len(n) \in Nat /\ Len(a) \in Nat /\ Len(n) < Len(a)
  BY PathElements, AboveAntisymmetric DEF Above
<1>2. a \in Seq(child_pos)
  BY DEF Path
<1>3. PICK p \in child_pos : p = a[Len(n) + 1]
  BY <1>1, <1>2
<1>4. PICK c : c = Append(n, p)
  OBVIOUS
<1>5. /\ c \in Path /\ Len(c) = Len(n) + 1
      /\ \A i \in 1 .. Len(n) : c[i] = n[i]
      /\ c[Len(n) + 1] = p
  BY <1>4, ChildOf, ElementsOfChild
<1>6. \A i \in 1 .. Len(n) + 1 : c[i] = a[i]
  BY <1>1, <1>3, <1>5 DEF Above
<1>7. Above(c, a)
  BY <1>1, <1>5, <1>6 DEF Above
<1> QED BY <1>4, <1>7

(* All that a node of the tree lies in has children. *)
LEMMA AboveRefined ==
  ASSUME NEW nodes, TreeSet(nodes), NEW m \in nodes \cup Leaves(nodes), NEW a \in Path,
         Above(a, m), a # m
  PROVE  a \in nodes
<1> DEFINE T == {l \in Nat : \A k \in nodes \cup Leaves(nodes) :
                               Len(k) = l /\ Above(a, k) /\ a # k => a \in nodes}
<1>1. \A k \in nodes \cup Leaves(nodes) : k \in Path
  BY LeafFacts DEF TreeSet
<1>2. 0 \in T
  <2>1. SUFFICES ASSUME NEW k \in nodes \cup Leaves(nodes), Len(k) = 0, Above(a, k), a # k
                 PROVE  FALSE
    OBVIOUS
  <2>2. Len(a) \in Nat /\ Len(a) = 0
    BY <2>1, PathElements DEF Above
  <2> QED BY <1>1, <2>1, <2>2, AboveAntisymmetric
<1>3. ASSUME NEW l \in Nat, l \in T PROVE l + 1 \in T
  <2>1. SUFFICES ASSUME NEW k \in nodes \cup Leaves(nodes), Len(k) = l + 1, Above(a, k), a # k
                 PROVE  a \in nodes
    OBVIOUS
  <2>2. k \in Path /\ k # <<>>
    <3>1. Len(<<>>) = 0 /\ l + 1 # 0
      OBVIOUS
    <3> QED BY <1>1, <2>1, <3>1
  <2>3. PICK q : q = parent(k)
    OBVIOUS
  <2>4. PICK p \in child_pos : k = Append(q, p)
    BY <2>2, <2>3, ParentOf
  <2>5. q \in Path /\ Len(q) = l /\ q \in nodes
    BY <1>3, <2>1, <2>2, <2>3, ParentOf, LeafFacts DEF TreeSet
  <2>6. Above(a, q)
    BY <2>1, <2>4, <2>5, AboveChild
  <2> QED BY <1>3, <2>5, <2>6
<1> HIDE DEF T
<1>4. Nat \subseteq T
  BY <1>2, <1>3, Induction
<1>5. Len(m) \in T
  BY <1>1, <1>4, PathElements
<1> QED BY <1>5 DEF T

(* Leaves do not lie in one another. *)
LEMMA LeavesApart ==
  ASSUME NEW nodes, TreeSet(nodes), NEW a \in Leaves(nodes), NEW b \in Leaves(nodes),
         Above(a, b)
  PROVE  a = b
BY LeafFacts, AboveRefined

-----------------------------------------------------------------------------
(* The nodes of the target tile the domain. *)

(* Nodes of a tree, one for each leaf, none in another. *)
Tiles(nodes, tree) ==
  /\ nodes \subseteq Leaves(tree) \cup tree
  /\ \A n \in Leaves(tree) : \E c \in nodes : Above(c, n)
  /\ \A a, b \in nodes : Above(a, b) => a = b

(* The leaves of a tree do. *)
LEMMA LeavesTile ==
  ASSUME NEW tree, TreeSet(tree)
  PROVE  Tiles(Leaves(tree), tree)
BY LeafFacts, AboveSelf, LeavesApart DEF Tiles

Group(p) == {Append(p, o) : o \in child_pos}

(* A group can be replaced by its parent, in the tree as it is or coarsened. *)
CanRegroup(tree, nodes, p, less) ==
  /\ TreeSet(tree) /\ Tiles(nodes, tree) /\ p \in Path /\ Group(p) \subseteq nodes
  /\ less = {} \/ (less = {p} /\ Group(p) \cap tree = {})

Regrouped(tree, nodes, p, less) ==
  /\ p \in tree /\ TreeSet(tree \ less)
  /\ Tiles((nodes \ Group(p)) \cup {p}, tree \ less)
  /\ nodes = Leaves(tree) /\ less = {p} =>
       (nodes \ Group(p)) \cup {p} = Leaves(tree \ less)

(* A group is replaced by its parent. *)
LEMMA CoarsenTiles ==
  ASSUME NEW tree, NEW nodes, NEW p, NEW less, CanRegroup(tree, nodes, p, less)
  PROVE  Regrouped(tree, nodes, p, less)
<1>0. PICK group : group = Group(p)
  OBVIOUS
<1> USE <1>0 DEF Group, CanRegroup, Regrouped
<1>1. PICK o \in child_pos : TRUE
  BY NdAssumption, PowerOfTwo DEF child_pos, no_children
<1>2. \A q \in child_pos : Append(p, q) \in group /\ Append(p, q) \in nodes
  OBVIOUS
<1>3. \A n \in Leaves(tree) \cup tree : n \in Path
  BY LeafFacts DEF TreeSet
<1>4. \A n \in nodes : n \in Path
  BY <1>3 DEF Tiles
<1>5. p \in tree
  <2>1. PICK c : c = Append(p, o)
    OBVIOUS
  <2>2. c \in Leaves(tree) \cup tree /\ c # <<>> /\ parent(c) = p
    BY <1>2, <2>1, ChildOf DEF Tiles
  <2> QED BY <2>2, LeafFacts DEF TreeSet
<1>6. less \in SUBSET tree /\ \A n \in less, q \in child_pos : Append(n, q) \notin tree
  BY <1>5
<1>7. /\ TreeSet(tree \ less)
      /\ Leaves(tree \ less) = (Leaves(tree) \ Children(less)) \cup less
  BY <1>6, CoarsenedLeaves
<1>8. \A n : n \in Children(less) => n \in group
  BY ChildrenOf
<1>9. less = {p} => Children(less) = group
  BY ChildrenOf
<1>10. ASSUME NEW n \in (nodes \ group) \cup {p}
       PROVE  n \in Leaves(tree \ less) \cup (tree \ less)
  <2>1. CASE n = p
    BY <1>5, <1>7, <2>1
  <2>2. CASE n \in nodes \ group
    <3>1. n \in Leaves(tree) \cup tree /\ n \notin Children(less)
      BY <1>8, <2>2 DEF Tiles
    <3> QED BY <1>7, <3>1
  <2> QED BY <1>10, <2>1, <2>2
<1>11. ASSUME NEW n \in Leaves(tree \ less)
       PROVE  \E c \in (nodes \ group) \cup {p} : Above(c, n)
  <2>1. CASE n = p
    BY <2>1, AboveSelf
  <2>2. CASE n # p
    <3>1. n \in Leaves(tree) /\ n \in Path
      BY <1>3, <1>7, <2>2
    <3>2. PICK c \in nodes : Above(c, n)
      BY <3>1 DEF Tiles
    <3>3. CASE c \in group
      <4>1. PICK q \in child_pos : c = Append(p, q)
        BY <3>3
      <4>2. Above(p, c) /\ c \in Path
        BY <4>1, AboveChild, <1>4
      <4>3. Above(p, n)
        BY <3>1, <3>2, <4>2, AboveTransitive
      <4> QED BY <4>3
    <3> QED BY <3>2, <3>3
  <2> QED BY <2>1, <2>2
<1>12. ASSUME NEW n \in nodes \ group
       PROVE  ~Above(n, p) /\ (Above(p, n) => n = p)
  <2>1. n \in Path /\ n \in nodes
    BY <1>4
  <2>2. ~Above(n, p)
    <3>1. SUFFICES ASSUME Above(n, p) PROVE FALSE
      OBVIOUS
    <3>2. PICK c : c = Append(p, o)
      OBVIOUS
    <3>3. c \in Path /\ c \in nodes /\ c \in group
      BY <1>2, <1>4, <3>2
    <3>4. Above(n, c)
      BY <2>1, <3>1, <3>2, AboveChild
    <3>5. n = c
      BY <2>1, <3>3, <3>4 DEF Tiles
    <3> QED BY <1>12, <3>3, <3>5
  <2>3. ASSUME Above(p, n), n # p PROVE FALSE
    <3>1. PICK q \in child_pos : Above(Append(p, q), n)
      BY <2>1, <2>3, AboveByChild
    <3>2. Append(p, q) = n
      BY <1>2, <2>1, <3>1 DEF Tiles
    <3> QED BY <1>2, <1>12, <3>2
  <2> QED BY <2>2, <2>3
<1>13. \A a, b \in (nodes \ group) \cup {p} : Above(a, b) => a = b
  BY <1>12 DEF Tiles
<1>14. Tiles((nodes \ group) \cup {p}, tree \ less)
  BY <1>10, <1>11, <1>13 DEF Tiles
<1>15. ASSUME nodes = Leaves(tree), less = {p}
       PROVE  (nodes \ group) \cup {p} = Leaves(tree \ less)
  BY <1>7, <1>9, <1>15
<1> QED BY <1>5, <1>7, <1>14, <1>15

(* A node is replaced by its children, in a tree that grew. *)
LEMMA RefineTiles ==
  ASSUME NEW tree, TreeSet(tree), NEW nodes, Tiles(nodes, tree),
         NEW more \in SUBSET Leaves(tree), NEW n \in nodes, n \in tree \cup more,
         NEW group, group = {Append(n, o) : o \in child_pos}
  PROVE  Tiles((nodes \ {n}) \cup group, tree \cup more)
<1>1. PICK grown : grown = tree \cup more
  OBVIOUS
<1>2. TreeSet(grown) /\ Leaves(grown) = (Leaves(tree) \ more) \cup Children(more)
  BY <1>1, RefinedLeaves
<1>3. \A m \in Leaves(grown) \cup grown : m \in Path
  BY <1>2, LeafFacts DEF TreeSet
<1>4. n \in grown /\ n \in Path /\ \A m \in Leaves(tree) \cup tree : m \in Path
  BY <1>1, <1>3, LeafFacts DEF TreeSet
<1>5. \A m \in nodes : m \in Path
  BY <1>4 DEF Tiles
<1>6. ASSUME NEW m \in (nodes \ {n}) \cup group
      PROVE  m \in Leaves(grown) \cup grown
  <2>1. CASE m \in nodes
    <3>1. m \in Leaves(tree) \cup tree
      BY <2>1 DEF Tiles
    <3> QED BY <1>1, <1>2, <3>1
  <2>2. CASE m \in group
    BY <1>4, <2>2, ChildInTree
  <2> QED BY <2>1, <2>2
<1>7. ASSUME NEW l \in Leaves(grown)
      PROVE  \E c \in (nodes \ {n}) \cup group : Above(c, l)
  <2>1. l \in Path /\ l \notin grown
    BY <1>2, LeafFacts
  <2>2. PICK c \in nodes : Above(c, l)
    <3>1. CASE l \in Leaves(tree)
      BY <3>1 DEF Tiles
    <3>2. CASE l \in Children(more)
      <4>1. PICK m \in more, q \in child_pos : l = Append(m, q)
        BY <3>2, ChildrenOf
      <4>2. m \in Leaves(tree) /\ m \in Path
        BY <1>4
      <4>3. PICK c \in nodes : Above(c, m)
        BY <4>2 DEF Tiles
      <4>4. Above(m, l) /\ c \in Path
        BY <1>5, <4>1, <4>2, AboveChild
      <4>5. Above(c, l)
        BY <2>1, <4>2, <4>3, <4>4, AboveTransitive
      <4> QED BY <4>5
    <3> QED BY <1>2, <3>1, <3>2
  <2>3. CASE c = n
    <3>1. n # l
      BY <1>4, <2>1
    <3>2. PICK q \in child_pos : Above(Append(n, q), l)
      BY <1>4, <2>1, <2>2, <2>3, <3>1, AboveByChild
    <3> QED BY <3>2
  <2> QED BY <2>2, <2>3
<1>8. ASSUME NEW a \in nodes \ {n}, NEW q \in child_pos
      PROVE  ~Above(a, Append(n, q)) /\ ~Above(Append(n, q), a)
  <2>1. a \in Path /\ a # n /\ a \in nodes
    BY <1>5
  <2>2. PICK c : c = Append(n, q)
    OBVIOUS
  <2>3. c \in Path /\ Above(n, c)
    BY <1>4, <2>2, ChildOf, AboveChild
  <2>4. ~Above(n, a) /\ ~Above(a, n)
    BY <2>1 DEF Tiles
  <2>5. ~Above(c, a)
    BY <1>4, <2>1, <2>3, <2>4, AboveTransitive
  <2>6. ASSUME Above(a, c) PROVE FALSE
    <3>1. a = c
      BY <1>4, <2>1, <2>2, <2>4, <2>6, AboveChild
    <3> QED BY <2>3, <2>4, <3>1
  <2> QED BY <2>2, <2>5, <2>6
<1>9. ASSUME NEW q \in child_pos, NEW o \in child_pos, Above(Append(n, q), Append(n, o))
      PROVE  Append(n, q) = Append(n, o)
  <2>1. PICK a, b : a = Append(n, q) /\ b = Append(n, o)
    OBVIOUS
  <2>2. a \in Path /\ b \in Path /\ Len(a) = Len(n) + 1 /\ Len(b) = Len(n) + 1 /\ Len(n) \in Nat
    BY <1>4, <2>1, ChildOf
  <2>3. Len(b) <= Len(a) /\ Above(a, b)
    BY <1>9, <2>1, <2>2
  <2> QED BY <2>1, <2>2, <2>3, AboveAntisymmetric
<1>10. \A a, b \in (nodes \ {n}) \cup group : Above(a, b) => a = b
  <2>1. SUFFICES ASSUME NEW a \in (nodes \ {n}) \cup group, NEW b \in (nodes \ {n}) \cup group,
                        Above(a, b)
                 PROVE  a = b
    OBVIOUS
  <2>2. \A c \in group : \E q \in child_pos : c = Append(n, q)
    OBVIOUS
  <2>3. CASE a \in nodes \ {n} /\ b \in nodes \ {n}
    BY <2>1, <2>3 DEF Tiles
  <2>4. CASE a \in nodes \ {n} /\ b \in group
    BY <1>8, <2>1, <2>2, <2>4
  <2>5. CASE a \in group /\ b \in nodes \ {n}
    BY <1>8, <2>1, <2>2, <2>5
  <2>6. CASE a \in group /\ b \in group
    BY <1>9, <2>1, <2>2, <2>6
  <2> QED BY <2>3, <2>4, <2>5, <2>6
<1>11. Tiles((nodes \ {n}) \cup group, grown)
  BY <1>6, <1>7, <1>10 DEF Tiles
<1> QED BY <1>1, <1>11

(* Each leaf lies in exactly one of such nodes. *)
LEMMA TilesOnce ==
  ASSUME NEW tree, TreeSet(tree), NEW nodes, Tiles(nodes, tree), NEW n \in Leaves(tree)
  PROVE  Cardinality({c \in nodes : IsPrefix(c, n)}) = 1
<1>1. \A m \in Leaves(tree) \cup tree : m \in Path
  BY LeafFacts DEF TreeSet
<1>2. n \in Path /\ \A c \in nodes : c \in Path
  BY <1>1 DEF Tiles
<1>3. PICK c \in nodes : Above(c, n)
  BY DEF Tiles
<1>4. {k \in nodes : IsPrefix(k, n)} = {c}
  <2>1. ASSUME NEW k \in nodes PROVE IsPrefix(k, n) <=> k = c
    <3>1. IsPrefix(k, n) <=> Above(k, n)
      BY <1>2, PrefixMeans
    <3>2. Above(k, n) => k = c
      BY <1>2, <1>3, AboveSame DEF Tiles
    <3> QED BY <1>3, <3>1, <3>2
  <2> QED BY <2>1
<1> QED BY <1>4, FS_Singleton

-----------------------------------------------------------------------------
(* The invariant. *)

(* The tree has no room for more children. *)
Full == Cardinality(refined) = MaxRefined

(* The tree once the groups still to coarsen are coarsened. *)
Final == refined \ {parent(n) : n \in actions.coarsen}

(* The types of the variables; the tree is a tree within its capacity. *)
TypeInv ==
  /\ target \in {"grid", "level_set"}
  /\ phase \in {"idle", "enforce", "coarsen", "refine", "failed"}
  /\ rounds \in Nat
  /\ TreeSet(refined) /\ IsFiniteSet(refined) /\ Cardinality(refined) <= MaxRefined
  /\ actions.nodes \in SUBSET Path /\ IsFiniteSet(actions.nodes) /\ actions \in Acts

(* The nodes of the target tile the domain; those of a grid are the leaves. *)
TilesInv ==
  phase # "failed" =>
    Tiles(cells, refined) /\ (target = "grid" => cells = Leaves(refined))

(* After so many rounds so many levels are settled, so that the rounds are   *)
(* bounded by the levels.                                                    *)
EnforceInv ==
  /\ rounds <= NoLevels + 1
  /\ phase = "enforce" =>
       /\ actions.nodes = cells
       /\ rounds > 0 =>
            rounds <= NoLevels /\ Settled(Adjacent, actions, rounds) /\ Whole(actions)

(* What is still to apply is about nodes of the target. *)
ApplyInv ==
  /\ phase = "coarsen" =>
       actions.refine \subseteq cells /\ actions.coarsen \subseteq cells /\ Whole(actions)
  /\ phase = "refine" /\ target = "grid" =>
       actions.refine \subseteq Leaves(refined) \cup refined
  /\ phase = "refine" /\ target = "level_set" => actions.refine \subseteq cells

(* The tree is balanced, except within the coarsening of a grid: there the   *)
(* tree that it ends with is, and its marked leaves have their coarser       *)
(* neighbours marked, so that each refinement keeps the balance and adds     *)
(* nothing.                                                                  *)
BalanceInv ==
  /\ target = "level_set" \/ phase # "coarsen" => Bal!Balanced(refined)
  /\ target = "grid" /\ phase = "coarsen" =>
       /\ Bal!Balanced(Final)
       /\ actions.refine \subseteq Leaves(Final)
       /\ Wanted(actions.refine, Final)
  /\ target = "grid" /\ phase = "refine" => Full \/ Wanted(actions.refine, refined)

(* The inductive invariant. *)
Inv == TypeInv /\ TilesInv /\ EnforceInv /\ ApplyInv /\ BalanceInv

(* The levels of the target's nodes can be counted. *)
LEMMA NoLevelsIsNat ==
  ASSUME TypeInv
  PROVE  NoLevels \in Nat
BY LevelsCounted DEF NoLevels, TypeInv

(* The invariant holds of a new target. *)
LEMMA InitInv == Init => Inv
<1> SUFFICES ASSUME Init PROVE Inv
  OBVIOUS
<1>1. target \in {"grid", "level_set"}
  BY AmrAssumption DEF Init
<1>2. /\ refined = {} /\ cells = {<<>>} /\ phase = "idle" /\ rounds = 0
      /\ actions.nodes = {} /\ actions.refine = {} /\ actions.coarsen = {}
      /\ actions = [nodes |-> {}, refine |-> {}, coarsen |-> {}]
  BY DEF Init, NoActions
<1>3. TreeSet({})
  BY DEF TreeSet
<1>4. Leaves({}) = {<<>>}
  BY DEF Leaves
<1>5. IsFiniteSet({}) /\ Cardinality({}) = 0 /\ MaxRefined \in Nat
  BY AmrAssumption, FS_EmptySet
<1>6. actions \in Acts
  BY <1>2 DEF Acts
<1>7. TypeInv
  BY <1>1, <1>2, <1>3, <1>5, <1>6 DEF TypeInv
<1>8. TilesInv
  <2>1. Tiles({<<>>}, {})
    BY <1>3, <1>4, LeavesTile
  <2> QED BY <1>2, <1>4, <2>1 DEF TilesInv
<1>9. EnforceInv
  BY <1>2, <1>7, NoLevelsIsNat DEF EnforceInv
<1>10. ApplyInv
  BY <1>2 DEF ApplyInv
<1>11. BalanceInv
  <2>1. Bal!Balanced({})
    <3>1. \A a, b \in Leaves({}) : Len(a) > Len(b) + 1 => ~Bal!Touch(a, b)
      BY <1>4, RootPath
    <3> QED BY <1>3, <3>1, BalancedMeans
  <2> QED BY <1>2, <2>1 DEF BalanceInv
<1> QED BY <1>7, <1>8, <1>9, <1>10, <1>11 DEF Inv

(* A target has finitely many nodes. *)
LEMMA CellsFinite ==
  ASSUME TypeInv, TilesInv, phase # "failed"
  PROVE  IsFiniteSet(cells) /\ cells \in SUBSET Path
<1>1. cells \in SUBSET (Leaves(refined) \cup refined)
  BY DEF TilesInv, Tiles
<1>2. IsFiniteSet(Leaves(refined) \cup refined)
  BY LeavesFinite, FS_Union DEF TypeInv
<1>3. \A n \in Leaves(refined) \cup refined : n \in Path
  BY LeafFacts DEF TypeInv, TreeSet
<1> QED BY <1>1, <1>2, <1>3, FS_Subset

(* Computing the actions keeps the invariant. *)
LEMMA ComputeKeeps ==
  ASSUME Inv, compute_actions
  PROVE  Inv'
<1>1. /\ phase = "idle" /\ phase' = "enforce" /\ rounds' = 0
      /\ target' = target /\ refined' = refined /\ cells' = cells
  BY DEF compute_actions
<1>2. PICK x : x = actions'
  OBVIOUS
<1>3. /\ x = [nodes |-> cells, refine |-> x.refine, coarsen |-> x.coarsen]
      /\ x.refine \subseteq cells /\ x.coarsen \subseteq cells
      /\ x.refine \cap x.coarsen = {} /\ x.nodes = cells
  <2>1. PICK r, c : /\ x = [nodes |-> cells, refine |-> r, coarsen |-> c]
                    /\ r \subseteq cells /\ c \subseteq cells \ r
    BY <1>2 DEF compute_actions
  <2> QED BY <2>1
<1>4. IsFiniteSet(cells) /\ cells \in SUBSET Path
  BY <1>1, CellsFinite DEF Inv
<1>5. TypeInv'
  <2>1. (actions \in Acts)'
    BY <1>2, <1>3 DEF Acts
  <2>2. (TreeSet(refined) /\ IsFiniteSet(refined) /\ Cardinality(refined) <= MaxRefined)'
    BY <1>1 DEF Inv, TypeInv
  <2> QED BY <1>1, <1>2, <1>3, <1>4, <2>1, <2>2 DEF Inv, TypeInv
<1>6. TilesInv'
  BY <1>1 DEF Inv, TilesInv
<1>7. EnforceInv'
  <2>1. NoLevels' = Cardinality({level(n) : n \in cells})
    BY <1>2, <1>3 DEF NoLevels
  <2>2. NoLevels' \in Nat
    BY <1>4, <2>1, LevelsCounted
  <2> QED BY <1>1, <1>2, <1>3, <2>2 DEF EnforceInv
<1>8. ApplyInv'
  BY <1>1 DEF ApplyInv
<1>9. BalanceInv'
  BY <1>1 DEF Inv, BalanceInv
<1> QED BY <1>5, <1>6, <1>7, <1>8, <1>9 DEF Inv

(* Before the first round there is nothing to settle. *)
LEMMA NothingSettled ==
  ASSUME actions.nodes \in SUBSET Path, IsFiniteSet(actions.nodes), NEW A, NEW x \in Acts
  PROVE  Settled(A, x, 0)
<1>1. x.refine \subseteq actions.nodes /\ x.coarsen \subseteq actions.nodes
  BY DEF Acts
<1>2. \A n \in actions.nodes : ~(Depth(n) <= 0)
  <2>1. \A n \in actions.nodes : Depth(n) \in 1 .. NoLevels
    BY DepthFacts
  <2> QED BY <2>1
<1> QED BY <1>1, <1>2 DEF Settled, SettledRefine, SettledCoarsen

(* A round of the enforcement keeps the invariant. *)
LEMMA EnforceKeeps ==
  ASSUME Inv, enforce_2_to_1_ratio_step
  PROVE  Inv'
<1>1. /\ phase = "enforce" /\ rounds' = rounds + 1
      /\ target' = target /\ refined' = refined /\ cells' = cells
  BY DEF enforce_2_to_1_ratio_step
<1>2. PICK A, x, y, s, k : /\ A = Adjacent /\ x = actions /\ y = actions'
                           /\ s = Ordered(actions.nodes) /\ k = rounds
  OBVIOUS
<1>3. y = Round(A, x, s) /\ phase' = IF x # y THEN "enforce" ELSE "coarsen"
  BY <1>2 DEF enforce_2_to_1_ratio_step, Round, Changed
<1>4. TypeInv /\ TilesInv /\ EnforceInv
  BY DEF Inv
<1>5. /\ actions.nodes \in SUBSET Path /\ IsFiniteSet(actions.nodes) /\ x \in Acts
      /\ k \in Nat /\ actions.nodes = cells
  BY <1>1, <1>2, <1>4 DEF TypeInv, EnforceInv
<1>6. Visits(s)
  BY <1>2, <1>5, OrderedCovers DEF Visits
<1>7. k > 0 => k <= NoLevels /\ Settled(A, x, k) /\ Whole(x)
  BY <1>1, <1>2, <1>4 DEF EnforceInv
<1>8. Settled(A, x, k)
  BY <1>5, <1>7, NothingSettled
<1>9. /\ y \in Acts /\ Whole(y) /\ Settled(A, y, k + 1)
      /\ Whole(x) /\ NoLevels <= k => y = x
  BY <1>3, <1>5, <1>6, <1>7, <1>8, RoundSettles
<1>10. actions'.nodes = actions.nodes /\ NoLevels' = NoLevels /\ NoLevels \in Nat
  <2>1. actions'.nodes = actions.nodes
    BY <1>2, <1>9 DEF Acts
  <2>2. NoLevels' = NoLevels
    BY <2>1 DEF NoLevels, level
  <2> QED BY <1>4, <2>1, <2>2, NoLevelsIsNat
<1>11. Adjacent' = Adjacent
  BY <1>1, <1>10, AdjacentStays
<1>12. Settled(Adjacent, actions, rounds)'
  BY <1>1, <1>2, <1>9, <1>10, <1>11, SettledStays
<1>13. Whole(actions)'
  BY <1>2, <1>9, <1>10, WholeStays
<1>14. TypeInv'
  <2>1. (actions \in Acts)'
    BY <1>2, <1>9, <1>10 DEF Acts
  <2>2. (TreeSet(refined) /\ IsFiniteSet(refined) /\ Cardinality(refined) <= MaxRefined)'
    BY <1>1, <1>4 DEF TypeInv
  <2> QED BY <1>1, <1>2, <1>3, <1>5, <1>10, <2>1, <2>2, <1>4 DEF TypeInv
<1>15. TilesInv'
  BY <1>1, <1>4 DEF TilesInv
<1>16. EnforceInv'
  <2>1. k <= NoLevels
    BY <1>5, <1>7, <1>10
  <2>2. ASSUME phase' = "enforce" PROVE k + 1 <= NoLevels
    <3>1. x # y
      BY <1>3, <2>2
    <3>2. CASE k > 0
      BY <1>5, <1>7, <1>9, <1>10, <3>1, <3>2
    <3>3. CASE k = 0 /\ NoLevels = 0
      <4>1. \A n \in actions.nodes : Depth(n) \in 1 .. NoLevels
        BY <1>5, DepthFacts
      <4>2. actions.nodes = {}
        BY <3>3, <4>1
      <4>3. Whole(x)
        BY <1>5, <4>2 DEF Whole, Acts
      <4> QED BY <1>9, <3>1, <3>3, <4>3
    <3> QED BY <1>5, <1>10, <3>2, <3>3
  <2> QED BY <1>1, <1>2, <1>5, <1>10, <1>12, <1>13, <2>1, <2>2 DEF EnforceInv
<1>17. ApplyInv'
  <2>1. actions'.refine \subseteq cells /\ actions'.coarsen \subseteq cells
    BY <1>2, <1>5, <1>9 DEF Acts
  <2> QED BY <1>1, <1>3, <1>13, <2>1 DEF ApplyInv
<1>18. BalanceInv'
  <2>1. Bal!Balanced(refined)
    BY <1>1 DEF Inv, BalanceInv
  <2>2. ASSUME target = "grid", phase' = "coarsen"
        PROVE  /\ Bal!Balanced(Final') /\ actions'.refine \subseteq Leaves(Final')
               /\ Wanted(actions'.refine, Final')
    <3>1. x = y /\ Round(A, x, s) = x
      BY <1>3, <2>2
    <3>2. /\ Whole(x)
          /\ \A n \in x.refine, m \in actions.nodes :
               <<n, m>> \in A /\ level(m) < level(n) => m \in x.refine
          /\ \A n \in x.coarsen : ~TooFine(A, x, n)
      BY <1>5, <1>6, <1>7, <1>8, <3>1, RoundEnds
    <3>3. TreeSet(refined) /\ IsFiniteSet(refined) /\ actions.nodes = Leaves(refined)
      BY <1>1, <1>4, <1>5, <2>2 DEF TypeInv, TilesInv
    <3>4. PICK less : less = {parent(n) : n \in x.coarsen}
      OBVIOUS
    <3>5. /\ Bal!Balanced(refined \ less)
          /\ x.refine \subseteq Leaves(refined \ less)
          /\ Wanted(x.refine, refined \ less)
      BY <1>2, <1>5, <2>1, <2>2, <3>2, <3>3, <3>4, GridSettled
    <3>6. Final' = refined \ less
      BY <1>1, <1>2, <3>1, <3>4 DEF Final, parent
    <3> QED BY <1>2, <3>1, <3>5, <3>6
  <2> QED BY <1>1, <1>3, <2>1, <2>2 DEF BalanceInv
<1> QED BY <1>14, <1>15, <1>16, <1>17, <1>18 DEF Inv

(* A node that is coarsened with the balance in view. *)
LEMMA CanCoarsenKeeps ==
  ASSUME TypeInv, Bal!Balanced(refined), NEW p \in refined, Bal!CanCoarsen(p)
  PROVE  Bal!Balanced(refined \ {p}) /\ \A o \in child_pos : Append(p, o) \notin refined
<1>1. BP!TreeSet(refined) /\ BP!IsFiniteSet(refined) /\ BP!Balanced(refined)
      /\ BP!Cardinality(refined) <= MaxRefined
  BY SameTreeSet, SameFinite, SameBalanced DEF TypeInv
<1>2. BP!TreeInv(refined) /\ BP!CanCoarsen(p)
  BY <1>1, SameCoarsening DEF BP!TreeInv, BP!Cardinality, BP!IsFiniteSet, IsFiniteSet, Cardinality
<1>3. BP!TreeInv(refined \ {p})
  BY <1>2, BP!CoarsenedTree, AmrAssumption, NdAssumption
<1>4. BP!Balanced(refined \ {p})
  BY <1>3 DEF BP!TreeInv
<1>5. \A o \in child_pos : Append(p, o) \notin refined
  BY SamePaths DEF Bal!CanCoarsen, Bal!children, Bal!is_leaf
<1> QED BY <1>4, <1>5, SameBalanced

(* Coarsening a group keeps the invariant. *)
LEMMA CoarsenStepKeeps ==
  ASSUME Inv, ApplyCoarsen
  PROVE  Inv'
<1>1. /\ phase = "coarsen" /\ actions.coarsen # {}
      /\ target' = target /\ rounds' = rounds /\ phase' = phase
  BY DEF ApplyCoarsen
<1>2. TypeInv /\ TilesInv /\ EnforceInv /\ ApplyInv /\ BalanceInv
  BY DEF Inv
<1>3. PICK x, y : x = actions /\ y = actions'
  OBVIOUS
<1>4. /\ actions.nodes \in SUBSET Path /\ IsFiniteSet(actions.nodes) /\ x \in Acts
      /\ TreeSet(refined) /\ IsFiniteSet(refined) /\ Cardinality(refined) <= MaxRefined
      /\ Tiles(cells, refined) /\ (target = "grid" => cells = Leaves(refined))
      /\ x.refine \subseteq cells /\ x.coarsen \subseteq cells /\ Whole(x)
  BY <1>1, <1>2, <1>3 DEF TypeInv, TilesInv, ApplyInv
<1>5. x.nodes = actions.nodes /\ x.coarsen \in SUBSET actions.nodes /\ x.refine \cap x.coarsen = {}
  BY <1>4 DEF Acts
<1>6. PICK n \in x.coarsen : n = First(actions.coarsen)
  <2>1. x.coarsen \in SUBSET Path /\ IsFiniteSet(x.coarsen)
    BY <1>4, <1>5, FS_Subset
  <2> QED BY <1>1, <1>3, <2>1, FirstIsOne
<1>7. PICK p, group : p = parent(n) /\ group = siblings(n)
  OBVIOUS
<1>8. /\ n \in actions.nodes /\ n \in Path /\ n # <<>> /\ p \in Path
      /\ group = {Append(p, o) : o \in child_pos} /\ group \subseteq x.coarsen
      /\ \A m \in group : siblings(m) = group
  <2>1. n \in actions.nodes /\ n \in Path
    BY <1>4, <1>5
  <2>2. group \subseteq x.coarsen /\ Cardinality(siblings(n)) = no_children(Nd)
    BY <1>4, <1>7 DEF Whole
  <2>3. n # <<>> /\ siblings(n) = {Append(parent(n), o) : o \in child_pos}
    BY <1>4, <2>1, <2>2, WholeGroup
  <2>4. \A m \in siblings(n) : siblings(m) = siblings(n)
    BY <1>4, <2>1, SiblingFacts
  <2> QED BY <1>7, <2>1, <2>2, <2>3, <2>4, ParentOf
<1>9. /\ y = [x EXCEPT !.coarsen = @ \ group]
      /\ refined' = IF target = "grid" \/ Bal!CanCoarsen(p) THEN refined \ {p} ELSE refined
      /\ cells' = (cells \ group) \cup {p}
  BY <1>3, <1>6, <1>7 DEF ApplyCoarsen
<1>10. y \in Acts /\ y.refine = x.refine /\ y.coarsen = x.coarsen \ group /\ Whole(y)
  <2>1. group \in SUBSET actions.nodes /\ \A m \in group : siblings(m) \subseteq group
    BY <1>5, <1>8
  <2> QED BY <1>4, <1>9, <2>1, LessCoarsening
<1>11. actions'.nodes = actions.nodes /\ NoLevels' = NoLevels
  <2>1. actions'.nodes = actions.nodes
    BY <1>3, <1>10 DEF Acts
  <2> QED BY <2>1 DEF NoLevels, level
<1>12. PICK less : /\ less = {} \/ less = {p}
                   /\ refined' = refined \ less
                   /\ target = "grid" => less = {p}
                   /\ less = {p} /\ target # "grid" => Bal!CanCoarsen(p)
  <2>1. CASE target = "grid" \/ Bal!CanCoarsen(p)
    <3>1. PICK less : less = {p}
      OBVIOUS
    <3>2. refined' = refined \ less
      BY <1>9, <2>1, <3>1
    <3> QED BY <2>1, <3>1, <3>2
  <2>2. CASE ~(target = "grid" \/ Bal!CanCoarsen(p))
    <3>1. PICK less : less = {}
      OBVIOUS
    <3>2. refined' = refined \ less
      BY <1>9, <2>2, <3>1
    <3> QED BY <2>2, <3>1, <3>2
  <2> QED BY <2>1, <2>2
<1>13. group \subseteq cells
  BY <1>4, <1>8
<1>14. p \in refined
  <2>1. n \in Leaves(refined) \cup refined
    BY <1>4 DEF Tiles
  <2> QED BY <1>4, <1>7, <1>8, <2>1, LeafFacts DEF TreeSet
<1>15. target = "level_set" => Bal!Balanced(refined)
  BY <1>2 DEF BalanceInv
<1>16. less = {p} => group \cap refined = {}
  <2>1. CASE target = "grid"
    BY <1>4, <1>13, <2>1, LeafFacts
  <2>2. CASE target # "grid"
    <3>1. ASSUME less = {p} PROVE group \cap refined = {}
      <4>1. Bal!Balanced(refined) /\ Bal!CanCoarsen(p)
        BY <1>2, <1>12, <1>15, <2>2, <3>1 DEF TypeInv
      <4>2. \A o \in child_pos : Append(p, o) \notin refined
        BY <1>2, <1>14, <4>1, CanCoarsenKeeps
      <4> QED BY <1>8, <4>2
    <3> QED BY <3>1
  <2> QED BY <2>1, <2>2
<1>17. /\ TreeSet(refined \ less) /\ Tiles((cells \ group) \cup {p}, refined \ less)
       /\ cells = Leaves(refined) /\ less = {p} =>
            (cells \ group) \cup {p} = Leaves(refined \ less)
  <2>1. PICK tree, nodes : tree = refined /\ nodes = cells
    OBVIOUS
  <2>2. TreeSet(tree) /\ Tiles(nodes, tree) /\ p \in Path
    BY <1>4, <1>8, <2>1
  <2>3. group = Group(p) /\ Group(p) \subseteq nodes
    BY <1>8, <1>13, <2>1 DEF Group
  <2>4. less = {} \/ (less = {p} /\ Group(p) \cap tree = {})
    BY <1>12, <1>16, <2>1, <2>3
  <2>5. CanRegroup(tree, nodes, p, less)
    BY <2>2, <2>3, <2>4 DEF CanRegroup
  <2>6. Regrouped(tree, nodes, p, less)
    BY <2>5, CoarsenTiles
  <2>7. /\ TreeSet(tree \ less) /\ Tiles((nodes \ Group(p)) \cup {p}, tree \ less)
        /\ nodes = Leaves(tree) /\ less = {p} =>
             (nodes \ Group(p)) \cup {p} = Leaves(tree \ less)
    BY <2>6 DEF Regrouped
  <2> QED BY <2>1, <2>3, <2>7
<1>18. IsFiniteSet(refined \ less) /\ Cardinality(refined \ less) <= MaxRefined
  <2>1. refined \ less \in SUBSET refined
    OBVIOUS
  <2>2. IsFiniteSet(refined \ less) /\ Cardinality(refined \ less) <= Cardinality(refined)
    BY <1>4, <2>1, FS_Subset
  <2>3. Cardinality(refined) \in Nat /\ Cardinality(refined \ less) \in Nat /\ MaxRefined \in Nat
    BY <1>4, <2>2, FS_CardinalityType, AmrAssumption
  <2> QED BY <1>4, <2>2, <2>3
<1>19. TypeInv'
  <2>1. (actions \in Acts)'
    BY <1>3, <1>10, <1>11 DEF Acts
  <2>2. (TreeSet(refined) /\ IsFiniteSet(refined) /\ Cardinality(refined) <= MaxRefined)'
    BY <1>12, <1>17, <1>18
  <2> QED BY <1>1, <1>2, <1>4, <1>11, <2>1, <2>2 DEF TypeInv
<1>20. TilesInv'
  BY <1>1, <1>4, <1>9, <1>12, <1>17 DEF TilesInv
<1>21. EnforceInv'
  BY <1>1, <1>2, <1>11 DEF EnforceInv
<1>22. ApplyInv'
  <2>1. Whole(actions)'
    BY <1>3, <1>10, <1>11, WholeStays
  <2>2. actions'.refine \subseteq cells' /\ actions'.coarsen \subseteq cells'
    BY <1>3, <1>4, <1>5, <1>8, <1>9, <1>10
  <2> QED BY <1>1, <2>1, <2>2 DEF ApplyInv
<1>23. BalanceInv'
  <2>1. ASSUME target = "level_set" PROVE Bal!Balanced(refined \ less)
    <3>1. CASE less = {}
      BY <1>15, <2>1, <3>1
    <3>2. CASE less = {p}
      BY <1>2, <1>12, <1>14, <1>15, <2>1, <3>2, CanCoarsenKeeps
    <3> QED BY <1>12, <3>1, <3>2
  <2>2. ASSUME target = "grid" PROVE Final' = Final
    <3>1. \A m \in group : parent(m) = p
      <4>1. \A m \in group : \E o \in child_pos : m = Append(p, o)
        BY <1>8
      <4>2. \A o \in child_pos : parent(Append(p, o)) = p
        BY <1>8, ChildOf
      <4> QED BY <4>1, <4>2
    <3>2. p \in {parent(m) : m \in x.coarsen}
      BY <1>7
    <3>3. less = {p}
      BY <1>12, <2>2
    <3>4. (refined \ less) \ {parent(m) : m \in x.coarsen \ group}
            = refined \ {parent(m) : m \in x.coarsen}
      BY <3>1, <3>2, <3>3
    <3>5. actions'.coarsen = x.coarsen \ group
      BY <1>3, <1>10
    <3>6. Final' = (refined \ less) \ {parent(m) : m \in x.coarsen \ group}
      BY <1>12, <3>5 DEF Final, parent
    <3> QED BY <1>3, <3>4, <3>6 DEF Final
  <2>3. actions'.refine = actions.refine
    BY <1>3, <1>10
  <2> QED BY <1>1, <1>2, <1>12, <2>1, <2>2, <2>3 DEF BalanceInv, TypeInv
<1> QED BY <1>19, <1>20, <1>21, <1>22, <1>23 DEF Inv

(* The end of the coarsening keeps the invariant: a grid is balanced again. *)
LEMMA CoarsenedStepKeeps ==
  ASSUME Inv, ApplyCoarsened
  PROVE  Inv'
<1>1. /\ phase = "coarsen" /\ phase' = "refine" /\ actions.coarsen = {}
      /\ target' = target /\ refined' = refined /\ cells' = cells
      /\ actions' = actions /\ rounds' = rounds
  BY DEF ApplyCoarsened
<1>2. TypeInv /\ TilesInv /\ EnforceInv /\ ApplyInv /\ BalanceInv
  BY DEF Inv
<1>3. TypeInv'
  BY <1>1, <1>2 DEF TypeInv, Acts
<1>4. TilesInv'
  BY <1>1, <1>2 DEF TilesInv
<1>5. EnforceInv'
  <2>1. NoLevels' = NoLevels
    BY <1>1 DEF NoLevels, level
  <2> QED BY <1>1, <1>2, <2>1 DEF EnforceInv
<1>6. Final = refined
  BY <1>1 DEF Final
<1>7. target = "grid" => /\ Bal!Balanced(refined) /\ actions.refine \subseteq Leaves(refined)
                         /\ Wanted(actions.refine, refined)
  BY <1>1, <1>2, <1>6 DEF BalanceInv
<1>8. ApplyInv'
  BY <1>1, <1>2, <1>7 DEF ApplyInv
<1>9. BalanceInv'
  BY <1>1, <1>2, <1>7 DEF BalanceInv, TypeInv
<1> QED BY <1>3, <1>4, <1>5, <1>8, <1>9 DEF Inv

(* What is refined for the first marked node. *)
LEMMA RefinedFor ==
  ASSUME TypeInv, Bal!Balanced(refined), NEW n \in Leaves(refined) \cup refined,
         NEW S, S \in IF n \in refined THEN {{}} ELSE Refinements(n)
  PROVE  /\ S \subseteq Leaves(refined) /\ TreeSet(refined \cup S) /\ IsFiniteSet(refined \cup S)
         /\ Bal!Balanced(refined \cup S) /\ Cardinality(refined \cup S) <= MaxRefined
         /\ Full => S = {}
         /\ \/ S = {} /\ n \in refined
            \/ n \in Leaves(refined) /\ S = Needed(n)
            \/ Cardinality(refined \cup S) = MaxRefined
<1>1. CASE n \in refined
  <2>1. S = {} /\ refined \cup S = refined
    BY <1>1
  <2> QED BY <1>1, <2>1 DEF TypeInv
<1>2. CASE n \notin refined
  <2>1. n \in Leaves(refined) /\ S \in Refinements(n)
    BY <1>2
  <2> QED BY <2>1, RefinementFacts DEF TypeInv, Full
<1> QED BY <1>1, <1>2

(* The marks stay as they should be. *)
LEMMA WantedStays ==
  ASSUME TypeInv, Bal!Balanced(refined), NEW marked,
         marked \subseteq Leaves(refined) \cup refined, Wanted(marked, refined),
         NEW n \in marked \cap Leaves(refined)
  PROVE  /\ Needed(n) \subseteq marked
         /\ Wanted(marked \ {n}, refined \cup Needed(n))
<1>1. TreeSet(refined) /\ IsFiniteSet(refined)
  BY DEF TypeInv
<1>2. PICK S : S = Needed(n)
  OBVIOUS
<1>3. n \in S /\ S \in SUBSET Leaves(refined) /\ Closed(S)
  BY <1>1, <1>2, NeededFacts
<1>4. S \subseteq marked
  <2>1. PICK M : M = marked \cap Leaves(refined)
    OBVIOUS
  <2>2. M \in SUBSET Leaves(refined) /\ n \in M
    BY <2>1
  <2>3. Closed(M)
    <3>1. \A m \in Leaves(refined) : Len(m) \in Nat
      BY <1>1, LeafFacts
    <3> QED BY <2>1, <3>1 DEF Closed, Wanted
  <2>4. Needed(n) \subseteq M
    BY <1>1, <2>2, <2>3, NeededFacts
  <2> QED BY <1>2, <2>1, <2>4
<1>5. TreeSet(refined \cup S) /\ Leaves(refined \cup S) = (Leaves(refined) \ S) \cup Children(S)
  BY <1>1, <1>3, RefinedLeaves
<1>6. Wanted(marked \ {n}, refined \cup S)
  <2>1. SUFFICES ASSUME NEW a \in Leaves(refined \cup S), NEW b \in Leaves(refined \cup S),
                        a \in marked, Bal!Touch(a, b), Len(b) < Len(a)
                 PROVE  b \in marked \ {n}
    BY DEF Wanted
  <2>2. a \notin refined \cup S /\ b \notin refined \cup S /\ a \in Path /\ b \in Path
    BY <1>5, LeafFacts
  <2>3. a \in Leaves(refined)
    BY <2>1, <2>2
  <2>4. CASE b \in Leaves(refined)
    BY <1>3, <2>1, <2>2, <2>3, <2>4 DEF Wanted
  <2>5. CASE b \in Children(S)
    <3>1. PICK m \in S, p \in child_pos : b = Append(m, p)
      BY <2>5, ChildrenOf
    <3>2. m \in Leaves(refined)
      BY <1>3
    <3>3. m \in Path
      BY <1>1, <3>2, LeafFacts
    <3>4. Len(b) = Len(m) + 1 /\ Len(m) \in Nat /\ Len(a) \in Nat
      BY <2>2, <3>1, <3>3, ChildOf, PathElements
    <3>5. Bal!Touch(Append(m, p), a)
      BY <2>1, <3>1, TouchMutual
    <3>6. Bal!Touch(m, a)
      BY <2>2, <3>3, <3>5, ParentTouches
    <3>7. Bal!Touch(a, m)
      BY <3>6, TouchMutual
    <3>8. Len(a) > Len(m) + 1
      BY <2>1, <3>4
    <3> QED BY <1>1, <2>3, <3>2, <3>7, <3>8, BalancedMeans
  <2> QED BY <1>5, <2>4, <2>5
<1> QED BY <1>2, <1>4, <1>6

(* Refining a node keeps the invariant, and in a grid it refines marked      *)
(* leaves only.                                                              *)
LEMMA RefineStepKeeps ==
  ASSUME Inv, ApplyRefine
  PROVE  Inv' /\ (target = "grid" => refined' \ refined \subseteq actions.refine)
<1>1. phase = "refine" /\ actions.refine # {} /\ target' = target /\ rounds' = rounds
  BY DEF ApplyRefine
<1>2. TypeInv /\ TilesInv /\ EnforceInv /\ ApplyInv /\ BalanceInv
  BY DEF Inv
<1>3. PICK x, y : x = actions /\ y = actions'
  OBVIOUS
<1>4. /\ actions.nodes \in SUBSET Path /\ IsFiniteSet(actions.nodes) /\ x \in Acts
      /\ TreeSet(refined) /\ IsFiniteSet(refined)
      /\ Tiles(cells, refined) /\ (target = "grid" => cells = Leaves(refined))
      /\ Bal!Balanced(refined) /\ target \in {"grid", "level_set"}
  BY <1>1, <1>2, <1>3 DEF TypeInv, TilesInv, BalanceInv
<1>5. x.refine \in SUBSET actions.nodes /\ x.refine \cap x.coarsen = {}
  BY <1>4 DEF Acts
<1>6. PICK n \in x.refine : n = First(actions.refine)
  <2>1. x.refine \in SUBSET Path /\ IsFiniteSet(x.refine)
    BY <1>4, <1>5, FS_Subset
  <2> QED BY <1>1, <1>3, <2>1, FirstIsOne
<1>7. /\ x.refine \subseteq Leaves(refined) \cup refined
      /\ target = "level_set" => x.refine \subseteq cells
  BY <1>1, <1>2, <1>3, <1>4 DEF ApplyInv, Tiles
<1>8. PICK S : /\ S \in IF n \in refined THEN {{}} ELSE Refinements(n)
               /\ refined' = refined \cup S
               /\ cells' = IF target = "grid" THEN Leaves(refined')
                           ELSE (cells \ {n}) \cup {Append(n, o) : o \in child_pos}
               /\ y = [x EXCEPT !.refine = @ \ {n}]
               /\ phase' = IF n \in refined' THEN phase ELSE "failed"
  BY <1>3, <1>6 DEF ApplyRefine
<1>9. n \in Leaves(refined) \cup refined
  BY <1>7
<1>10. /\ S \subseteq Leaves(refined) /\ TreeSet(refined \cup S) /\ IsFiniteSet(refined \cup S)
       /\ Bal!Balanced(refined \cup S) /\ Cardinality(refined \cup S) <= MaxRefined
       /\ Full => S = {}
       /\ \/ S = {} /\ n \in refined
          \/ n \in Leaves(refined) /\ S = Needed(n)
          \/ Cardinality(refined \cup S) = MaxRefined
  BY <1>2, <1>4, <1>8, <1>9, RefinedFor
<1>11. /\ y \in Acts /\ y.refine = x.refine \ {n} /\ y.coarsen = x.coarsen
       /\ actions'.nodes = actions.nodes /\ NoLevels' = NoLevels
  <2>1. y \in Acts /\ y.refine = x.refine \ {n} /\ y.coarsen = x.coarsen /\ y.nodes = x.nodes
    BY <1>4, <1>8 DEF Acts
  <2>2. actions'.nodes = actions.nodes
    BY <1>3, <2>1
  <2> QED BY <2>1, <2>2 DEF NoLevels, level
<1>12. TypeInv'
  <2>1. (actions \in Acts)'
    BY <1>3, <1>11 DEF Acts
  <2>2. (TreeSet(refined) /\ IsFiniteSet(refined) /\ Cardinality(refined) <= MaxRefined)'
    BY <1>8, <1>10
  <2> QED BY <1>1, <1>2, <1>4, <1>8, <1>11, <2>1, <2>2 DEF TypeInv
<1>13. TilesInv'
  <2>1. CASE target = "grid"
    BY <1>1, <1>8, <1>10, <2>1, LeavesTile DEF TilesInv
  <2>2. CASE target = "level_set"
    <3>1. ASSUME n \in refined \cup S
          PROVE  Tiles((cells \ {n}) \cup {Append(n, o) : o \in child_pos}, refined \cup S)
      <4>1. n \in cells /\ S \in SUBSET Leaves(refined)
        BY <1>7, <1>10, <2>2
      <4> QED BY <1>4, <3>1, <4>1, RefineTiles
    <3> QED BY <1>1, <1>8, <2>2, <3>1 DEF TilesInv
  <2> QED BY <1>4, <2>1, <2>2
<1>14. EnforceInv'
  BY <1>1, <1>2, <1>8, <1>11 DEF EnforceInv
<1>15. ApplyInv'
  <2>1. y.refine \subseteq Leaves(refined') \cup refined'
    <3>1. S \in SUBSET Leaves(refined)
      BY <1>10
    <3>2. Leaves(refined \cup S) = (Leaves(refined) \ S) \cup Children(S)
      BY <1>4, <3>1, RefinedLeaves
    <3> QED BY <1>7, <1>8, <1>11, <3>2
  <2>2. target = "level_set" => y.refine \subseteq cells'
    BY <1>7, <1>8, <1>11
  <2> QED BY <1>1, <1>3, <1>8, <2>1, <2>2 DEF ApplyInv
<1>16. target = "grid" => Full \/ Wanted(x.refine, refined)
  BY <1>1, <1>2, <1>3 DEF BalanceInv
<1>17. ASSUME target = "grid", ~Full, n \in Leaves(refined)
       PROVE  /\ Needed(n) \subseteq x.refine
              /\ Wanted(x.refine \ {n}, refined \cup Needed(n))
  <2>1. n \in x.refine \cap Leaves(refined)
    BY <1>17
  <2> QED BY <1>2, <1>4, <1>7, <1>16, <1>17, <2>1, WantedStays
<1>18. target = "grid" => Full' \/ Wanted(y.refine, refined \cup S)
  <2>1. SUFFICES ASSUME target = "grid" PROVE Full' \/ Wanted(y.refine, refined \cup S)
    OBVIOUS
  <2>2. CASE Cardinality(refined \cup S) = MaxRefined
    BY <1>8, <2>2 DEF Full
  <2>3. CASE Full
    BY <1>8, <1>10, <2>3 DEF Full
  <2>4. CASE ~Full /\ S = {} /\ n \in refined
    <3>1. n \notin Leaves(refined) /\ refined \cup S = refined
      BY <1>4, <2>4, LeafFacts
    <3> QED BY <1>11, <1>16, <2>1, <2>4, <3>1 DEF Wanted
  <2>5. CASE ~Full /\ n \in Leaves(refined) /\ S = Needed(n)
    BY <1>11, <1>17, <2>1, <2>5
  <2> QED BY <1>10, <2>2, <2>3, <2>4, <2>5
<1>19. BalanceInv'
  BY <1>1, <1>3, <1>4, <1>8, <1>10, <1>18 DEF BalanceInv
<1>20. ASSUME target = "grid" PROVE S \subseteq x.refine
  <2>1. CASE n \in refined
    BY <1>8, <2>1
  <2>2. CASE Full
    BY <1>10, <2>2
  <2>3. CASE ~Full /\ n \notin refined
    <3>1. n \in Leaves(refined) /\ S \in Refinements(n)
      BY <1>8, <1>9, <2>3
    <3>2. S \subseteq Needed(n)
      BY <1>2, <1>4, <3>1, RefinementFacts DEF TypeInv
    <3> QED BY <1>17, <1>20, <2>3, <3>1, <3>2
  <2> QED BY <2>1, <2>2, <2>3
<1> QED BY <1>3, <1>8, <1>12, <1>13, <1>14, <1>15, <1>19, <1>20 DEF Inv

(* The end of an adapt keeps the invariant. *)
LEMMA RefinedStepKeeps ==
  ASSUME Inv, ApplyRefined
  PROVE  Inv'
<1>1. /\ phase = "refine" /\ phase' = "idle" /\ rounds' = 0
      /\ target' = target /\ refined' = refined /\ cells' = cells
      /\ actions' = [nodes |-> {}, refine |-> {}, coarsen |-> {}]
  BY DEF ApplyRefined, NoActions
<1>2. TypeInv /\ TilesInv /\ EnforceInv /\ ApplyInv /\ BalanceInv
  BY DEF Inv
<1>3. actions'.nodes = {} /\ IsFiniteSet({})
  BY <1>1, FS_EmptySet
<1>4. TypeInv'
  <2>1. (actions \in Acts)'
    BY <1>1 DEF Acts
  <2> QED BY <1>1, <1>2, <1>3, <2>1 DEF TypeInv
<1>5. TilesInv'
  BY <1>1, <1>2 DEF TilesInv
<1>6. EnforceInv'
  <2>1. NoLevels' = Cardinality({level(m) : m \in {}})
    BY <1>3 DEF NoLevels, level
  <2>2. NoLevels' \in Nat
    BY <1>3, <2>1, LevelsCounted
  <2>3. rounds' = 0 /\ phase' = "idle"
    BY <1>1
  <2>4. rounds' <= NoLevels' + 1 /\ phase' # "enforce"
    <3>1. PICK v \in Nat : v = NoLevels'
      BY <2>2
    <3>2. 0 <= v + 1
      OBVIOUS
    <3>3. phase' # "enforce"
      BY <2>3
    <3> QED BY <2>3, <3>1, <3>2, <3>3
  <2> QED BY <2>4 DEF EnforceInv
<1>7. ApplyInv'
  BY <1>1 DEF ApplyInv
<1>8. BalanceInv'
  BY <1>1, <1>2 DEF BalanceInv, TypeInv
<1> QED BY <1>4, <1>5, <1>6, <1>7, <1>8 DEF Inv

(* A step that changes nothing keeps the invariant. *)
LEMMA StutterKeeps ==
  ASSUME Inv, UNCHANGED vars
  PROVE  Inv'
<1>1. /\ target' = target /\ refined' = refined /\ cells' = cells /\ actions' = actions
      /\ rounds' = rounds /\ phase' = phase
  BY DEF vars
<1>2. TypeInv /\ TilesInv /\ EnforceInv /\ ApplyInv /\ BalanceInv
  BY DEF Inv
<1>3. actions'.nodes = actions.nodes /\ NoLevels' = NoLevels
  BY <1>1 DEF NoLevels, level
<1>4. TypeInv'
  BY <1>1, <1>2 DEF TypeInv, Acts
<1>5. TilesInv'
  BY <1>1, <1>2 DEF TilesInv
<1>6. EnforceInv'
  <2>1. PICK A, x, k : A = Adjacent /\ x = actions /\ k = rounds
    OBVIOUS
  <2>2. Adjacent' = Adjacent
    BY <1>1, <1>3, AdjacentStays
  <2>3. ASSUME Settled(A, x, k) PROVE Settled(Adjacent, actions, rounds)'
    BY <1>1, <1>3, <2>1, <2>2, <2>3, SettledStays
  <2>4. ASSUME Whole(x) PROVE Whole(actions)'
    BY <1>1, <1>3, <2>1, <2>4, WholeStays
  <2>5. rounds' <= NoLevels' + 1 /\ (phase' = "enforce" => actions'.nodes = cells')
    BY <1>1, <1>2, <1>3 DEF EnforceInv
  <2>6. ASSUME phase' = "enforce", rounds' > 0
        PROVE  rounds' <= NoLevels' /\ Settled(Adjacent, actions, rounds)' /\ Whole(actions)'
    <3>1. phase = "enforce" /\ rounds > 0
      BY <1>1, <2>6
    <3>2. rounds <= NoLevels /\ Settled(Adjacent, actions, rounds) /\ Whole(actions)
      BY <1>2, <3>1 DEF EnforceInv
    <3>3. Settled(A, x, k) /\ Whole(x)
      BY <2>1, <3>2
    <3> QED BY <1>1, <1>3, <2>3, <2>4, <3>2, <3>3
  <2>7. CASE phase' = "enforce" /\ rounds' > 0
    <3>1. rounds' <= NoLevels'
      BY <2>6, <2>7
    <3>2. Settled(Adjacent, actions, rounds)'
      BY <2>6, <2>7
    <3>3. Whole(actions)'
      BY <2>6, <2>7
    <3> QED BY <2>5, <3>1, <3>2, <3>3 DEF EnforceInv
  <2>8. CASE ~(phase' = "enforce" /\ rounds' > 0)
    BY <2>5, <2>8 DEF EnforceInv
  <2> QED BY <2>7, <2>8
<1>7. ApplyInv'
  <2>1. PICK x : x = actions
    OBVIOUS
  <2>2. Whole(x) => Whole(actions)'
    BY <1>1, <1>3, <2>1, WholeStays
  <2> QED BY <1>1, <1>2, <2>1, <2>2 DEF ApplyInv
<1>8. BalanceInv'
  <2>1. Final' = Final
    BY <1>1 DEF Final, parent
  <2>2. Full' <=> Full
    BY <1>1 DEF Full
  <2> QED BY <1>1, <1>2, <2>1, <2>2 DEF BalanceInv
<1> QED BY <1>4, <1>5, <1>6, <1>7, <1>8 DEF Inv

(* Every step keeps the invariant. *)
LEMMA NextInv == Inv /\ [Next]_vars => Inv'
<1> SUFFICES ASSUME Inv, [Next]_vars PROVE Inv'
  OBVIOUS
<1>1. CASE compute_actions
  BY <1>1, ComputeKeeps
<1>2. CASE enforce_2_to_1_ratio_step
  BY <1>2, EnforceKeeps
<1>3. CASE ApplyCoarsen
  BY <1>3, CoarsenStepKeeps
<1>4. CASE ApplyCoarsened
  BY <1>4, CoarsenedStepKeeps
<1>5. CASE ApplyRefine
  BY <1>5, RefineStepKeeps
<1>6. CASE ApplyRefined
  BY <1>6, RefinedStepKeeps
<1>7. CASE UNCHANGED vars
  BY <1>7, StutterKeeps
<1> QED BY <1>1, <1>2, <1>3, <1>4, <1>5, <1>6, <1>7 DEF Next, Adapt, Ended

(* The invariant holds in every state, for every dimension and capacity, all *)
(* target levels and both targets.                                           *)
THEOREM InvHolds == Spec => []Inv
<1>1. Init => Inv
  BY InitInv
<1>2. Inv /\ [Next]_vars => Inv'
  BY NextInv
<1> QED BY <1>1, <1>2, PTL DEF Spec

(* The nodes of the target tile the domain through every step of an adapt    *)
(* (amr/state.hpp, apply).                                                   *)
THEOREM CellsTileHolds == Spec => []CellsTile
<1>1. Inv => CellsTile
  BY TilesOnce DEF Inv, TypeInv, TilesInv, Tiles, CellsTile
<1> QED BY <1>1, InvHolds, PTL

(* The loop of amr/state.hpp, enforce_2_to_1_ratio, ends after a round per   *)
(* level and one that changes nothing, whatever the criterion marked.        *)
THEOREM RoundsBoundedHolds == Spec => []RoundsBounded
<1>1. Inv => RoundsBounded
  BY DEF Inv, EnforceInv, NoLevels, RoundsBounded
<1> QED BY <1>1, InvHolds, PTL

(* After an adapt touching leaves of the tree differ by one level at most,   *)
(* in a grid and under a level set (amr/state.hpp, adapt).                   *)
THEOREM TargetTwoToOneHolds == Spec => []TargetTwoToOne
<1>1. Inv => TargetTwoToOne
  <2>1. SUFFICES ASSUME Inv, phase = "idle"
                 PROVE  /\ Bal!Balanced(refined)
                        /\ \A a, b \in cells :
                             level(a) > level(b) + 1 /\ Bal!Touch(a, b) => b \in refined
    BY DEF TargetTwoToOne
  <2>2. /\ TreeSet(refined) /\ IsFiniteSet(refined) /\ Bal!Balanced(refined)
        /\ cells \subseteq Leaves(refined) \cup refined
    BY <2>1 DEF Inv, TypeInv, TilesInv, Tiles, BalanceInv
  <2>3. ASSUME NEW a \in cells, NEW b \in cells, level(a) > level(b) + 1, Bal!Touch(a, b),
               b \notin refined
        PROVE  FALSE
    <3>1. b \in Leaves(refined) /\ b \in Path /\ a \in Path
      BY <2>2, <2>3, LeafFacts DEF TreeSet
    <3>2. level(a) = Len(a) /\ level(b) = Len(b) /\ Len(a) \in Nat /\ Len(b) \in Nat
      BY <3>1, LevelOf
    <3>3. PICK c \in Leaves(refined) : Bal!Touch(c, b) /\ Len(c) >= Len(a) /\ Len(c) \in Nat
      <4>1. CASE a \in Leaves(refined)
        BY <2>3, <3>2, <4>1
      <4>2. CASE a \in refined
        <5>1. BP!Touch(a, b) /\ refined \in SUBSET BP!Path /\ b \in BP!Path
              /\ BP!IsFiniteSet(refined)
          BY <2>2, <2>3, <3>1, SameTouch, SamePaths, SameFinite DEF TreeSet
        <5>2. PICK c \in BP!LeavesOf(refined) : BP!Touch(c, b) /\ Len(c) > Len(a)
          BY <4>2, <5>1, BP!DeepLeaf, AmrAssumption, NdAssumption
        <5>3. c \in Leaves(refined)
          BY <5>2, SamePaths DEF BP!LeavesOf, Leaves
        <5>4. Len(c) \in Nat
          BY <2>2, <5>3, LeafFacts
        <5> QED BY <3>2, <5>2, <5>3, <5>4, SameTouch
      <4> QED BY <2>2, <4>1, <4>2
    <3> QED BY <2>2, <2>3, <3>1, <3>2, <3>3, BalancedMeans
  <2> QED BY <2>2, <2>3
<1> QED BY <1>1, InvHolds, PTL

(* In a grid the enforcement leaves nothing to balanced_refine: every leaf   *)
(* that an adapt refines was marked.                                         *)
THEOREM RefinesTheMarkedHolds == Spec => RefinesTheMarked
<1>1. Inv /\ [Next]_vars =>
        [phase = "refine" /\ target = "grid" => refined' \ refined \subseteq actions.refine]_vars
  <2>1. SUFFICES ASSUME Inv, Next, phase = "refine", target = "grid"
                 PROVE  refined' \ refined \subseteq actions.refine
    OBVIOUS
  <2>2. CASE ApplyRefine
    BY <2>1, <2>2, RefineStepKeeps
  <2>3. CASE ApplyRefined
    BY <2>3 DEF ApplyRefined
  <2>4. ~compute_actions /\ ~enforce_2_to_1_ratio_step /\ ~ApplyCoarsen /\ ~ApplyCoarsened
        /\ ~Ended
    BY <2>1 DEF compute_actions, enforce_2_to_1_ratio_step, ApplyCoarsen, ApplyCoarsened, Ended
  <2> QED BY <2>1, <2>2, <2>3, <2>4 DEF Next, Adapt
<1> QED BY <1>1, InvHolds, PTL DEF Spec, RefinesTheMarked
=============================================================================
