----------------------------- MODULE PartsProofs -----------------------------
(***************************************************************************)
(* The invariants of MCParts, for every instance that PartsAssumption      *)
(* allows: octrees stay balanced as they grow and the search of their      *)
(* neighbours finds the adjacent leaves, in lists that fit the capacities  *)
(* of the code in every number of dimensions; the matrices keep their      *)
(* extents, their views and what was written to them; the generation of a  *)
(* grid ends at the level asked for; the lists of the neighbours implement *)
(* an undirected graph; both representations of a location stand for the   *)
(* path of a node.                                                         *)
(***************************************************************************)
EXTENDS MCParts, RelationsProofs

-----------------------------------------------------------------------------
(* Octrees. *)

(* What is proved of the balance and the search. *)
BP == INSTANCE BalancedProofs

(* BalancedProofs and MCParts speak of the same search, *)
LEMMA SameSearch ==
  \A n : BP!node_neighbors(n) = B!node_neighbors(n)
BY DEF BP!node_neighbors, B!node_neighbors, BP!neighbors_at, B!neighbors_at,
       BP!Neighbor, B!Neighbor, BP!neighbor_idx, B!neighbor_idx, BP!Manifold,
       B!Manifold, BP!neighbor_lookup_table, B!neighbor_lookup_table, BP!offset,
       B!offset, BP!shift_location, B!shift_location, BP!Coordinate, B!Coordinate,
       BP!bit, B!bit, BP!Dimension, B!Dimension, BP!PathTo, B!PathTo, BP!child_pos,
       B!child_pos, BP!no_children, B!no_children, BP!is_leaf, B!is_leaf,
       BP!children_sharing_face, B!children_sharing_face,
       BP!neighbor_children_sharing_face, B!neighbor_children_sharing_face,
       BP!node_or_parent_at, B!node_or_parent_at, BP!Tree!Exists, B!Tree!Exists,
       BP!Max, B!Max

(* ... the same leaves, *)
LEMMA SameLeaves ==
  /\ BP!Tree!Leaves = B!Tree!Leaves
  /\ \A n : BP!children(n) = B!children(n)
  /\ \A n : BP!is_leaf(n) <=> B!is_leaf(n)
BY DEF BP!Tree!Leaves, B!Tree!Leaves, BP!child_pos, B!child_pos, BP!no_children, B!no_children,
       BP!children, B!children, BP!is_leaf, B!is_leaf

(* ... the same contact of two nodes *)
LEMMA SameTouch ==
  \A a, b : BP!Touch(a, b) <=> B!Touch(a, b)
BY DEF BP!Touch, B!Touch, BP!Lower, B!Lower, BP!Upper, B!Upper, BP!Coordinate,
       B!Coordinate, BP!bit, B!bit, BP!Dimension, B!Dimension, BP!node_level,
       B!node_level

(* ... and the same steps. *)
LEMMA SameRefinement ==
  /\ \A n : B!Tree!Refine(n) => BP!Tree!Refine(n)
  /\ \A n : B!Tree!Coarsen(n) => BP!Tree!Coarsen(n)
  /\ B!Tree!Init => BP!Tree!Init
BY SameLeaves
   DEF BP!Tree!Refine, B!Tree!Refine, BP!Tree!Coarsen, B!Tree!Coarsen, BP!Tree!Init,
       B!Tree!Init, BP!Tree!Cardinality, B!Tree!Cardinality, B!child_pos, BP!child_pos,
       B!no_children, BP!no_children

(* of the same calls *)
LEMMA SameCalls ==
  /\ \A n : BP!Call(n) = B!Call(n)
  /\ \A n : BP!CanCoarsen(n) <=> B!CanCoarsen(n)
BY SameSearch, SameLeaves
   DEF BP!Call, B!Call, BP!CanCoarsen, B!CanCoarsen, BP!node_level, B!node_level

(* and of the same steps.                                                    *)
LEMMA SameNext == B!Next => BP!Next
<1>1. ASSUME NEW n \in B!Tree!Leaves, B!balanced_refine(n)
      PROVE  BP!balanced_refine(n) /\ n \in BP!Tree!Leaves
  BY <1>1, SameCalls, SameLeaves DEF B!balanced_refine, BP!balanced_refine
<1>2. B!VisitNeighbor => BP!VisitNeighbor
  BY SameCalls, SameLeaves
     DEF B!VisitNeighbor, BP!VisitNeighbor, B!top, BP!top, B!Returned, BP!Returned
<1>3. B!RefineNode => BP!RefineNode
  BY SameRefinement, SameLeaves
     DEF B!RefineNode, BP!RefineNode, B!top, BP!top, B!Returned, BP!Returned, BP!Cardinality,
         B!Cardinality
<1>4. ASSUME NEW n \in refined, B!balanced_coarsen(n)
      PROVE  BP!balanced_coarsen(n)
  BY <1>4, SameCalls, SameRefinement DEF B!balanced_coarsen, BP!balanced_coarsen
<1> QED BY <1>1, <1>2, <1>3, <1>4 DEF B!Next, BP!Next

(* The tree of the octrees is balanced in every state. *)
OctreeInv == subject = "octrees" => BP!Inv

(* However the calls of balanced_refine and balanced_coarsen follow each     *)
(* other, the octree they work on stays a balanced tree.                      *)
THEOREM OctreesBalanced == PartsSpec => []OctreeInv
<1>1. PartsInit => OctreeInv
  <2>1. B!Init => BP!Init
    BY SameRefinement DEF B!Init, BP!Init
  <2> QED BY <2>1, BP!InitInv, PartsAssumption, NdAssumption DEF PartsInit, OctreeInv
<1>2. OctreeInv /\ [PartsNext]_<<subject, locations, neighbors, matrices, trees>> => OctreeInv'
  <2> SUFFICES ASSUME OctreeInv, [PartsNext]_<<subject, locations, neighbors, matrices, trees>>,
                      subject' = "octrees"
               PROVE  BP!Inv'
    BY DEF OctreeInv
  <2>1. subject = "octrees" /\ ([BP!Next]_BP!vars)
    <3>1. CASE UNCHANGED <<subject, locations, neighbors, matrices, trees>>
      BY <3>1 DEF trees, BP!vars
    <3>2. CASE PartsNext
      BY <3>2, SameNext DEF PartsNext, B!NextFlat
    <3> QED BY <3>1, <3>2
  <2> QED BY <2>1, BP!NextInv, PartsAssumption, NdAssumption DEF OctreeInv
<1> QED BY <1>1, <1>2, PTL DEF PartsSpec

(* node_neighbors finds the leaves that touch a leaf and no other node, in    *)
(* every octree these calls can build.                                        *)
THEOREM OctreeSearchExact == PartsSpec => []OctreeNeighborsExact
<1>1. OctreeInv => OctreeNeighborsExact
  <2>1. BP!Inv => BP!NeighborsExact
    BY BP!SearchExact, PartsAssumption, NdAssumption DEF BP!Inv, BP!TreeInv, BP!NeighborsExact
  <2>2. BP!NeighborsExact => B!NeighborsExact
    BY SameSearch, SameTouch, SameLeaves DEF BP!NeighborsExact, B!NeighborsExact
  <2> QED BY <2>1, <2>2 DEF OctreeInv, OctreeNeighborsExact
<1> QED BY <1>1, OctreesBalanced, PTL

-----------------------------------------------------------------------------
(* The lists of a search fit. *)

(* A manifold of k neighbours, each with at most w children that share the face. *)
FaceWidth(M0, k, w) ==
  /\ neighbor_idx(M0) = 1 .. k
  /\ \A i \in 1 .. k : AtMost(children_sharing_face(M0, i), w)

(* A neighbour across a face of a segment is one leaf. *)
LEMMA WidthsOne ==
  ASSUME Nd = 1
  PROVE  FaceWidth(1, 2, 1)
<1>1. FaceWidth(1, 2, 1)
  <2>1. Nd - 1 = 0
    OBVIOUS
  <2>2. /\ neighbor_lookup_table[0] =
               <<<<-1>>, <<1>>>>
        /\ neighbor_children_sharing_face[0] =
               <<{1}, {0}>>
    BY DEF neighbor_lookup_table, neighbor_children_sharing_face
  <2>3. neighbor_idx(1) = 1 .. 2
    BY <2>1, <2>2 DEF neighbor_idx
  <2>4. \A i \in 1 .. 2 : children_sharing_face(1, i) \in
          {{1}, {0}}
    BY <2>1, <2>2 DEF children_sharing_face
  <2>5. AtMost({1}, 1) /\ AtMost({0}, 1)
    BY SmallSets
  <2> HIDE DEF AtMost
  <2> QED BY <2>3, <2>4, <2>5 DEF FaceWidth
<1> QED BY <1>1

(* Across an edge of a square there are two leaves, across a corner one. *)
LEMMA WidthsTwo ==
  ASSUME Nd = 2
  PROVE  FaceWidth(1, 4, 2) /\ FaceWidth(2, 4, 1)
<1>1. FaceWidth(1, 4, 2)
  <2>1. Nd - 1 = 1
    OBVIOUS
  <2>2. /\ neighbor_lookup_table[1] =
               <<<<-1, 0>>, <<1, 0>>, <<0, -1>>, <<0, 1>>>>
        /\ neighbor_children_sharing_face[1] =
               <<{1, 3}, {0, 2}, {2, 3}, {0, 1}>>
    BY DEF neighbor_lookup_table, neighbor_children_sharing_face
  <2>3. neighbor_idx(1) = 1 .. 4
    BY <2>1, <2>2 DEF neighbor_idx
  <2>4. \A i \in 1 .. 4 : children_sharing_face(1, i) \in
          {{1, 3}, {0, 2}, {2, 3}, {0, 1}}
    BY <2>1, <2>2 DEF children_sharing_face
  <2>5. AtMost({1, 3}, 2) /\ AtMost({0, 2}, 2) /\ AtMost({2, 3}, 2) /\ AtMost({0, 1}, 2)
    BY SmallSets
  <2> HIDE DEF AtMost
  <2> QED BY <2>3, <2>4, <2>5 DEF FaceWidth
<1>2. FaceWidth(2, 4, 1)
  <2>1. Nd - 2 = 0
    OBVIOUS
  <2>2. /\ neighbor_lookup_table[0] =
               <<<<-1, -1>>, <<1, -1>>, <<-1, 1>>, <<1, 1>>>>
        /\ neighbor_children_sharing_face[0] =
               <<{3}, {2}, {1}, {0}>>
    BY DEF neighbor_lookup_table, neighbor_children_sharing_face
  <2>3. neighbor_idx(2) = 1 .. 4
    BY <2>1, <2>2 DEF neighbor_idx
  <2>4. \A i \in 1 .. 4 : children_sharing_face(2, i) \in
          {{3}, {2}, {1}, {0}}
    BY <2>1, <2>2 DEF children_sharing_face
  <2>5. AtMost({3}, 1) /\ AtMost({2}, 1) /\ AtMost({1}, 1) /\ AtMost({0}, 1)
    BY SmallSets
  <2> HIDE DEF AtMost
  <2> QED BY <2>3, <2>4, <2>5 DEF FaceWidth
<1> QED BY <1>1, <1>2

(* Across a face of a cube there are four leaves, across an edge two, across  *)
(* a corner one.                                                              *)
LEMMA WidthsThree ==
  ASSUME Nd = 3
  PROVE  FaceWidth(1, 6, 4) /\ FaceWidth(2, 12, 2) /\ FaceWidth(3, 8, 1)
<1>1. FaceWidth(1, 6, 4)
  <2>1. Nd - 1 = 2
    OBVIOUS
  <2>2. /\ neighbor_lookup_table[2] =
               <<<<-1, 0, 0>>, <<1, 0, 0>>, <<0, -1, 0>>, <<0, 1, 0>>, <<0, 0, -1>>, <<0, 0, 1>>>>
        /\ neighbor_children_sharing_face[2] =
               <<{1, 3, 5, 7}, {0, 2, 4, 6}, {2, 3, 6, 7}, {0, 1, 4, 5}, {4, 5, 6, 7}, {0, 1, 2, 3}>>
    BY DEF neighbor_lookup_table, neighbor_children_sharing_face
  <2>3. neighbor_idx(1) = 1 .. 6
    BY <2>1, <2>2 DEF neighbor_idx
  <2>4. \A i \in 1 .. 6 : children_sharing_face(1, i) \in
          {{1, 3, 5, 7}, {0, 2, 4, 6}, {2, 3, 6, 7}, {0, 1, 4, 5}, {4, 5, 6, 7}, {0, 1, 2, 3}}
    BY <2>1, <2>2 DEF children_sharing_face
  <2>5. /\ AtMost({1, 3, 5, 7}, 4) /\ AtMost({0, 2, 4, 6}, 4)
        /\ AtMost({2, 3, 6, 7}, 4) /\ AtMost({0, 1, 4, 5}, 4)
        /\ AtMost({4, 5, 6, 7}, 4) /\ AtMost({0, 1, 2, 3}, 4)
    BY SmallSets
  <2> HIDE DEF AtMost
  <2> QED BY <2>3, <2>4, <2>5 DEF FaceWidth
<1>2. FaceWidth(2, 12, 2)
  <2>1. Nd - 2 = 1
    OBVIOUS
  <2>2. /\ neighbor_lookup_table[1] =
               <<<<-1, -1, 0>>, <<1, -1, 0>>, <<-1, 1, 0>>, <<1, 1, 0>>,
                   <<-1, 0, -1>>, <<1, 0, -1>>, <<0, -1, -1>>, <<0, 1, -1>>,
                   <<-1, 0, 1>>, <<1, 0, 1>>, <<0, -1, 1>>, <<0, 1, 1>>>>
        /\ neighbor_children_sharing_face[1] =
               <<{3, 7}, {2, 6}, {1, 5}, {0, 4}, {5, 7}, {4, 6}, {6, 7}, {4, 5}, {1, 3}, {0, 2}, {2, 3}, {0, 1}>>
    BY DEF neighbor_lookup_table, neighbor_children_sharing_face
  <2>3. neighbor_idx(2) = 1 .. 12
    BY <2>1, <2>2 DEF neighbor_idx
  <2>4. \A i \in 1 .. 12 : children_sharing_face(2, i) \in
          {{3, 7}, {2, 6}, {1, 5}, {0, 4}, {5, 7}, {4, 6}, {6, 7}, {4, 5}, {1, 3}, {0, 2}, {2, 3}, {0, 1}}
    BY <2>1, <2>2 DEF children_sharing_face
  <2>5. /\ AtMost({3, 7}, 2) /\ AtMost({2, 6}, 2) /\ AtMost({1, 5}, 2)
        /\ AtMost({0, 4}, 2) /\ AtMost({5, 7}, 2) /\ AtMost({4, 6}, 2)
        /\ AtMost({6, 7}, 2) /\ AtMost({4, 5}, 2) /\ AtMost({1, 3}, 2)
        /\ AtMost({0, 2}, 2) /\ AtMost({2, 3}, 2) /\ AtMost({0, 1}, 2)
    BY SmallSets
  <2> HIDE DEF AtMost
  <2> QED BY <2>3, <2>4, <2>5 DEF FaceWidth
<1>3. FaceWidth(3, 8, 1)
  <2>1. Nd - 3 = 0
    OBVIOUS
  <2>2. /\ neighbor_lookup_table[0] =
               <<<<-1, -1, -1>>, <<1, -1, -1>>, <<-1, 1, -1>>, <<1, 1, -1>>,
                   <<-1, -1, 1>>, <<1, -1, 1>>, <<-1, 1, 1>>, <<1, 1, 1>>>>
        /\ neighbor_children_sharing_face[0] =
               <<{7}, {6}, {5}, {4}, {3}, {2}, {1}, {0}>>
    BY DEF neighbor_lookup_table, neighbor_children_sharing_face
  <2>3. neighbor_idx(3) = 1 .. 8
    BY <2>1, <2>2 DEF neighbor_idx
  <2>4. \A i \in 1 .. 8 : children_sharing_face(3, i) \in
          {{7}, {6}, {5}, {4}, {3}, {2}, {1}, {0}}
    BY <2>1, <2>2 DEF children_sharing_face
  <2>5. /\ AtMost({7}, 1) /\ AtMost({6}, 1) /\ AtMost({5}, 1) /\ AtMost({4}, 1)
        /\ AtMost({3}, 1) /\ AtMost({2}, 1) /\ AtMost({1}, 1) /\ AtMost({0}, 1)
    BY SmallSets
  <2> HIDE DEF AtMost
  <2> QED BY <2>3, <2>4, <2>5 DEF FaceWidth
<1> QED BY <1>1, <1>2, <1>3

(* Balanced has the tables of Relations. *)
LEMMA SameTables ==
  /\ B!Neighbor = Neighbor
  /\ \A M0, i : B!children_sharing_face(M0, i) = children_sharing_face(M0, i)
  /\ B!max_no_neighbors(Nd) = max_no_neighbors(Nd)
BY DEF B!Neighbor, Neighbor, B!neighbor_idx, neighbor_idx, B!Manifold, Manifold,
       B!neighbor_lookup_table, neighbor_lookup_table, B!children_sharing_face,
       children_sharing_face, B!neighbor_children_sharing_face,
       neighbor_children_sharing_face, B!max_no_neighbors, max_no_neighbors,
       B!MapThenSumSet, MapThenSumSet, B!MapThenFoldSet, MapThenFoldSet, B!no_neighbors,
       no_neighbors, B!no_nodes_sharing_face, no_nodes_sharing_face, B!no_faces, no_faces,
       B!binomial_coefficient, binomial_coefficient, B!Cardinality, Cardinality

(* What one step of the search finds. *)
LEMMA FoundAcross ==
  ASSUME NEW n, NEW M0, NEW i, NEW w \in Nat, w >= 1,
         AtMost(children_sharing_face(M0, i), w)
  PROVE  AtMost(B!neighbors_at(n, M0, i), w)
<1> DEFINE cells == B!shift_location(n, B!offset(M0, i))
           found == {B!node_or_parent_at(cell) : cell \in cells}
           kids == children_sharing_face(M0, i)
<1>1. PICK x : cells \subseteq {x}
  BY DEF B!shift_location
<1>2. PICK y : found \subseteq {y}
  BY <1>1
<1>3. B!neighbors_at(n, M0, i) = {k \in found : B!is_leaf(k)}
        \cup {Append(k, p) : k \in {k \in found : ~B!is_leaf(k)}, p \in kids}
  BY SameTables DEF B!neighbors_at
<1> HIDE DEF found
<1>4. \/ B!neighbors_at(n, M0, i) \subseteq {y}
      \/ B!neighbors_at(n, M0, i) \subseteq {Append(y, p) : p \in kids}
  <2>1. CASE B!is_leaf(y)
    BY <1>2, <1>3, <2>1
  <2>2. CASE ~B!is_leaf(y)
    BY <1>2, <1>3, <2>2
  <2> QED BY <2>1, <2>2
<1>5. AtMost({y}, w)
  BY FS_Singleton DEF AtMost
<1>6. AtMost({Append(y, p) : p \in kids}, w)
  <2>1. IsFiniteSet(kids) /\ Cardinality(kids) <= w /\ Cardinality(kids) \in Nat
    BY FS_CardinalityType DEF AtMost
  <2> HIDE DEF kids
  <2> DEFINE im == {Append(y, p) : p \in kids}
             g == [p \in kids |-> Append(y, p)]
  <2>2. g \in Surjection(kids, im)
    BY DEF Surjection
  <2>3. IsFiniteSet(im) /\ Cardinality(im) <= Cardinality(kids)
    <3> HIDE DEF g, im
    <3> QED BY <2>1, <2>2, FS_Surjection
  <2>4. Cardinality(im) \in Nat
    BY <2>3, FS_CardinalityType
  <2> QED BY <2>1, <2>3, <2>4 DEF AtMost
<1>7. ASSUME NEW K, NEW L, K \subseteq L, AtMost(L, w) PROVE AtMost(K, w)
  <2>1. IsFiniteSet(K) /\ Cardinality(K) <= Cardinality(L)
    BY <1>7, FS_Subset DEF AtMost
  <2>2. Cardinality(K) \in Nat /\ Cardinality(L) \in Nat
    BY <2>1, <1>7, FS_CardinalityType DEF AtMost
  <2> QED BY <2>1, <2>2, <1>7 DEF AtMost
<1> HIDE DEF AtMost, kids
<1> QED BY <1>4, <1>5, <1>6, <1>7

(* How many nodes the search of a node finds, over all neighbours. *)
TotalFound(n) ==
  B!MapThenSumSet(LAMBDA Mi : B!Cardinality(B!neighbors_at(n, Mi[1], Mi[2])), B!Neighbor)

(* The sum that the search holds, of four, two and one at most. *)
LEMMA SumOfFound ==
  ASSUME NEW n, NEW A4, NEW A2, NEW A1, Neighbor = A4 \cup A2 \cup A1,
         IsFiniteSet(A4), IsFiniteSet(A2), IsFiniteSet(A1),
         A4 \cap A2 = {}, A4 \cap A1 = {}, A2 \cap A1 = {},
         \A at \in A4 : AtMost(children_sharing_face(at[1], at[2]), 4),
         \A at \in A2 : AtMost(children_sharing_face(at[1], at[2]), 2),
         \A at \in A1 : AtMost(children_sharing_face(at[1], at[2]), 1)
  PROVE  /\ TotalFound(n) \in Nat
         /\ TotalFound(n) <= 4 * Cardinality(A4) + 2 * Cardinality(A2) + Cardinality(A1)
<1> DEFINE S == A4 \cup A2 \cup A1
           F(at) == B!Cardinality(B!neighbors_at(n, at[1], at[2]))
           f == [at \in S |-> F(at)]
           C(T) == CHOOSE x \in T : TRUE
           Summed(it) == it = [T \in SUBSET S |->
                                 IF T = {} THEN 0 ELSE F(C(T)) + it[T \ {C(T)}]]
<1>1. \A K : B!Cardinality(K) = Cardinality(K)
  BY DEF B!Cardinality, Cardinality
<1>2. /\ \A at \in A4 : AtMost(B!neighbors_at(n, at[1], at[2]), 4)
      /\ \A at \in A2 : AtMost(B!neighbors_at(n, at[1], at[2]), 2)
      /\ \A at \in A1 : AtMost(B!neighbors_at(n, at[1], at[2]), 1)
  <2>1. ASSUME NEW at \in A4 PROVE AtMost(B!neighbors_at(n, at[1], at[2]), 4)
    <3>1. 4 \in Nat /\ 4 >= 1
      OBVIOUS
    <3> QED BY <3>1, FoundAcross, Zenon
  <2>2. ASSUME NEW at \in A2 PROVE AtMost(B!neighbors_at(n, at[1], at[2]), 2)
    <3>1. 2 \in Nat /\ 2 >= 1
      OBVIOUS
    <3> QED BY <3>1, FoundAcross, Zenon
  <2>3. ASSUME NEW at \in A1 PROVE AtMost(B!neighbors_at(n, at[1], at[2]), 1)
    <3>1. 1 \in Nat /\ 1 >= 1
      OBVIOUS
    <3> QED BY <3>1, FoundAcross, Zenon
  <2> QED BY <2>1, <2>2, <2>3
<1>3. /\ \A at \in S : F(at) \in Nat
      /\ \A at \in A4 : F(at) <= 4
      /\ \A at \in A2 : F(at) <= 2
      /\ \A at \in A1 : F(at) <= 1
  BY <1>1, <1>2, FS_CardinalityType DEF AtMost
<1> HIDE DEF F
<1>4. f \in [S -> Nat] /\ \A at \in S : f[at] = F(at)
  BY <1>3
<1>5. IsFiniteSet(S)
  BY FS_Union
<1> HIDE DEF f
<1>6. \A it : IsSum(it, f, S) <=> Summed(it)
  <2>1. \A T \in SUBSET S : T # {} => f[C(T)] = F(C(T))
    BY <1>4
  <2> QED BY <2>1, ZenonT(60) DEF IsSum
<1>7. \E it : Summed(it)
  <2>0. f \in [S -> Int]
    BY <1>4
  <2>1. PICK it : IsSum(it, f, S)
    BY <2>0, <1>5, SumExists
  <2>2. Summed(it)
    BY <2>1, <1>6, Zenon
  <2> HIDE DEF Summed
  <2> QED BY <2>2, Zenon
<1>8. PICK it : Summed(it) /\ TotalFound(n) = it[S]
  <2>1. B!Neighbor = S
    BY SameTables
  <2>2. TotalFound(n) = (CHOOSE it : Summed(it))[S]
    BY <2>1 DEF TotalFound, B!MapThenSumSet, B!MapThenFoldSet, F
  <2>3. Summed(CHOOSE it : Summed(it))
    <3> HIDE DEF Summed
    <3> QED BY <1>7, Zenon
  <2> HIDE DEF Summed
  <2> QED BY <2>2, <2>3, Zenon
<1>9. IsSum(it, f, S)
  BY <1>6, <1>8, Zenon
<1>10. it[S] \in Nat /\ it[S] <= 4 * Cardinality(A4) + 2 * Cardinality(A2) + Cardinality(A1)
  <2>1. /\ \A x \in A4 : f[x] <= 4
        /\ \A x \in A2 : f[x] <= 2
        /\ \A x \in A1 : f[x] <= 1
    BY <1>3, <1>4
  <2> QED BY <1>4, <1>9, <2>1, GroupedSum
<1> QED BY <1>8, <1>10

(* The neighbours of one manifold. *)
LEMMA NeighborsOfManifold ==
  ASSUME NEW M0, NEW k \in Nat, NEW w, FaceWidth(M0, k, w)
  PROVE  /\ IsFiniteSet({M0} \X neighbor_idx(M0))
         /\ Cardinality({M0} \X neighbor_idx(M0)) = k
         /\ \A at \in {M0} \X neighbor_idx(M0) :
              AtMost(children_sharing_face(at[1], at[2]), w)
<1>1. neighbor_idx(M0) = 1 .. k /\ \A i \in 1 .. k : AtMost(children_sharing_face(M0, i), w)
  BY DEF FaceWidth
<1>2. IsFiniteSet(1 .. k) /\ Cardinality(1 .. k) = k
  BY FS_Interval
<1>3. IsFiniteSet({M0}) /\ Cardinality({M0}) = 1
  BY FS_Singleton
<1>4. IsFiniteSet({M0} \X (1 .. k)) /\ Cardinality({M0} \X (1 .. k)) = 1 * k
  BY <1>2, <1>3, FS_Product, ZenonT(60)
<1>5. \A at \in {M0} \X (1 .. k) : at[1] = M0 /\ at[2] \in 1 .. k
  OBVIOUS
<1> QED BY <1>1, <1>4, <1>5

(* What the search finds for a leaf fits its container. *)
LEMMA SearchFits == B!NeighborsFit
<1> DEFINE across(M0) == {M0} \X neighbor_idx(M0)
<1>1. IsFiniteSet({}) /\ Cardinality({}) = 0 /\ \A at : at \notin {}
  BY FS_EmptySet
<1>2. CASE Nd = 1
  <2>1. Neighbor = across(1)
    BY <1>2 DEF Neighbor, Manifold
  <2>2. /\ IsFiniteSet(across(1)) /\ Cardinality(across(1)) = 2
        /\ \A at \in across(1) : AtMost(children_sharing_face(at[1], at[2]), 1)
    <3>1. FaceWidth(1, 2, 1) /\ 2 \in Nat
      BY <1>2, WidthsOne
    <3> QED BY <3>1, NeighborsOfManifold
  <2>5. /\ Neighbor = {} \cup {} \cup across(1)
        /\ {} \cap {} = {} /\ {} \cap across(1) = {} /\ {} \cap across(1) = {}
    BY <2>1
  <2>6. ASSUME NEW n PROVE TotalFound(n) \in Nat /\ TotalFound(n) <= 2
    <3> HIDE DEF across
    <3>1. /\ TotalFound(n) \in Nat
          /\ TotalFound(n)
               <= 4 * Cardinality({}) + 2 * Cardinality({}) + Cardinality(across(1))
      BY <1>1, <2>2, <2>5, SumOfFound
    <3> QED BY <1>1, <2>2, <3>1
  <2>7. 2 <= max_no_neighbors(Nd) /\ max_no_neighbors(Nd) \in Nat
    BY <1>2, RoomForNeighbors
  <2>8. \A n : TotalFound(n) <= B!max_no_neighbors(Nd)
    BY <2>6, <2>7, SameTables
  <2> QED BY <2>8, ZenonT(60) DEF B!NeighborsFit, TotalFound, B!MapThenSumSet, B!MapThenFoldSet
<1>3. CASE Nd = 2
  <2>1. Neighbor = across(1) \cup across(2)
    BY <1>3 DEF Neighbor, Manifold
  <2>2. /\ IsFiniteSet(across(1)) /\ Cardinality(across(1)) = 4
        /\ \A at \in across(1) : AtMost(children_sharing_face(at[1], at[2]), 2)
    <3>1. FaceWidth(1, 4, 2) /\ 4 \in Nat
      BY <1>3, WidthsTwo
    <3> QED BY <3>1, NeighborsOfManifold
  <2>3. /\ IsFiniteSet(across(2)) /\ Cardinality(across(2)) = 4
        /\ \A at \in across(2) : AtMost(children_sharing_face(at[1], at[2]), 1)
    <3>1. FaceWidth(2, 4, 1) /\ 4 \in Nat
      BY <1>3, WidthsTwo
    <3> QED BY <3>1, NeighborsOfManifold
  <2>5. /\ Neighbor = {} \cup across(1) \cup across(2)
        /\ {} \cap across(1) = {} /\ {} \cap across(2) = {} /\ across(1) \cap across(2) = {}
    BY <2>1
  <2>6. ASSUME NEW n PROVE TotalFound(n) \in Nat /\ TotalFound(n) <= 12
    <3> HIDE DEF across
    <3>1. /\ TotalFound(n) \in Nat
          /\ TotalFound(n)
               <= 4 * Cardinality({}) + 2 * Cardinality(across(1)) + Cardinality(across(2))
      BY <1>1, <2>2, <2>3, <2>5, SumOfFound
    <3> QED BY <1>1, <2>2, <2>3, <3>1
  <2>7. 12 <= max_no_neighbors(Nd) /\ max_no_neighbors(Nd) \in Nat
    BY <1>3, RoomForNeighbors
  <2>8. \A n : TotalFound(n) <= B!max_no_neighbors(Nd)
    BY <2>6, <2>7, SameTables
  <2> QED BY <2>8, ZenonT(60) DEF B!NeighborsFit, TotalFound, B!MapThenSumSet, B!MapThenFoldSet
<1>4. CASE Nd = 3
  <2>1. Neighbor = across(1) \cup across(2) \cup across(3)
    BY <1>4 DEF Neighbor, Manifold
  <2>2. /\ IsFiniteSet(across(1)) /\ Cardinality(across(1)) = 6
        /\ \A at \in across(1) : AtMost(children_sharing_face(at[1], at[2]), 4)
    <3>1. FaceWidth(1, 6, 4) /\ 6 \in Nat
      BY <1>4, WidthsThree
    <3> QED BY <3>1, NeighborsOfManifold
  <2>3. /\ IsFiniteSet(across(2)) /\ Cardinality(across(2)) = 12
        /\ \A at \in across(2) : AtMost(children_sharing_face(at[1], at[2]), 2)
    <3>1. FaceWidth(2, 12, 2) /\ 12 \in Nat
      BY <1>4, WidthsThree
    <3> QED BY <3>1, NeighborsOfManifold
  <2>4. /\ IsFiniteSet(across(3)) /\ Cardinality(across(3)) = 8
        /\ \A at \in across(3) : AtMost(children_sharing_face(at[1], at[2]), 1)
    <3>1. FaceWidth(3, 8, 1) /\ 8 \in Nat
      BY <1>4, WidthsThree
    <3> QED BY <3>1, NeighborsOfManifold
  <2>5. /\ Neighbor = across(1) \cup across(2) \cup across(3)
        /\ across(1) \cap across(2) = {} /\ across(1) \cap across(3) = {} /\ across(2) \cap across(3) = {}
    BY <2>1
  <2>6. ASSUME NEW n PROVE TotalFound(n) \in Nat /\ TotalFound(n) <= 56
    <3> HIDE DEF across
    <3>1. /\ TotalFound(n) \in Nat
          /\ TotalFound(n)
               <= 4 * Cardinality(across(1)) + 2 * Cardinality(across(2)) + Cardinality(across(3))
      BY <1>1, <2>2, <2>3, <2>4, <2>5, SumOfFound
    <3> QED BY <1>1, <2>2, <2>3, <2>4, <3>1
  <2>7. 56 <= max_no_neighbors(Nd) /\ max_no_neighbors(Nd) \in Nat
    BY <1>4, RoomForNeighbors
  <2>8. \A n : TotalFound(n) <= B!max_no_neighbors(Nd)
    BY <2>6, <2>7, SameTables
  <2> QED BY <2>8, ZenonT(60) DEF B!NeighborsFit, TotalFound, B!MapThenSumSet, B!MapThenFoldSet
<1> QED BY <1>2, <1>3, <1>4, NdAssumption

(* The neighbours found for a leaf fit the container the code returns them in *)
(* (max_no_neighbors), in every number of dimensions and every octree.        *)
THEOREM OctreeSearchFits == PartsSpec => []OctreeNeighborsFit
<1>1. OctreeNeighborsFit
  BY SearchFits DEF OctreeNeighborsFit
<1> QED BY <1>1, PTL

-----------------------------------------------------------------------------
(* Matrices. *)

(* Numbers of rows of s elements. *)
LEMMA RowsOfElements ==
  ASSUME NEW s \in Nat, NEW n \in Nat
  PROVE  /\ \A o \in 0 .. n - 1, i \in 0 .. s - 1 :
              /\ o * s + i \in 0 .. n * s - 1
              /\ (o * s + i) \div s = o /\ (o * s + i) % s = i
         /\ \A k \in 0 .. n * s - 1 :
              /\ k \div s \in 0 .. n - 1 /\ k % s \in 0 .. s - 1
              /\ (k \div s) * s + (k % s) = k
<1>1. CASE s = 0
  BY <1>1
<1>2. CASE s > 0
  <2>1. ASSUME NEW o \in 0 .. n - 1, NEW i \in 0 .. s - 1
        PROVE  /\ o * s + i \in 0 .. n * s - 1
               /\ (o * s + i) \div s = o /\ (o * s + i) % s = i
    <3>1. PICK y \in Nat : y = o * s
      OBVIOUS
    <3>2. y + s <= n * s /\ n * s \in Nat
      <4>1. PICK z \in Nat : n = o + 1 + z
        <5>1. n - (o + 1) \in Nat /\ n = o + 1 + (n - (o + 1))
          OBVIOUS
        <5> QED BY <5>1
      <4>2. n * s = o * s + s + z * s
        BY <4>1
      <4>3. z * s \in Nat
        OBVIOUS
      <4> QED BY <4>2, <4>3, <3>1
    <3>3. (y + i) = s * ((y + i) \div s) + ((y + i) % s) /\ (y + i) % s \in 0 .. s - 1
          /\ (y + i) \div s \in Int
      BY <1>2, <3>1
    <3>4. PICK q \in Int : q = (y + i) \div s
      BY <3>3
    <3>5. PICK r \in 0 .. s - 1 : r = (y + i) % s
      BY <3>3
    <3>6. y + i = s * q + r
      BY <3>3, <3>4, <3>5
    <3>7. q = o
      <4>1. CASE q < o
        <5>1. s * (q + 1) <= s * o
          BY <4>1
        <5>2. s * (q + 1) = s * q + s /\ s * o = y
          BY <3>1
        <5> QED BY <5>1, <5>2, <3>6
      <4>2. CASE o < q
        <5>1. s * (o + 1) <= s * q
          BY <4>2
        <5>2. s * (o + 1) = s * o + s /\ s * o = y
          BY <3>1
        <5> QED BY <5>1, <5>2, <3>6
      <4> QED BY <4>1, <4>2
    <3>8. r = i
      BY <3>6, <3>7, <3>1
    <3>9. y + i \in 0 .. n * s - 1
      BY <3>1, <3>2
    <3> QED BY <3>1, <3>4, <3>5, <3>7, <3>8, <3>9
  <2>2. ASSUME NEW k \in 0 .. n * s - 1
        PROVE  /\ k \div s \in 0 .. n - 1 /\ k % s \in 0 .. s - 1
               /\ (k \div s) * s + (k % s) = k
    <3>1. PICK q \in Int : q = k \div s
      BY <1>2
    <3>2. PICK r \in 0 .. s - 1 : r = k % s
      BY <1>2
    <3>3. k = s * q + r /\ k \in Nat /\ n * s \in Nat /\ k < n * s
      BY <1>2, <3>1, <3>2
    <3>4. q >= 0
      <4>1. q < 0 => s * (q + 1) <= 0
        BY <1>2
      <4>2. s * (q + 1) = s * q + s
        OBVIOUS
      <4> QED BY <4>1, <4>2, <3>3
    <3>5. q < n
      <4>1. q >= n => s * n <= s * q
        OBVIOUS
      <4>2. s * n = n * s /\ s * q \in Int
        OBVIOUS
      <4> QED BY <4>1, <4>2, <3>3
    <3>6. s * q = q * s
      OBVIOUS
    <3> QED BY <3>1, <3>2, <3>3, <3>4, <3>5, <3>6
  <2> QED BY <2>1, <2>2
<1> QED BY <1>1, <1>2

(* The kinds of matrices. *)
LEMMA KindsOfMatrices ==
  ASSUME NEW t \in Types, NEW r \in Nat, NEW c \in Nat, M!Constructible(t, r, c)
  PROVE  /\ t.order \in {"row_major", "col_major"} /\ t.bit \in BOOLEAN
         /\ M!extent(t.max_rows, r) \in Nat /\ M!extent(t.max_cols, c) = c
         /\ M!extent(t.max_rows, r) >= r
         /\ M!extent(t.max_rows, r) = r \/ (t.order = "col_major" /\ c = 1)
         /\ t.bit => t.order = "col_major" /\ c = 1 /\ M!extent(t.max_rows, r) = r
<1> DEFINE Good == /\ t.order \in {"row_major", "col_major"} /\ t.bit \in BOOLEAN
                   /\ M!extent(t.max_rows, r) \in Nat /\ M!extent(t.max_cols, c) = c
                   /\ M!extent(t.max_rows, r) >= r
                   /\ M!extent(t.max_rows, r) = r \/ (t.order = "col_major" /\ c = 1)
                   /\ t.bit => t.order = "col_major" /\ c = 1 /\ M!extent(t.max_rows, r) = r
<1>1. /\ t.no_rows \in {-1, r} /\ t.no_cols \in {-1, c}
      /\ r <= M!extent(t.max_rows, r)
  BY DEF M!Constructible, M!dynamic
<1>2. \A e : M!extent(-1, e) = e /\ M!extent(1, e) = 1 /\ M!extent(2, e) = 2
              /\ M!extent(3, e) = 3 /\ M!extent(4, e) = 4
  BY DEF M!extent, M!dynamic
<1>3. ASSUME NEW o \in {"row_major", "col_major"}, t \in MatrixKinds(o)
      PROVE  Good
  <2>1. CASE t = Kind(o, -1, -1, -1, -1, FALSE)
    BY <1>1, <1>2, <2>1 DEF Kind
  <2>2. CASE t = Kind(o, 2, 3, 2, 3, FALSE)
    BY <1>1, <1>2, <2>2 DEF Kind
  <2>3. CASE t = Kind(o, -1, 3, -1, 3, FALSE)
    BY <1>1, <1>2, <2>3 DEF Kind
  <2>4. CASE t = Kind(o, 2, -1, 2, -1, FALSE)
    BY <1>1, <1>2, <2>4 DEF Kind
  <2> QED BY <1>3, <2>1, <2>2, <2>3, <2>4 DEF MatrixKinds
<1>4. ASSUME NEW mr \in {-1, 4}, t = Kind("col_major", -1, 1, mr, 1, FALSE)
      PROVE  Good
  BY <1>1, <1>2, <1>4 DEF Kind
<1>5. ASSUME NEW s \in {-1, 3}, NEW b \in BOOLEAN, t = Kind("col_major", s, 1, s, 1, b)
      PROVE  Good
  BY <1>1, <1>2, <1>5 DEF Kind
<1>6. \/ t \in MatrixKinds("row_major") \/ t \in MatrixKinds("col_major")
      \/ \E mr \in {-1, 4} : t = Kind("col_major", -1, 1, mr, 1, FALSE)
      \/ \E s \in {-1, 3} : t = Kind("col_major", s, 1, s, 1, FALSE)
      \/ \E s \in {-1, 3} : t = Kind("col_major", s, 1, s, 1, TRUE)
  BY DEF Types
<1> HIDE DEF Good
<1>7. Good
  BY <1>3, <1>4, <1>5, <1>6
<1> QED BY <1>7 DEF Good
(* The matrix has the storage that its kind and its dimensions ask for. *)
MatrixShape ==
  /\ m = [type |-> m.type, no_rows |-> m.no_rows, no_cols |-> m.no_cols, data |-> m.data]
  /\ m.type \in Types /\ m.no_rows \in Nat /\ m.no_cols \in Nat
  /\ M!Constructible(m.type, m.no_rows, m.no_cols)
  /\ m.data = [i \in 0 .. M!max_size(m.type, m.no_rows, m.no_cols) - 1 |-> m.data[i]]
  /\ table = [p \in M!Row \X M!Col |-> table[p]]

(* What it holds at a row and column is where their index says. *)
MatrixInv ==
  /\ MatrixShape
  /\ \A r \in M!Row, c \in M!Col : m.data[M!matrix_idx(r, c)] = table[<<r, c>>]

(* An index for every row and column and no other, whichever way. *)
LEMMA Layout ==
  ASSUME MatrixShape
  PROVE  /\ \A r \in M!Row, c \in M!Col :
              /\ M!matrix_idx(r, c) \in DOMAIN m.data
              /\ M!view_idx(r, c) = M!matrix_idx(r, c)
         /\ \A r, s \in M!Row, c, d \in M!Col :
              M!matrix_idx(r, c) = M!matrix_idx(s, d) => r = s /\ c = d
         /\ \A k \in 0 .. M!size - 1 :
              \E r \in M!Row, c \in M!Col :
                M!Place(k) = <<r, c>> /\ M!matrix_idx(r, c) = k
         /\ m.type.bit => \A i \in DOMAIN m.data :
              \E r \in M!Row, c \in M!Col : i = M!matrix_idx(r, c)
<1> DEFINE R == m.no_rows
           K == m.no_cols
           X == M!extent(m.type.max_rows, R)
           Y == M!extent(m.type.max_cols, K)
<1>1. /\ R \in Nat /\ K \in Nat /\ X \in Nat /\ Y = K /\ X >= R
      /\ m.type.order \in {"row_major", "col_major"}
      /\ X = R \/ (m.type.order = "col_major" /\ K = 1)
      /\ m.type.bit => m.type.order = "col_major" /\ K = 1 /\ X = R
  BY KindsOfMatrices DEF MatrixShape
<1>2. DOMAIN m.data = 0 .. X * K - 1
  BY <1>1 DEF MatrixShape, M!max_size
<1>3. M!Row = 0 .. R - 1 /\ M!Col = 0 .. K - 1 /\ M!size = R * K
  BY DEF M!Row, M!Col, M!size
<1>4. /\ M!max_no_rows = X /\ M!max_no_cols = K
  BY <1>1 DEF M!max_no_rows, M!max_no_cols
<1> HIDE DEF R, K, X, Y
<1>5. CASE m.type.order = "row_major"
  <2>1. X = R /\ ~m.type.bit
    BY <1>1, <1>5
  <2>2. \A r, c : M!matrix_idx(r, c) = r * K + c /\ M!view_idx(r, c) = r * K + c
    BY <1>4, <1>5 DEF M!matrix_idx, M!view_idx, K
  <2>3. \A k : M!Place(k) = <<k \div K, k % K>>
    BY <1>5 DEF M!Place, K
  <2>4. /\ \A o \in 0 .. R - 1, i \in 0 .. K - 1 :
              /\ o * K + i \in 0 .. R * K - 1
              /\ (o * K + i) \div K = o /\ (o * K + i) % K = i
        /\ \A k \in 0 .. R * K - 1 :
              /\ k \div K \in 0 .. R - 1 /\ k % K \in 0 .. K - 1
              /\ (k \div K) * K + (k % K) = k
    BY <1>1, RowsOfElements
  <2>5. /\ \A r \in M!Row, c \in M!Col :
              /\ M!matrix_idx(r, c) \in DOMAIN m.data
              /\ M!view_idx(r, c) = M!matrix_idx(r, c)
    BY <1>2, <1>3, <2>1, <2>2, <2>4
  <2>6. \A r, s \in M!Row, c, d \in M!Col :
           M!matrix_idx(r, c) = M!matrix_idx(s, d) => r = s /\ c = d
    <3> SUFFICES ASSUME NEW r \in M!Row, NEW s \in M!Row, NEW c \in M!Col, NEW d \in M!Col,
                        r * K + c = s * K + d
                 PROVE  r = s /\ c = d
      BY <2>2
    <3>1. /\ (r * K + c) \div K = r /\ (r * K + c) % K = c
          /\ (s * K + d) \div K = s /\ (s * K + d) % K = d
      BY <1>3, <2>4
    <3> QED BY <3>1
  <2>7. \A k \in 0 .. M!size - 1 :
          \E r \in M!Row, c \in M!Col : M!Place(k) = <<r, c>> /\ M!matrix_idx(r, c) = k
    BY <1>3, <2>2, <2>3, <2>4
  <2> QED BY <2>1, <2>5, <2>6, <2>7
<1>6. CASE m.type.order = "col_major" /\ X = R
  <2>2. \A r, c : M!matrix_idx(r, c) = c * R + r /\ M!view_idx(r, c) = c * R + r
    BY <1>4, <1>6 DEF M!matrix_idx, M!view_idx, R
  <2>3. \A k : M!Place(k) = <<k % R, k \div R>>
    BY <1>6 DEF M!Place, R
  <2>4. /\ \A o \in 0 .. K - 1, i \in 0 .. R - 1 :
              /\ o * R + i \in 0 .. K * R - 1
              /\ (o * R + i) \div R = o /\ (o * R + i) % R = i
        /\ \A k \in 0 .. K * R - 1 :
              /\ k \div R \in 0 .. K - 1 /\ k % R \in 0 .. R - 1
              /\ (k \div R) * R + (k % R) = k
    BY <1>1, RowsOfElements
  <2>8. K * R = R * K
    BY <1>1
  <2>5. /\ \A r \in M!Row, c \in M!Col :
              /\ M!matrix_idx(r, c) \in DOMAIN m.data
              /\ M!view_idx(r, c) = M!matrix_idx(r, c)
    BY <1>2, <1>3, <1>6, <2>2, <2>4, <2>8
  <2>6. \A r, s \in M!Row, c, d \in M!Col :
           M!matrix_idx(r, c) = M!matrix_idx(s, d) => r = s /\ c = d
    <3> SUFFICES ASSUME NEW r \in M!Row, NEW s \in M!Row, NEW c \in M!Col, NEW d \in M!Col,
                        c * R + r = d * R + s
                 PROVE  r = s /\ c = d
      BY <2>2
    <3>1. /\ (c * R + r) \div R = c /\ (c * R + r) % R = r
          /\ (d * R + s) \div R = d /\ (d * R + s) % R = s
      BY <1>3, <2>4
    <3> QED BY <3>1
  <2>7. \A k \in 0 .. M!size - 1 :
          \E r \in M!Row, c \in M!Col : M!Place(k) = <<r, c>> /\ M!matrix_idx(r, c) = k
    BY <1>3, <2>2, <2>3, <2>4, <2>8
  <2>9. \A i \in DOMAIN m.data : \E r \in M!Row, c \in M!Col : i = M!matrix_idx(r, c)
    BY <1>2, <1>3, <1>6, <2>7
  <2> QED BY <2>5, <2>6, <2>7, <2>9
<1>7. CASE m.type.order = "col_major" /\ K = 1 /\ ~m.type.bit
  <2>1. \A r \in M!Row, c \in M!Col : c = 0
    BY <1>3, <1>7
  <2>2. \A r \in M!Row : M!matrix_idx(r, 0) = r /\ M!view_idx(r, 0) = r
    BY <1>1, <1>3, <1>4, <1>7 DEF M!matrix_idx, M!view_idx, R
  <2>3. \A k \in 0 .. R - 1 : M!Place(k) = <<k, 0>>
    <3>1. ASSUME NEW k \in 0 .. R - 1 PROVE k % R = k /\ k \div R = 0
      BY <1>1
    <3> QED BY <3>1, <1>7 DEF M!Place, R
  <2>4. DOMAIN m.data = 0 .. X - 1 /\ M!size = R /\ 0 \in M!Col
    BY <1>1, <1>2, <1>3, <1>7
  <2>5. \A r \in M!Row : r \in 0 .. X - 1
    BY <1>1, <1>3
  <2> QED BY <1>3, <1>7, <2>1, <2>2, <2>3, <2>4, <2>5
<1> QED BY <1>1, <1>5, <1>6, <1>7

(* The invariant is what the table says. *)
LEMMA TableIsFound ==
  MatrixInv => M!TableAgrees
<1> SUFFICES ASSUME MatrixInv PROVE M!TableAgrees
  OBVIOUS
<1>1. MatrixShape
  BY DEF MatrixInv
<1>2. \A r \in M!Row, c \in M!Col :
        /\ {M!matrix_idx(r, c), M!view_idx(r, c)} \subseteq DOMAIN m.data
        /\ m.data[M!matrix_idx(r, c)] = table[<<r, c>>]
        /\ m.data[M!view_idx(r, c)] = table[<<r, c>>]
  <2>1. \A r \in M!Row, c \in M!Col : /\ M!matrix_idx(r, c) \in DOMAIN m.data
                                     /\ M!view_idx(r, c) = M!matrix_idx(r, c)
    BY <1>1, Layout
  <2>2. \A r \in M!Row, c \in M!Col : m.data[M!matrix_idx(r, c)] = table[<<r, c>>]
    BY DEF MatrixInv
  <2> QED BY <2>1, <2>2
<1>3. ASSUME m.type.bit PROVE M!all <=> \A p \in DOMAIN table : table[p] = 1
  <2>1. \A i \in DOMAIN m.data : \E r \in M!Row, c \in M!Col : i = M!matrix_idx(r, c)
    BY <1>1, <1>3, Layout
  <2>2. DOMAIN table = M!Row \X M!Col
    BY <1>1 DEF MatrixShape
  <2>3. \A p \in DOMAIN table : \E r \in M!Row, c \in M!Col : p = <<r, c>>
    BY <2>2
  <2>4. \A r \in M!Row, c \in M!Col : <<r, c>> \in DOMAIN table
    BY <2>2
  <2>5. \A r \in M!Row, c \in M!Col : /\ M!matrix_idx(r, c) \in DOMAIN m.data
                                     /\ m.data[M!matrix_idx(r, c)] = table[<<r, c>>]
    BY <1>2
  <2>6. M!all => \A p \in DOMAIN table : table[p] = 1
    BY <2>3, <2>5 DEF M!all
  <2>7. (\A p \in DOMAIN table : table[p] = 1) => M!all
    <3> SUFFICES ASSUME \A p \in DOMAIN table : table[p] = 1, NEW i \in DOMAIN m.data
                 PROVE  m.data[i] = 1
      BY DEF M!all
    <3>1. PICK r \in M!Row, c \in M!Col : i = M!matrix_idx(r, c)
      BY <2>1
    <3>2. table[<<r, c>>] = 1
      BY <2>4
    <3>3. m.data[M!matrix_idx(r, c)] = table[<<r, c>>]
      BY <2>5
    <3> QED BY <3>1, <3>2, <3>3
  <2> QED BY <2>6, <2>7
<1>4. \A k \in 0 .. M!size - 1 : m.data[M!range_idx(k)] = table[M!Place(k)]
  <2>1. ASSUME NEW k \in 0 .. M!size - 1 PROVE m.data[M!range_idx(k)] = table[M!Place(k)]
    <3>1. PICK r \in M!Row, c \in M!Col : M!Place(k) = <<r, c>> /\ M!matrix_idx(r, c) = k
      BY <1>1, Layout
    <3> QED BY <3>1, <1>2 DEF M!range_idx
  <2> QED BY <2>1
<1> QED BY <1>2, <1>3, <1>4 DEF M!TableAgrees

(* A step that keeps the dimensions and writes some elements. *)
LEMMA ElementsWritten ==
  ASSUME MatrixShape, NEW D, NEW T,
         m' = [m EXCEPT !.data = D], table' = T,
         D = [i \in DOMAIN m.data |-> D[i]], T = [p \in DOMAIN table |-> T[p]],
         \A r \in M!Row, c \in M!Col : D[M!matrix_idx(r, c)] = T[<<r, c>>]
  PROVE  MatrixInv'
<1>1. /\ m'.type = m.type /\ m'.no_rows = m.no_rows /\ m'.no_cols = m.no_cols /\ m'.data = D
      /\ m' = [type |-> m'.type, no_rows |-> m'.no_rows, no_cols |-> m'.no_cols, data |-> m'.data]
  BY DEF MatrixShape
<1>2. M!Row' = M!Row /\ M!Col' = M!Col
  BY <1>1 DEF M!Row, M!Col
<1>3. \A r, c : M!matrix_idx(r, c)' = M!matrix_idx(r, c)
  BY <1>1 DEF M!matrix_idx, M!max_no_cols, M!max_no_rows
<1>4. MatrixShape'
  <2>1. DOMAIN table = M!Row \X M!Col
    BY DEF MatrixShape
  <2>2. DOMAIN m.data = 0 .. M!max_size(m.type, m.no_rows, m.no_cols) - 1
    BY DEF MatrixShape
  <2>3. M!max_size(m.type, m.no_rows, m.no_cols)' = M!max_size(m.type, m.no_rows, m.no_cols)
    BY <1>1 DEF M!max_size
  <2>4. table' = [p \in M!Row' \X M!Col' |-> table'[p]]
    BY <2>1, <1>2
  <2>5. m'.data = [i \in 0 .. M!max_size(m.type, m.no_rows, m.no_cols)' - 1 |-> m'.data[i]]
    BY <1>1, <2>2, <2>3
  <2>6. M!Constructible(m.type, m.no_rows, m.no_cols)'
    BY <1>1 DEF MatrixShape, M!Constructible
  <2>7. m'.type \in Types /\ m'.no_rows \in Nat /\ m'.no_cols \in Nat
    BY <1>1 DEF MatrixShape
  <2> QED BY <1>1, <2>4, <2>5, <2>6, <2>7 DEF MatrixShape
<1> QED BY <1>1, <1>2, <1>3, <1>4 DEF MatrixInv

(* One element written. *)
LEMMA ElementWritten ==
  ASSUME MatrixInv, NEW r \in M!Row, NEW c \in M!Col, NEW i, i = M!matrix_idx(r, c), NEW x,
         m' = [m EXCEPT !.data[i] = x], table' = [table EXCEPT ![<<r, c>>] = x]
  PROVE  MatrixInv'
<1> DEFINE D == [m.data EXCEPT ![i] = x]
           T == [table EXCEPT ![<<r, c>>] = x]
<1>1. MatrixShape
  BY DEF MatrixInv
<1>2. i \in DOMAIN m.data
  BY <1>1, Layout
<1>3. \A s \in M!Row, d \in M!Col : <<s, d>> \in DOMAIN table
  BY <1>1 DEF MatrixShape
<1>4. \A s \in M!Row, d \in M!Col : M!matrix_idx(s, d) \in DOMAIN m.data
                                     /\ (M!matrix_idx(s, d) = i => s = r /\ d = c)
  BY <1>1, Layout
<1>5. ASSUME NEW s \in M!Row, NEW d \in M!Col PROVE D[M!matrix_idx(s, d)] = T[<<s, d>>]
  BY <1>2, <1>3, <1>4 DEF MatrixInv
<1>6. m' = [m EXCEPT !.data = D] /\ table' = T
  BY <1>1 DEF MatrixShape
<1>7. D = [j \in DOMAIN m.data |-> D[j]] /\ T = [p \in DOMAIN table |-> T[p]]
  OBVIOUS
<1> HIDE DEF D, T
<1> QED BY <1>1, <1>5, <1>6, <1>7, ElementsWritten

(* Every write to a matrix, in whatever way, keeps the table and the data in  *)
(* agreement,                                                                 *)
LEMMA MatrixStep ==
  MatrixInv /\ M!Next => MatrixInv'
<1> SUFFICES ASSUME MatrixInv, M!Next PROVE MatrixInv'
  OBVIOUS
<1>1. MatrixShape
  BY DEF MatrixInv
<1>2. ASSUME NEW r \in M!Row, NEW c \in M!Col, NEW x \in ElementsOfMatrices,
             M!Write(r, c, x) \/ M!WriteView(r, c, x)
      PROVE  MatrixInv'
  <2>1. /\ m' = [m EXCEPT !.data[M!matrix_idx(r, c)] = x]
        /\ table' = [table EXCEPT ![<<r, c>>] = x]
    <3>1. M!view_idx(r, c) = M!matrix_idx(r, c)
      BY <1>1, Layout
    <3> QED BY <1>2, <3>1 DEF M!Write, M!WriteView
  <2> QED BY <2>1, ElementWritten
<1>3. ASSUME NEW k \in 0 .. M!size - 1, NEW x \in ElementsOfMatrices, M!WriteRange(k, x)
      PROVE  MatrixInv'
  <2>1. PICK r \in M!Row, c \in M!Col : M!Place(k) = <<r, c>> /\ M!matrix_idx(r, c) = k
    BY <1>1, Layout
  <2>2. m' = [m EXCEPT !.data[k] = x] /\ table' = [table EXCEPT ![<<r, c>>] = x]
    BY <1>3, <2>1 DEF M!WriteRange, M!range_idx
  <2> QED BY <2>1, <2>2, ElementWritten
<1>4. ASSUME NEW change, M!Assign(change)
      PROVE  MatrixInv'
  <2> DEFINE In(i, p) == p \in M!Row \X M!Col /\ M!matrix_idx(p[1], p[2]) = i
             at(i) == CHOOSE p \in M!Row \X M!Col : M!matrix_idx(p[1], p[2]) = i
             D == [i \in DOMAIN m.data |->
                     IF \E r \in M!Row, c \in M!Col : M!matrix_idx(r, c) = i
                     THEN change[m.data[M!view_idx(at(i)[1], at(i)[2])]]
                     ELSE m.data[i]]
             T == [p \in DOMAIN table |-> change[table[p]]]
  <2>1. m' = [m EXCEPT !.data = D] /\ table' = T
    BY <1>1, <1>4 DEF M!Assign, MatrixShape
  <2>2. ASSUME NEW r \in M!Row, NEW c \in M!Col PROVE D[M!matrix_idx(r, c)] = T[<<r, c>>]
    <3>1. M!matrix_idx(r, c) \in DOMAIN m.data /\ M!view_idx(r, c) = M!matrix_idx(r, c)
      BY <1>1, Layout
    <3>2. at(M!matrix_idx(r, c)) = <<r, c>>
      <4> DEFINE p == at(M!matrix_idx(r, c))
      <4>1. \E q \in M!Row \X M!Col : M!matrix_idx(q[1], q[2]) = M!matrix_idx(r, c)
        <5>1. <<r, c>> \in M!Row \X M!Col /\ <<r, c>>[1] = r /\ <<r, c>>[2] = c
          OBVIOUS
        <5> QED BY <5>1, Zenon
      <4>2. p \in M!Row \X M!Col /\ M!matrix_idx(p[1], p[2]) = M!matrix_idx(r, c)
        BY <4>1, Zenon
      <4> HIDE DEF p
      <4>3. p[1] \in M!Row /\ p[2] \in M!Col /\ p = <<p[1], p[2]>>
        BY <4>2
      <4>4. p[1] = r /\ p[2] = c
        BY <4>2, <4>3, <1>1, Layout
      <4>5. p = <<r, c>>
        BY <4>3, <4>4
      <4> QED BY <4>5 DEF p
    <3>3. <<r, c>> \in DOMAIN table
      BY <1>1 DEF MatrixShape
    <3> DEFINE q == at(M!matrix_idx(r, c))
    <3>4. D[M!matrix_idx(r, c)] = change[m.data[M!view_idx(q[1], q[2])]]
      <4> HIDE DEF at
      <4> QED BY <3>1
    <3> HIDE DEF D, at
    <3>5. q[1] = r /\ q[2] = c
      BY <3>2
    <3>6. D[M!matrix_idx(r, c)] = change[m.data[M!view_idx(r, c)]]
      BY <3>4, <3>5
    <3> QED BY <3>1, <3>3, <3>6 DEF MatrixInv
  <2>3. D = [i \in DOMAIN m.data |-> D[i]] /\ T = [p \in DOMAIN table |-> T[p]]
    <3> HIDE DEF at
    <3> QED OBVIOUS
  <2> HIDE DEF D, T
  <2> QED BY <1>1, <2>1, <2>2, <2>3, ElementsWritten
<1>5. ASSUME NEW x \in 0 .. 1, M!SetAll(x)
      PROVE  MatrixInv'
  <2> DEFINE D == [i \in DOMAIN m.data |-> x]
             T == [p \in DOMAIN table |-> x]
  <2>1. m' = [m EXCEPT !.data = D] /\ table' = T
    BY <1>1, <1>5 DEF M!SetAll, MatrixShape
  <2>2. ASSUME NEW r \in M!Row, NEW c \in M!Col PROVE D[M!matrix_idx(r, c)] = T[<<r, c>>]
    <3>1. M!matrix_idx(r, c) \in DOMAIN m.data
      BY <1>1, Layout
    <3>2. <<r, c>> \in DOMAIN table
      BY <1>1 DEF MatrixShape
    <3> QED BY <3>1, <3>2
  <2>3. D = [i \in DOMAIN m.data |-> D[i]] /\ T = [p \in DOMAIN table |-> T[p]]
    OBVIOUS
  <2> HIDE DEF D, T
  <2> QED BY <1>1, <2>1, <2>2, <2>3, ElementsWritten
<1> QED BY <1>2, <1>3, <1>4, <1>5 DEF M!Next

(* and a new matrix begins with them so. *)
LEMMA MatrixInit ==
  M!Init => MatrixInv
<1> SUFFICES ASSUME M!Init PROVE MatrixInv
  OBVIOUS
<1>1. PICK t \in Types, r \in MatrixExtents, c \in MatrixExtents, x \in ElementsOfMatrices :
        M!Constructed(t, r, c, x)
  BY DEF M!Init
<1>2. r \in Nat /\ c \in Nat
  BY PartsAssumption
<1>3. /\ m = [type |-> t, no_rows |-> r, no_cols |-> c,
               data |-> [i \in 0 .. M!max_size(t, r, c) - 1 |-> x]]
      /\ table = [p \in (0 .. r - 1) \X (0 .. c - 1) |-> x]
      /\ M!Constructible(t, r, c)
  BY <1>1 DEF M!Constructed
<1>4. M!Row = 0 .. r - 1 /\ M!Col = 0 .. c - 1
  BY <1>3 DEF M!Row, M!Col
<1>5. MatrixShape
  BY <1>2, <1>3, <1>4 DEF MatrixShape
<1>6. ASSUME NEW s \in M!Row, NEW d \in M!Col
      PROVE  m.data[M!matrix_idx(s, d)] = table[<<s, d>>]
  <2>1. M!matrix_idx(s, d) \in DOMAIN m.data
    BY <1>5, Layout
  <2>2. <<s, d>> \in DOMAIN table
    BY <1>5 DEF MatrixShape
  <2> QED BY <1>3, <2>1, <2>2
<1> QED BY <1>5, <1>6 DEF MatrixInv

MatricesInv == subject = "matrices" => MatrixInv

(* The matrices hold what was written to them, under the row and column it    *)
(* was written to, within their extents, and their views see the same.        *)
THEOREM MatricesConsistent == PartsSpec => []MatricesAgree
<1>1. PartsInit => MatricesInv
  BY MatrixInit DEF PartsInit, MatricesInv
<1>2. MatricesInv /\ [PartsNext]_<<subject, locations, neighbors, matrices, trees>> => MatricesInv'
  <2> SUFFICES ASSUME MatricesInv, [PartsNext]_<<subject, locations, neighbors, matrices, trees>>,
                      subject' = "matrices"
               PROVE  MatrixInv'
    BY DEF MatricesInv
  <2>1. subject = "matrices" /\ MatrixInv
    BY DEF PartsNext, MatricesInv
  <2>2. M!Next \/ UNCHANGED matrices
    BY <2>1 DEF PartsNext
  <2>3. CASE M!Next
    BY <2>1, <2>3, MatrixStep
  <2>4. CASE UNCHANGED matrices
    BY <2>1, <2>4
       DEF matrices, MatrixInv, MatrixShape, M!Row, M!Col, M!matrix_idx, M!max_no_rows,
           M!max_no_cols
  <2> QED BY <2>2, <2>3, <2>4
<1>3. MatricesInv => MatricesAgree
  BY TableIsFound DEF MatricesInv, MatricesAgree
<1> QED BY <1>1, <1>2, <1>3, PTL DEF PartsSpec

-----------------------------------------------------------------------------
(* Generation. *)

(* The tree that is generated: positions whose parents have been refined. *)
GeneratedTree ==
  /\ refined \subseteq Seq(child_pos) /\ IsFiniteSet(refined)
  /\ Cardinality(refined) <= MaxGenerated
  /\ \A n \in refined : n # <<>> => \E r \in refined, p \in child_pos : n = Append(r, p)
  /\ refined # {} => <<>> \in refined
  /\ G!Tree!Leaves # {}

(* The leaves of such a tree: children of refined positions, or the root. *)
LEMMA GeneratedLeaves ==
  ASSUME GeneratedTree
  PROVE  /\ G!Tree!Leaves = (IF refined = {} THEN {<<>>} ELSE {})
              \cup {n \in {Append(r, p) : r \in refined, p \in child_pos} : n \notin refined}
         /\ \A n \in G!Tree!Leaves : n \in Seq(child_pos) /\ n \notin refined /\ Len(n) \in Nat
         /\ refined # {} => \A n \in G!Tree!Leaves : Len(n) >= 1
<1>1. G!Tree!Leaves = (IF refined = {} THEN {<<>>} ELSE {})
        \cup {n \in {Append(r, p) : r \in refined, p \in child_pos} : n \notin refined}
  BY DEF G!Tree!Leaves, G!child_pos, child_pos, G!no_children, no_children
<1>2. ASSUME NEW n \in G!Tree!Leaves
      PROVE  /\ n \in Seq(child_pos) /\ n \notin refined /\ Len(n) \in Nat
             /\ refined # {} => Len(n) >= 1
  <2>1. CASE refined = {}
    <3>1. n = <<>>
      BY <1>1, <1>2, <2>1
    <3>2. n \in Seq(child_pos) /\ Len(n) = 0
      BY <3>1
    <3> QED BY <3>2, <2>1
  <2>2. CASE refined # {}
    <3>1. PICK r \in refined, p \in child_pos : n = Append(r, p) /\ n \notin refined
      BY <1>1, <1>2, <2>2
    <3>2. r \in Seq(child_pos)
      BY DEF GeneratedTree
    <3>3. n \in Seq(child_pos) /\ Len(n) = Len(r) + 1 /\ Len(r) \in Nat
      BY <3>1, <3>2
    <3> QED BY <3>1, <3>3
  <2> QED BY <2>1, <2>2
<1> QED BY <1>1, <1>2

(* A leaf gives way to its children. *)
LEMMA GeneratedGrows ==
  ASSUME GeneratedTree, NEW n, G!Tree!Refine(n)
  PROVE  /\ GeneratedTree'
         /\ n \in G!Tree!Leaves /\ Cardinality(refined) < MaxGenerated
         /\ G!Tree!Leaves' = (G!Tree!Leaves \ {n}) \cup {Append(n, p) : p \in child_pos}
<1>1. n \in G!Tree!Leaves /\ Cardinality(refined) < MaxGenerated /\ refined' = refined \cup {n}
  <2>1. G!Tree!Cardinality(refined) = Cardinality(refined)
    BY DEF G!Tree!Cardinality, Cardinality
  <2> QED BY <2>1 DEF G!Tree!Refine
<1>2. /\ refined \subseteq Seq(child_pos) /\ IsFiniteSet(refined)
      /\ \A k \in refined : k # <<>> => \E r \in refined, p \in child_pos : k = Append(r, p)
      /\ refined # {} => <<>> \in refined
  BY DEF GeneratedTree
<1>3. n \in Seq(child_pos) /\ n \notin refined
  BY <1>1, GeneratedLeaves
<1>4. \A r, s \in Seq(child_pos), p, q \in child_pos : Append(r, p) = Append(s, q) => r = s /\ p = q
  BY ChildPath DEF Path
<1>5. \A p \in child_pos : /\ Append(n, p) \notin refined /\ Append(n, p) # n
                           /\ Append(n, p) # <<>> /\ Append(n, p) \in Seq(child_pos)
  <2>1. ASSUME NEW p \in child_pos
        PROVE  /\ Append(n, p) \notin refined /\ Append(n, p) # n /\ Append(n, p) # <<>>
               /\ Append(n, p) \in Seq(child_pos)
    <3>1. Len(Append(n, p)) = Len(n) + 1 /\ Len(n) \in Nat /\ Append(n, p) \in Seq(child_pos)
      BY <1>3
    <3>2. Append(n, p) # n /\ Append(n, p) # <<>>
      BY <3>1
    <3>3. Append(n, p) \notin refined
      <4> SUFFICES ASSUME Append(n, p) \in refined PROVE FALSE
        OBVIOUS
      <4>1. PICK r \in refined, q \in child_pos : Append(n, p) = Append(r, q)
        BY <1>2, <3>2
      <4>2. r = n
        <5>1. r \in Seq(child_pos) /\ q \in child_pos
          BY <4>1, <1>2
        <5> QED BY <5>1, <4>1, <1>3, <1>4, Zenon
      <4> QED BY <4>2, <1>3
    <3> QED BY <3>1, <3>2, <3>3
  <2> QED BY <2>1
<1>6. \E p : p \in child_pos
  BY Positions, NdAssumption
<1>7. refined' # {} /\ \A p \in child_pos : Append(n, p) \notin refined'
  BY <1>1, <1>5
<1>8. G!Tree!Leaves' = {k \in {Append(r, p) : r \in refined', p \in child_pos} : k \notin refined'}
  <2>1. G!Tree!Leaves' = (IF refined' = {} THEN {<<>>} ELSE {})
          \cup {k \in {Append(r, p) : r \in refined', p \in child_pos} : k \notin refined'}
    BY DEF G!Tree!Leaves, G!child_pos, child_pos, G!no_children, no_children
  <2> QED BY <2>1, <1>7
<1>9. G!Tree!Leaves' = (G!Tree!Leaves \ {n}) \cup {Append(n, p) : p \in child_pos}
  <2>1. \A k \in G!Tree!Leaves' : k \in (G!Tree!Leaves \ {n}) \cup {Append(n, p) : p \in child_pos}
    <3> SUFFICES ASSUME NEW k \in G!Tree!Leaves'
                 PROVE  k \in (G!Tree!Leaves \ {n}) \cup {Append(n, p) : p \in child_pos}
      OBVIOUS
    <3>1. PICK r \in refined', p \in child_pos : k = Append(r, p) /\ k \notin refined'
      BY <1>8
    <3>2. CASE r = n
      BY <3>1, <3>2
    <3>3. CASE r # n
      <4>1. r \in refined /\ k \notin refined /\ k # n
        BY <1>1, <3>1, <3>3
      <4>2. k \in G!Tree!Leaves
        <5>1. k \in {Append(s, q) : s \in refined, q \in child_pos}
          BY <3>1, <4>1
        <5>2. {Append(s, q) : s \in refined, q \in child_pos} \ refined \subseteq G!Tree!Leaves
          BY GeneratedLeaves
        <5> QED BY <5>1, <5>2, <4>1
      <4> QED BY <4>1, <4>2
    <3> QED BY <3>2, <3>3
  <2>2. \A k \in (G!Tree!Leaves \ {n}) : k \in G!Tree!Leaves'
    <3> SUFFICES ASSUME NEW k \in G!Tree!Leaves, k # n PROVE k \in G!Tree!Leaves'
      OBVIOUS
    <3>1. refined # {}
      <4>1. refined = {} => G!Tree!Leaves = {<<>>}
        BY GeneratedLeaves
      <4> QED BY <4>1, <1>1
    <3>2. PICK r \in refined, p \in child_pos : k = Append(r, p) /\ k \notin refined
      BY <3>1, GeneratedLeaves
    <3> QED BY <1>1, <1>8, <3>2
  <2>3. \A p \in child_pos : Append(n, p) \in G!Tree!Leaves'
    BY <1>1, <1>7, <1>8
  <2> QED BY <2>1, <2>2, <2>3
<1>10. GeneratedTree'
  <2>1. IsFiniteSet(refined') /\ Cardinality(refined') = Cardinality(refined) + 1
    BY <1>1, <1>2, <1>3, FS_AddElement
  <2>2. Cardinality(refined') <= MaxGenerated
    <3>1. Cardinality(refined) \in Nat
      BY <1>2, FS_CardinalityType
    <3> QED BY <2>1, <3>1, <1>1, PartsAssumption
  <2>3. <<>> \in refined'
    <3>1. refined = {} => n = <<>>
      BY <1>1, GeneratedLeaves
    <3> QED BY <3>1, <1>1, <1>2
  <2>4. n # <<>> => \E r \in refined, p \in child_pos : n = Append(r, p)
    <3>1. CASE refined = {}
      BY <1>1, <3>1, GeneratedLeaves
    <3>2. CASE refined # {}
      BY <1>1, <3>2, GeneratedLeaves
    <3> QED BY <3>1, <3>2
  <2>5. \A k \in refined' : k # <<>> => \E r \in refined', p \in child_pos : k = Append(r, p)
    BY <2>4, <1>1, <1>2
  <2>6. G!Tree!Leaves' # {}
    BY <1>6, <1>9
  <2>7. refined' \subseteq Seq(child_pos)
    BY <1>1, <1>2, <1>3
  <2> QED BY <2>1, <2>2, <2>3, <2>5, <2>6, <2>7 DEF GeneratedTree
<1> QED BY <1>1, <1>9, <1>10
(* The leaves stand at the level of the round, or one below it once it has  *)
(* refined them, *)
LevelByLevel ==
  /\ \A n \in G!Tree!Leaves : Len(n) \in {loop.level - 1, loop.level}
  /\ loop.level <= loop.target_level =>
       /\ loop.nodes = {n \in G!Tree!Leaves : Len(n) = loop.level - 1}
       /\ loop.done => \A n \in G!Tree!Leaves : Len(n) = loop.level - 1
  /\ loop.level = loop.target_level + 1 =>
       \A n \in G!Tree!Leaves : Len(n) = loop.target_level

(* ... or the tree is full, and the program has ended unless the tree, or a    *)
(* single grid, just goes on.                                                 *)
FullTree ==
  /\ loop.failed \/ loop.grid = "single"
  /\ Cardinality(refined) = MaxGenerated
  /\ \A n \in G!Tree!Leaves : Len(n) \in 0 .. loop.target_level
  /\ \A n, k \in G!Tree!Leaves : Len(n) <= Len(k) + 1

GenerationLoop ==
  /\ loop = [ended |-> loop.ended, failed |-> loop.failed, grid |-> loop.grid,
             target_level |-> loop.target_level, level |-> loop.level,
             nodes |-> loop.nodes, done |-> loop.done, from |-> loop.from]
  /\ loop.ended \in BOOLEAN /\ loop.failed \in BOOLEAN /\ loop.done \in BOOLEAN
  /\ loop.grid \in {"single", "multi"}
  /\ loop.target_level \in Nat /\ loop.level \in 1 .. loop.target_level + 1
  /\ ~loop.done => loop.level <= loop.target_level
  /\ loop.ended => loop.nodes = {} /\ loop.done

GenerationInv ==
  /\ GeneratedTree
  /\ GenerationLoop
  /\ loop.from # {} => loop.nodes = {} /\ loop.done /\ ~loop.failed /\ refined = loop.from
  /\ loop.from = {} => LevelByLevel \/ FullTree
  /\ loop.failed =>
       /\ loop.grid = "multi" /\ ~loop.ended /\ FullTree
       /\ \E n \in G!Tree!Leaves : Len(n) < loop.target_level

(* Such a loop ends with the leaves at the target level. *)
LEMMA LoopEnds ==
  GenerationInv => G!GeneratesLevels
<1> SUFFICES ASSUME GenerationInv PROVE G!GeneratesLevels
  OBVIOUS
<1>1. /\ GeneratedTree /\ GenerationLoop
      /\ loop.from # {} => refined = loop.from
      /\ loop.from = {} => LevelByLevel \/ FullTree
      /\ loop.failed =>
           /\ loop.grid = "multi" /\ ~loop.ended /\ FullTree
           /\ \E n \in G!Tree!Leaves : Len(n) < loop.target_level
  BY DEF GenerationInv
<1>2. /\ loop.target_level \in Nat /\ loop.level \in 1 .. loop.target_level + 1
      /\ loop.ended => loop.nodes = {} /\ loop.done
  BY <1>1 DEF GenerationLoop
<1>3. /\ \A n \in G!Tree!Leaves : Len(n) \in G!Levels
      /\ \A l \in G!Levels : \E n \in G!Tree!Leaves : l = Len(n)
  BY DEF G!Levels, G!node_level
<1>4. ASSUME loop.ended, loop.from = {}, LevelByLevel PROVE G!Levels = {loop.target_level}
  <2>1. PICK leaf \in G!Tree!Leaves : TRUE
    BY <1>1 DEF GeneratedTree
  <2>2. loop.level = loop.target_level + 1
    <3>1. CASE loop.level <= loop.target_level
      <4>1. leaf \in loop.nodes
        BY <1>2, <1>4, <2>1, <3>1 DEF LevelByLevel
      <4> QED BY <4>1, <1>2, <1>4
    <3> QED BY <3>1, <1>2
  <2>3. \A n \in G!Tree!Leaves : Len(n) = loop.target_level
    BY <2>2, <1>4 DEF LevelByLevel
  <2> QED BY <1>3, <2>1, <2>3
<1>5. ASSUME FullTree PROVE G!Filled
  <2>1. G!Cardinality(refined) = Cardinality(refined)
    BY DEF G!Cardinality, Cardinality
  <2>2. G!Cardinality(refined) = MaxGenerated
    BY <1>5, <2>1 DEF FullTree
  <2>3. G!Levels \subseteq 0 .. loop.target_level /\ \A k, l \in G!Levels : k <= l + 1
    BY <1>3, <1>5 DEF FullTree
  <2> QED BY <2>2, <2>3 DEF G!Filled
<1>6. ASSUME loop.ended, loop.from = {}
      PROVE  G!Levels = {loop.target_level} \/ (loop.grid = "single" /\ G!Filled)
  <2>1. CASE LevelByLevel
    BY <1>4, <1>6, <2>1
  <2>2. CASE FullTree
    BY <1>1, <1>5, <1>6, <2>2 DEF FullTree
  <2> QED BY <1>1, <1>6, <2>1, <2>2
<1>7. ASSUME loop.failed
      PROVE  loop.grid = "multi" /\ G!Filled /\ \E l \in G!Levels : l < loop.target_level
  <2>1. PICK n \in G!Tree!Leaves : Len(n) < loop.target_level
    BY <1>1, <1>7
  <2> QED BY <1>1, <1>3, <1>5, <1>7, <2>1
<1>8. loop.level <= loop.target_level + 1
  BY <1>2
<1> QED BY <1>1, <1>6, <1>7, <1>8 DEF G!GeneratesLevels

(* The end of a round over the leaves. *)
LEMMA NextRound ==
  ASSUME NEW call,
         call = [ended |-> call.ended, failed |-> call.failed, grid |-> call.grid,
                 target_level |-> call.target_level, level |-> call.level,
                 nodes |-> call.nodes, done |-> call.done, from |-> call.from]
  PROVE  G!Round(call) = [ended |-> call.ended, failed |-> call.failed, grid |-> call.grid,
                          target_level |-> call.target_level, level |-> call.level + 1,
                          nodes |-> {n \in G!Tree!Leaves : Len(n) = call.level},
                          done |-> TRUE, from |-> call.from]
<1>1. G!NodesAt(call.level) = {n \in G!Tree!Leaves : Len(n) = call.level}
  BY DEF G!NodesAt, G!node_level
<1>2. G!Round(call) = [call EXCEPT !.level = @ + 1, !.nodes = G!NodesAt(call.level), !.done = TRUE]
  BY DEF G!Round
<1> QED BY <1>1, <1>2

(* A step of the generation keeps this. *)
LEMMA GenerationStep ==
  GenerationInv /\ G!Next => GenerationInv'
<1> SUFFICES ASSUME GenerationInv, G!Next PROVE GenerationInv'
  OBVIOUS
<1>0. /\ GeneratedTree /\ GenerationLoop
      /\ loop.from # {} => loop.nodes = {} /\ loop.done /\ ~loop.failed /\ refined = loop.from
      /\ loop.from = {} => LevelByLevel \/ FullTree
      /\ loop.failed =>
           /\ loop.grid = "multi" /\ ~loop.ended /\ FullTree
           /\ \E n \in G!Tree!Leaves : Len(n) < loop.target_level
  BY DEF GenerationInv
<1> DEFINE L == loop.level
           T == loop.target_level
<1>1. /\ loop = [ended |-> loop.ended, failed |-> loop.failed, grid |-> loop.grid,
                 target_level |-> T, level |-> L,
                 nodes |-> loop.nodes, done |-> loop.done, from |-> loop.from]
      /\ loop.ended \in BOOLEAN /\ loop.failed \in BOOLEAN /\ loop.done \in BOOLEAN
      /\ loop.grid \in {"single", "multi"}
      /\ T \in Nat /\ L \in 1 .. T + 1
      /\ ~loop.done => L <= T
      /\ loop.ended => loop.nodes = {} /\ loop.done
  BY <1>0 DEF GenerationLoop
<1>2. \A l : G!NodesAt(l) = {n \in G!Tree!Leaves : Len(n) = l}
  BY DEF G!NodesAt, G!node_level
<1>3. G!predicate <=> L # T + 1
  BY DEF G!predicate
<1>4. \A n \in G!Tree!Leaves : Len(n) \in Nat
  BY <1>0, GeneratedLeaves
<1>5. refined' = refined => GeneratedTree' /\ G!Tree!Leaves' = G!Tree!Leaves
  BY <1>0 DEF GeneratedTree, G!Tree!Leaves
<1>6. ASSUME NEW kind \in {"single", "multi"}, NEW t \in 0 .. MaxLevel, G!uniform(kind, t)
      PROVE  GenerationInv'
  <2>1. /\ loop' = [ended |-> FALSE, failed |-> FALSE, grid |-> kind, target_level |-> t, level |-> 1,
                    nodes |-> {n \in G!Tree!Leaves : Len(n) = 0}, done |-> TRUE, from |-> refined]
        /\ refined' = refined
    <3> DEFINE call == [ended |-> FALSE, failed |-> FALSE, grid |-> kind, target_level |-> t,
                        level |-> 0, nodes |-> {}, done |-> TRUE, from |-> refined]
    <3>1. loop' = G!Round(call) /\ refined' = refined
      BY <1>6 DEF G!uniform
    <3>2. /\ call = [ended |-> call.ended, failed |-> call.failed, grid |-> call.grid,
                     target_level |-> call.target_level, level |-> call.level,
                     nodes |-> call.nodes, done |-> call.done, from |-> call.from]
          /\ call.ended = FALSE /\ call.failed = FALSE /\ call.grid = kind /\ call.target_level = t /\ call.level = 0
          /\ call.from = refined
      OBVIOUS
    <3> HIDE DEF call
    <3>3. G!Round(call) = [ended |-> call.ended, failed |-> call.failed, grid |-> call.grid,
                           target_level |-> call.target_level, level |-> call.level + 1,
                           nodes |-> {n \in G!Tree!Leaves : Len(n) = call.level},
                           done |-> TRUE, from |-> call.from]
      BY <3>2, NextRound
    <3>4. call.level + 1 = 1
      BY <3>2
    <3> QED BY <3>1, <3>2, <3>3, <3>4
  <2>2. t \in Nat
    BY PartsAssumption
  <2>3. GenerationLoop'
    BY <2>1, <2>2 DEF GenerationLoop
  <2>4. CASE refined # {}
    <3>1. loop'.nodes = {}
      BY <2>1, <2>4, <1>0, <1>4, GeneratedLeaves
    <3> QED BY <1>5, <2>1, <2>3, <2>4, <3>1 DEF GenerationInv
  <2>5. CASE refined = {}
    <3>1. G!Tree!Leaves = {<<>>}
      BY <1>0, <2>5, GeneratedLeaves
    <3>2. LevelByLevel'
      BY <1>5, <2>1, <2>2, <3>1 DEF LevelByLevel
    <3> QED BY <1>5, <2>1, <2>3, <2>5, <3>2 DEF GenerationInv
  <2> QED BY <2>4, <2>5
<1>7. ASSUME G!Visit PROVE GenerationInv'
  <2>1. PICK n \in loop.nodes :
          /\ ~loop.ended /\ ~loop.failed
          /\ loop' = [loop EXCEPT !.nodes = @ \ {n}, !.done = @ /\ ~G!predicate,
                                  !.failed = G!predicate /\ G!full /\ loop.grid = "multi"]
          /\ \/ G!predicate /\ G!Tree!Refine(n)
             \/ G!predicate /\ G!full /\ UNCHANGED refined
             \/ ~G!predicate /\ UNCHANGED refined
    BY <1>7 DEF G!Visit
  <2>2. loop.from = {} /\ (LevelByLevel \/ FullTree)
    BY <1>0, <2>1
  <2>3. /\ loop'.ended = FALSE /\ loop'.target_level = T /\ loop'.level = L
        /\ loop'.nodes = loop.nodes \ {n} /\ loop'.done = (loop.done /\ ~G!predicate)
        /\ loop'.from = {} /\ loop'.grid = loop.grid
        /\ loop'.failed = (G!predicate /\ G!full /\ loop.grid = "multi")
        /\ loop' = [ended |-> loop'.ended, failed |-> loop'.failed, grid |-> loop'.grid,
                    target_level |-> loop'.target_level, level |-> loop'.level,
                    nodes |-> loop'.nodes, done |-> loop'.done, from |-> loop'.from]
    BY <1>1, <2>1, <2>2
  <2>9. (FullTree => loop.grid = "single") /\ ~loop.ended
    BY <2>1 DEF FullTree
  <2>10. G!full <=> Cardinality(refined) >= MaxGenerated
    BY DEF G!full, G!Cardinality, Cardinality
  <2>4. GenerationLoop'
    <3>1. loop'.done \in BOOLEAN /\ (~loop'.done => L <= T)
      <4>1. ~loop'.done => ~loop.done \/ G!predicate
        BY <2>3
      <4>2. L # T + 1 => L <= T
        BY <1>1
      <4> QED BY <4>1, <4>2, <1>1, <1>3, <2>3
    <3>2. loop'.failed \in BOOLEAN
      BY <2>3, Zenon
    <3> QED BY <1>1, <2>3, <3>1, <3>2 DEF GenerationLoop
  <2>5. CASE G!predicate /\ G!Tree!Refine(n)
    <3>1. /\ GeneratedTree' /\ n \in G!Tree!Leaves /\ Cardinality(refined) < MaxGenerated
          /\ G!Tree!Leaves' = (G!Tree!Leaves \ {n}) \cup {Append(n, p) : p \in child_pos}
      BY <1>0, <2>5, GeneratedGrows
    <3>2. L <= T
      BY <1>1, <1>3, <2>5
    <3>3. LevelByLevel
      <4>1. IsFiniteSet(refined)
        BY <1>0 DEF GeneratedTree
      <4>2. Cardinality(refined) \in Nat
        BY <4>1, FS_CardinalityType
      <4> QED BY <2>2, <3>1, <4>2, PartsAssumption DEF FullTree
    <3>4. /\ \A k \in G!Tree!Leaves : Len(k) \in {L - 1, L}
          /\ loop.nodes = {k \in G!Tree!Leaves : Len(k) = L - 1}
      BY <3>2, <3>3 DEF LevelByLevel
    <3>5. Len(n) = L - 1 /\ \A p \in child_pos : Len(Append(n, p)) = L
      <4>1. n \in Seq(child_pos)
        BY <1>0, <3>1, GeneratedLeaves
      <4>2. Len(n) = L - 1
        BY <2>1, <3>4
      <4> QED BY <4>1, <4>2, <1>1
    <3>6. LevelByLevel'
      <4>1. \A k \in G!Tree!Leaves' : Len(k) \in {L - 1, L}
        BY <3>1, <3>4, <3>5
      <4>2. loop.nodes \ {n} = {k \in G!Tree!Leaves' : Len(k) = L - 1}
        BY <1>1, <3>1, <3>4, <3>5
      <4>3. loop'.done = FALSE
        BY <2>3, <2>5
      <4> QED BY <1>1, <2>3, <3>2, <4>1, <4>2, <4>3 DEF LevelByLevel
    <3>7. ~loop'.failed
      <4>1. Cardinality(refined) \in Nat
        BY <1>0, FS_CardinalityType DEF GeneratedTree
      <4>2. ~(Cardinality(refined) >= MaxGenerated)
        BY <3>1, <4>1, PartsAssumption
      <4> QED BY <2>3, <2>10, <4>2, Zenon
    <3> QED BY <2>3, <2>4, <3>1, <3>6, <3>7 DEF GenerationInv
  <2>6. CASE refined' = refined /\ FullTree
    <3>1. FullTree' /\ ~loop'.failed
      BY <1>5, <2>3, <2>6, <2>9 DEF FullTree
    <3> QED BY <1>5, <2>3, <2>4, <2>6, <3>1 DEF GenerationInv
  <2>7. CASE G!predicate /\ G!full /\ refined' = refined /\ LevelByLevel
    <3>1. Cardinality(refined) = MaxGenerated
      <4>1. IsFiniteSet(refined) /\ Cardinality(refined) <= MaxGenerated
        BY <1>0 DEF GeneratedTree
      <4>2. Cardinality(refined) \in Nat
        BY <4>1, FS_CardinalityType
      <4> QED BY <4>1, <4>2, <2>7, <2>10, PartsAssumption
    <3>2. L <= T
      BY <1>1, <1>3, <2>7
    <3>3. \A k \in G!Tree!Leaves : Len(k) \in {L - 1, L}
      BY <2>7 DEF LevelByLevel
    <3>4. FullTree'
      <4>1. loop'.failed \/ loop'.grid = "single"
        BY <1>1, <2>3, <2>7
      <4>2. /\ \A k \in G!Tree!Leaves : Len(k) \in 0 .. T
            /\ \A k, h \in G!Tree!Leaves : Len(k) <= Len(h) + 1
        BY <1>1, <3>2, <3>3
      <4> QED BY <1>5, <2>3, <2>7, <3>1, <4>1, <4>2 DEF FullTree
    <3>5. n \in G!Tree!Leaves /\ Len(n) < T
      BY <1>1, <2>1, <2>7, <3>2 DEF LevelByLevel
    <3>6. loop'.failed =>
            /\ loop'.grid = "multi" /\ ~loop'.ended
            /\ \E k \in G!Tree!Leaves' : Len(k) < loop'.target_level
      BY <1>5, <2>3, <2>7, <3>5
    <3> QED BY <1>5, <2>3, <2>4, <2>7, <3>4, <3>6 DEF GenerationInv
  <2>8. CASE ~G!predicate /\ refined' = refined /\ LevelByLevel
    <3>1. L = T + 1
      BY <1>3, <2>8
    <3>2. LevelByLevel' /\ ~loop'.failed
      BY <1>1, <1>5, <2>3, <2>8, <3>1 DEF LevelByLevel
    <3> QED BY <1>5, <2>3, <2>4, <2>8, <3>2 DEF GenerationInv
  <2> QED BY <2>1, <2>2, <2>5, <2>6, <2>7, <2>8
<1>8. ASSUME G!EndRound PROVE GenerationInv'
  <2>1. ~loop.ended /\ ~loop.failed /\ loop.nodes = {} /\ refined' = refined
    BY <1>8 DEF G!EndRound
  <2>2. CASE loop.done
    <3>1. loop' = [loop EXCEPT !.ended = TRUE]
      BY <1>8, <2>2 DEF G!EndRound
    <3>2. /\ loop' = [ended |-> TRUE, failed |-> FALSE, grid |-> loop.grid,
                      target_level |-> T, level |-> L,
                      nodes |-> loop.nodes, done |-> loop.done, from |-> loop.from]
      BY <1>1, <2>1, <3>1
    <3>3. GenerationLoop'
      BY <1>1, <2>1, <2>2, <3>2 DEF GenerationLoop
    <3>4. LevelByLevel => LevelByLevel'
      BY <1>5, <2>1, <3>2 DEF LevelByLevel
    <3>5. FullTree => FullTree'
      BY <1>5, <2>1, <3>2 DEF FullTree
    <3> QED BY <1>0, <1>5, <2>1, <3>2, <3>3, <3>4, <3>5 DEF GenerationInv
  <2>3. CASE ~loop.done
    <3>1. loop' = [loop EXCEPT !.level = @ + 1, !.nodes = {n \in G!Tree!Leaves : Len(n) = L},
                               !.done = TRUE]
      BY <1>8, <1>2, <2>3 DEF G!EndRound, G!Round
    <3>2. /\ loop' = [ended |-> loop.ended, failed |-> FALSE, grid |-> loop.grid,
                      target_level |-> T, level |-> L + 1,
                      nodes |-> {n \in G!Tree!Leaves : Len(n) = L}, done |-> TRUE,
                      from |-> loop.from]
      BY <1>1, <2>1, <3>1
    <3>3. L <= T
      BY <1>1, <2>3
    <3>4. GenerationLoop'
      BY <1>1, <2>1, <3>2, <3>3 DEF GenerationLoop
    <3>5. LevelByLevel => LevelByLevel'
      <4> SUFFICES ASSUME LevelByLevel PROVE LevelByLevel'
        OBVIOUS
      <4>1. \A n \in G!Tree!Leaves : Len(n) = L
        BY <2>1, <3>3 DEF LevelByLevel
      <4> QED BY <1>1, <1>5, <2>1, <3>2, <4>1 DEF LevelByLevel
    <3>6. FullTree => FullTree'
      BY <1>5, <2>1, <3>2 DEF FullTree
    <3>7. loop.from = {}
      BY <1>0, <2>3
    <3> QED BY <1>0, <1>5, <2>1, <3>2, <3>4, <3>5, <3>6, <3>7 DEF GenerationInv
  <2> QED BY <1>1, <2>2, <2>3
<1>9. ASSUME G!Ended PROVE GenerationInv'
  <2>1. loop' = loop /\ refined' = refined
    BY <1>9 DEF G!Ended, G!vars
  <2>2. GenerationLoop' /\ (LevelByLevel => LevelByLevel') /\ (FullTree => FullTree')
    BY <1>0, <1>5, <2>1 DEF GenerationLoop, LevelByLevel, FullTree
  <2> QED BY <1>0, <1>5, <2>1, <2>2 DEF GenerationInv
<1> QED BY <1>6, <1>7, <1>8, <1>9 DEF G!Next

(* A generation begins with the root. *)
LEMMA GenerationInit ==
  G!Init => GenerationInv
<1> SUFFICES ASSUME G!Init PROVE GenerationInv
  OBVIOUS
<1>1. /\ refined = {}
      /\ loop = [ended |-> TRUE, failed |-> FALSE, grid |-> "single", target_level |-> 0,
                 level |-> 1, nodes |-> {}, done |-> TRUE, from |-> {}]
  BY DEF G!Init, G!Tree!Init
<1>2. G!Tree!Leaves = {<<>>}
  BY <1>1 DEF G!Tree!Leaves
<1>3. GeneratedTree
  BY <1>1, <1>2, FS_EmptySet, PartsAssumption DEF GeneratedTree
<1>4. GenerationLoop
  BY <1>1 DEF GenerationLoop
<1>5. LevelByLevel
  BY <1>1, <1>2 DEF LevelByLevel
<1> QED BY <1>1, <1>3, <1>4, <1>5 DEF GenerationInv

GenerationsInv == subject = "generation" => GenerationInv

(* generate_uniform_grid ends with every leaf at the target level, unless the *)
(* tree is full: then a multi grid ends the program and the others end with   *)
(* the levels filled from the top.                                            *)
THEOREM GenerationLevels == PartsSpec => []GenerationEnds
<1>1. PartsInit => GenerationsInv
  BY GenerationInit DEF PartsInit, GenerationsInv
<1>2. GenerationsInv /\ [PartsNext]_<<subject, locations, neighbors, matrices, trees>> => GenerationsInv'
  <2> SUFFICES ASSUME GenerationsInv, [PartsNext]_<<subject, locations, neighbors, matrices, trees>>,
                      subject' = "generation"
               PROVE  GenerationInv'
    BY DEF GenerationsInv
  <2>1. subject = "generation" /\ GenerationInv
    BY DEF PartsNext, GenerationsInv
  <2>2. G!Next \/ UNCHANGED <<refined, loop>>
    BY <2>1 DEF PartsNext, trees
  <2>3. CASE G!Next
    BY <2>1, <2>3, GenerationStep
  <2>4. CASE UNCHANGED <<refined, loop>>
    <3>1. G!Tree!Leaves' = G!Tree!Leaves /\ refined' = refined /\ loop' = loop
      BY <2>4 DEF G!Tree!Leaves
    <3>2. GeneratedTree' <=> GeneratedTree
      BY <3>1 DEF GeneratedTree
    <3>3. GenerationLoop' <=> GenerationLoop
      BY <3>1 DEF GenerationLoop
    <3>4. (LevelByLevel' <=> LevelByLevel) /\ (FullTree' <=> FullTree)
      BY <3>1 DEF LevelByLevel, FullTree
    <3> QED BY <2>1, <3>1, <3>2, <3>3, <3>4 DEF GenerationInv
  <2> QED BY <2>2, <2>3, <2>4
<1>3. GenerationsInv => GenerationEnds
  BY LoopEnds DEF GenerationsInv, GenerationEnds
<1> QED BY <1>1, <1>2, <1>3, PTL DEF PartsSpec
-----------------------------------------------------------------------------
(* Neighbours of the nodes of a solver grid. *)

(* The turns of the folds of the neighbour lists: an element copied to the    *)
(* end of a list, a link taken back, a name replaced in the list of a         *)
(* neighbour.                                                                 *)
Turn(kind, n, from, to, r, x) ==
  IF kind = "append" THEN N!emplace_back(r, x)
  ELSE IF kind = "pop" THEN N!pop(r, n, x)
  ELSE LET k == r.data[n].slots[x]
       IN  [N!asserts(N!asserts_symmetric(r, k, from), N!has_neighbor(r, k, from))
              EXCEPT !.data[k] = N!replace(@, from, to)]

Greatest(T) == CHOOSE x \in T : \A y \in T : x >= y

IsFold(it, kind, n, from, to, base, seq, S) ==
  it = [T \in SUBSET S |->
          IF T = {} THEN base
          ELSE Turn(kind, n, from, to, it[T \ {Greatest(T)}], seq[Greatest(T)])]

Folded(kind, n, from, to, base, seq, S) ==
  (CHOOSE it : IsFold(it, kind, n, from, to, base, seq, S))[S]

(* A nonempty finite set of numbers has a greatest. *)
LEMMA GreatestIsOne ==
  ASSUME NEW z \in Nat, NEW T \in SUBSET (1 .. z), T # {}
  PROVE  Greatest(T) \in T /\ \A y \in T : Greatest(T) >= y
<1> DEFINE above == {a \in Nat : \A y \in T : a >= y}
<1>1. z \in above
  OBVIOUS
<1>2. PICK a \in above : \A b \in above : a <= b
  <2>1. above \subseteq Nat /\ above # {}
    BY <1>1
  <2> QED BY <2>1, LeastNumber
<1>3. a \in T
  <2>1. CASE a = 0
    <3>1. PICK y \in T : TRUE
      OBVIOUS
    <3>2. a >= y /\ y \in 1 .. z
      BY <1>2, <3>1
    <3> QED BY <2>1, <3>2
  <2>2. CASE a # 0
    <3> SUFFICES ASSUME a \notin T PROVE FALSE
      OBVIOUS
    <3>1. a \in Nat /\ \A y \in T : y \in Nat /\ a >= y
      BY <1>2
    <3>2. a - 1 \in Nat /\ \A y \in T : a - 1 >= y
      BY <2>2, <3>1
    <3>3. a <= a - 1
      <4>1. a - 1 \in above
        BY <3>2
      <4> QED BY <4>1, <1>2
    <3> QED BY <3>1, <3>3
  <2> HIDE DEF above
  <2> QED BY <2>1, <2>2
<1>4. a \in T /\ \A y \in T : a >= y
  BY <1>3
<1> QED BY <1>4 DEF Greatest

(* There is such a fold, *)
LEMMA FoldExists ==
  ASSUME NEW kind, NEW n, NEW from, NEW to, NEW base, NEW seq, NEW z \in Nat
  PROVE  \E it : IsFold(it, kind, n, from, to, base, seq, 1 .. z)
<1> DEFINE S == 1 .. z
           Below(l) == SUBSET (1 .. l)
           F(r, x) == Turn(kind, n, from, to, r, x)
           Has(l) == \E it :
                       it = [T \in Below(l) |-> IF T = {} THEN base
                               ELSE F(it[T \ {Greatest(T)}], seq[Greatest(T)])]
           N0 == {l \in Nat : l <= z => Has(l)}
<1> HIDE DEF F
<1>1. 0 \in N0
  <2> DEFINE it == [T \in Below(0) |-> base]
  <2>1. \A T \in Below(0) : T = {}
    OBVIOUS
  <2>2. it = [T \in Below(0) |-> IF T = {} THEN base
                ELSE F(it[T \ {Greatest(T)}], seq[Greatest(T)])]
    BY <2>1
  <2> HIDE DEF it
  <2> QED BY <2>2
<1>2. ASSUME NEW l \in Nat, l \in N0 PROVE l + 1 \in N0
  <2> SUFFICES ASSUME l + 1 <= z PROVE Has(l + 1)
    <3> HIDE DEF Has
    <3> QED OBVIOUS
  <2>1. PICK it : it = [T \in Below(l) |-> IF T = {} THEN base
                          ELSE F(it[T \ {Greatest(T)}], seq[Greatest(T)])]
    <3>1. Has(l)
      <4>1. l <= z
        OBVIOUS
      <4> HIDE DEF Has
      <4> QED BY <4>1, <1>2
    <3> QED BY <3>1
  <2> DEFINE new == [T \in Below(l + 1) |-> IF T \in Below(l) THEN it[T]
                       ELSE F(it[T \ {Greatest(T)}], seq[Greatest(T)])]
  <2>2. \A T \in Below(l + 1) : T # {} =>
          /\ Greatest(T) \in T /\ T \ {Greatest(T)} \in Below(l)
    <3> SUFFICES ASSUME NEW T \in Below(l + 1), T # {}
                 PROVE  Greatest(T) \in T /\ T \ {Greatest(T)} \in Below(l)
      OBVIOUS
    <3>1. Greatest(T) \in T /\ \A y \in T : Greatest(T) >= y
      <4>1. l + 1 \in Nat
        OBVIOUS
      <4> QED BY <4>1, GreatestIsOne
    <3>2. PICK g \in T : g = Greatest(T)
      BY <3>1
    <3>3. \A y \in T : y \in 1 .. l + 1 /\ g \in 1 .. l + 1 /\ g >= y
      BY <3>1, <3>2
    <3>4. \A y \in T \ {g} : y \in 1 .. l
      BY <3>3
    <3> QED BY <3>1, <3>2, <3>4
  <2>3. \A T \in Below(l) : T \in Below(l + 1) /\ new[T] = it[T]
    OBVIOUS
  <2>4. \A T \in Below(l + 1) : new[T] = IF T = {} THEN base
                                  ELSE F(new[T \ {Greatest(T)}], seq[Greatest(T)])
    <3> SUFFICES ASSUME NEW T \in Below(l + 1)
                 PROVE  new[T] = IF T = {} THEN base
                                 ELSE F(new[T \ {Greatest(T)}], seq[Greatest(T)])
      OBVIOUS
    <3>1. CASE T \in Below(l)
      <4>1. new[T] = it[T]
        BY <3>1
      <4>2. T # {} => new[T \ {Greatest(T)}] = it[T \ {Greatest(T)}]
        BY <2>2, <2>3
      <4>3. it[T] = IF T = {} THEN base ELSE F(it[T \ {Greatest(T)}], seq[Greatest(T)])
        BY <2>1, <3>1
      <4> HIDE DEF new
      <4> QED BY <4>1, <4>2, <4>3
    <3>2. CASE T \notin Below(l)
      <4>1. T # {}
        BY <3>2
      <4>2. new[T \ {Greatest(T)}] = it[T \ {Greatest(T)}]
        BY <2>2, <2>3, <4>1
      <4>3. new[T] = F(it[T \ {Greatest(T)}], seq[Greatest(T)])
        BY <3>2
      <4> HIDE DEF new
      <4> QED BY <4>1, <4>2, <4>3
    <3> QED BY <3>1, <3>2
  <2>5. new = [T \in Below(l + 1) |-> IF T = {} THEN base
                 ELSE F(new[T \ {Greatest(T)}], seq[Greatest(T)])]
    <3>1. new = [T \in Below(l + 1) |-> new[T]]
      OBVIOUS
    <3> HIDE DEF new
    <3> QED BY <2>4, <3>1
  <2> HIDE DEF new
  <2> QED BY <2>5
<1>3. z \in N0
  <2>1. Nat \subseteq N0
    <3>1. N0 \subseteq Nat
      OBVIOUS
    <3>2. \A l \in Nat : l \in N0 => l + 1 \in N0
      BY <1>2
    <3> HIDE DEF N0
    <3> QED BY <1>1, <3>1, <3>2, Induction
  <2> QED BY <2>1
<1>4. PICK it : it = [T \in SUBSET (1 .. z) |-> IF T = {} THEN base
                        ELSE F(it[T \ {Greatest(T)}], seq[Greatest(T)])]
  <2>1. z <= z
    OBVIOUS
  <2>2. Has(z)
    <3> HIDE DEF Has
    <3> QED BY <1>3, <2>1
  <2> QED BY <2>2
<1> QED BY <1>4 DEF IsFold, F

(* ... and it takes the elements one after the other. *)
LEMMA FoldSteps ==
  ASSUME NEW kind, NEW n, NEW from, NEW to, NEW base, NEW seq, NEW z \in Nat
  PROVE  \E st :
           /\ st[0] = base
           /\ \A k \in 1 .. z : st[k] = Turn(kind, n, from, to, st[k - 1], seq[k])
           /\ Folded(kind, n, from, to, base, seq, 1 .. z) = st[z]
<1> DEFINE it == CHOOSE it : IsFold(it, kind, n, from, to, base, seq, 1 .. z)
           st == [k \in 0 .. z |-> it[1 .. k]]
           F(r, x) == Turn(kind, n, from, to, r, x)
<1>1. IsFold(it, kind, n, from, to, base, seq, 1 .. z)
  BY FoldExists, Zenon
<1>2. Folded(kind, n, from, to, base, seq, 1 .. z) = it[1 .. z]
  BY DEF Folded
<1> HIDE DEF it, F
<1>3. \A T \in SUBSET (1 .. z) : it[T] = IF T = {} THEN base
                                   ELSE F(it[T \ {Greatest(T)}], seq[Greatest(T)])
  BY <1>1 DEF IsFold, F
<1>4. ASSUME NEW k \in 1 .. z
      PROVE  /\ 1 .. k \in SUBSET (1 .. z) /\ 1 .. k # {}
             /\ Greatest(1 .. k) = k /\ (1 .. k) \ {k} = 1 .. k - 1
  <2>1. 1 .. k \in SUBSET (1 .. z) /\ k \in 1 .. k
    OBVIOUS
  <2>2. Greatest(1 .. k) \in 1 .. k /\ Greatest(1 .. k) >= k
    BY <2>1, GreatestIsOne
  <2> QED BY <2>1, <2>2
<1>5. \A k \in 1 .. z : st[k] = F(st[k - 1], seq[k])
  <2> SUFFICES ASSUME NEW k \in 1 .. z PROVE st[k] = F(st[k - 1], seq[k])
    OBVIOUS
  <2>1. it[1 .. k] = F(it[(1 .. k) \ {Greatest(1 .. k)}], seq[Greatest(1 .. k)])
    BY <1>3, <1>4
  <2>2. it[1 .. k] = F(it[1 .. k - 1], seq[k])
    BY <2>1, <1>4
  <2>3. st[k] = it[1 .. k] /\ st[k - 1] = it[1 .. k - 1]
    OBVIOUS
  <2> HIDE DEF st
  <2> QED BY <2>2, <2>3
<1>6. st[0] = base
  <2>1. 1 .. 0 = {} /\ {} \in SUBSET (1 .. z)
    OBVIOUS
  <2>2. it[{}] = base
    BY <1>3, <2>1
  <2>3. st[0] = it[1 .. 0]
    OBVIOUS
  <2> HIDE DEF st
  <2> QED BY <2>1, <2>2, <2>3
<1>7. st[z] = it[1 .. z]
  OBVIOUS
<1> HIDE DEF st
<1> QED BY <1>2, <1>5, <1>6, <1>7 DEF F

(* The folds of the lists are such folds. *)
LEMMA TheFolds ==
  /\ \A v, seq : N!range_assign(v, seq)
                   = Folded("append", 0, 0, 0, v, seq, DOMAIN seq)
  /\ \A s, n : N!pop_all(s, n)
        = LET popped == Folded("pop", n, 0, 0, s, N!elements(s.data[n]), DOMAIN N!elements(s.data[n]))
          IN  N!asserts(popped, popped.data[n].size = 0)
  /\ \A s, of, from, to : N!update_neighbors(s, of, from, to)
        = LET slots == [k \in 1 .. s.data[of].size |-> k - 1]
          IN  Folded("rename", of, from, to, s, slots, DOMAIN slots)
<1>1. ASSUME NEW v, NEW seq
      PROVE  N!range_assign(v, seq) = Folded("append", 0, 0, 0, v, seq, DOMAIN seq)
  BY DEF N!range_assign, N!FoldLeft, N!MapThenFoldSet, N!Max, Folded, IsFold, Turn, Greatest
<1>2. ASSUME NEW s, NEW n
      PROVE  N!pop_all(s, n)
        = LET popped == Folded("pop", n, 0, 0, s, N!elements(s.data[n]), DOMAIN N!elements(s.data[n]))
          IN  N!asserts(popped, popped.data[n].size = 0)
  BY DEF N!pop_all, N!FoldLeft, N!MapThenFoldSet, N!Max, Folded, IsFold, Turn, Greatest
<1>3. ASSUME NEW s, NEW of, NEW from, NEW to
      PROVE  N!update_neighbors(s, of, from, to)
        = LET slots == [k \in 1 .. s.data[of].size |-> k - 1]
          IN  Folded("rename", of, from, to, s, slots, DOMAIN slots)
  BY DEF N!update_neighbors, N!FoldLeft, N!MapThenFoldSet, N!Max, Folded, IsFold, Turn, Greatest
<1> QED BY <1>1, <1>2, <1>3
-----------------------------------------------------------------------------
(* One list. *)

(* The elements come first and the slots behind them are raw. *)
Vector(v) ==
  /\ v = [slots |-> v.slots, size |-> v.size]
  /\ v.slots = [k \in N!Slot |-> v.slots[k]]
  /\ v.size \in 0 .. NeighborCapacity
  /\ \A k \in 0 .. v.size - 1 : v.slots[k] \in GridNode
  /\ \A k \in N!Slot : k >= v.size => v.slots[k] = Raw

Members(v) == {v.slots[k] : k \in 0 .. v.size - 1}

(* ... and no element comes twice. *)
List(v) ==
  /\ Vector(v)
  /\ \A k, l \in 0 .. v.size - 1 : v.slots[k] = v.slots[l] => k = l

(* lists_node looks among the elements. *)
LEMMA ListsNode ==
  ASSUME NEW v, Vector(v), NEW x
  PROVE  /\ N!lists_node(v, x) <=> x \in Members(v)
         /\ 0 .. v.size - 1 \subseteq N!Slot /\ v.size \in Nat
         /\ N!Slot = 0 .. NeighborCapacity - 1 /\ NeighborCapacity \in Nat
         /\ Members(v) \subseteq GridNode /\ Raw \notin GridNode
<1>1. N!Slot = 0 .. NeighborCapacity - 1 /\ NeighborCapacity \in Nat /\ Raw \notin GridNode
  BY PartsAssumption DEF N!Slot
<1>2. v.size \in 0 .. NeighborCapacity /\ \A k \in 0 .. v.size - 1 : v.slots[k] \in GridNode
  BY DEF Vector
<1>3. 0 .. v.size - 1 \subseteq N!Slot /\ v.size \in Nat
  BY <1>1, <1>2
<1>4. N!lists_node(v, x) <=> x \in Members(v)
  BY <1>1, <1>2, <1>3 DEF N!lists_node, Members
<1> QED BY <1>1, <1>2, <1>3, <1>4 DEF Members

(* A store starts with empty lists. *)
LEMMA EmptyList ==
  List(N!empty_vector) /\ Members(N!empty_vector) = {}
<1>1. N!Slot = 0 .. NeighborCapacity - 1 /\ NeighborCapacity \in Nat
  BY PartsAssumption DEF N!Slot
<1> QED BY <1>1 DEF List, Vector, Members, N!empty_vector

(* An element at the end. *)
LEMMA Appended ==
  ASSUME NEW v, List(v), v.size # NeighborCapacity, NEW x \in GridNode, x \notin Members(v)
  PROVE  /\ List(N!emplace_back(v, x))
         /\ Members(N!emplace_back(v, x)) = Members(v) \cup {x}
<1> DEFINE w == N!emplace_back(v, x)
<1>0. Vector(v)
  BY DEF List
<1>1. /\ N!Slot = 0 .. NeighborCapacity - 1 /\ NeighborCapacity \in Nat
      /\ v.size \in 0 .. NeighborCapacity - 1 /\ DOMAIN v.slots = N!Slot
  BY <1>0, ListsNode DEF Vector
<1>2. /\ w.slots = [v.slots EXCEPT ![v.size] = x] /\ w.size = v.size + 1
      /\ w = [slots |-> w.slots, size |-> w.size]
  BY DEF N!emplace_back
<1> HIDE DEF w
<1>3. /\ \A k \in N!Slot : w.slots[k] = IF k = v.size THEN x ELSE v.slots[k]
      /\ DOMAIN w.slots = N!Slot
  BY <1>1, <1>2
<1>4. \A k \in 0 .. w.size - 1 : k \in N!Slot /\ (k = v.size \/ k \in 0 .. v.size - 1)
  BY <1>1, <1>2
<1>5. Vector(w)
  <2>1. w.slots = [k \in N!Slot |-> w.slots[k]]
    BY <1>2, <1>1
  <2>2. \A k \in 0 .. w.size - 1 : w.slots[k] \in GridNode
    BY <1>0, <1>1, <1>3, <1>4 DEF Vector
  <2>3. \A k \in N!Slot : k >= w.size => w.slots[k] = Raw
    BY <1>0, <1>1, <1>2, <1>3 DEF Vector
  <2>4. w.size \in 0 .. NeighborCapacity
    BY <1>1, <1>2
  <2> QED BY <1>2, <2>1, <2>2, <2>3, <2>4 DEF Vector
<1>6. Members(w) = Members(v) \cup {x}
  <2>1. \A k \in 0 .. v.size - 1 : k \in 0 .. w.size - 1 /\ w.slots[k] = v.slots[k]
    BY <1>1, <1>2, <1>3
  <2>2. v.size \in 0 .. w.size - 1 /\ w.slots[v.size] = x
    BY <1>1, <1>2, <1>3
  <2>3. \A k \in 0 .. w.size - 1 : w.slots[k] \in Members(v) \cup {x}
    BY <1>3, <1>4 DEF Members
  <2> QED BY <2>1, <2>2, <2>3 DEF Members
<1>7. \A k, l \in 0 .. w.size - 1 : w.slots[k] = w.slots[l] => k = l
  BY <1>3, <1>4 DEF List, Members
<1> QED BY <1>5, <1>6, <1>7 DEF List, w

(* The elements but one. *)
LEMMA Removed ==
  ASSUME NEW v, List(v), NEW x
  PROVE  /\ List(N!remove_if(v, x))
         /\ Members(N!remove_if(v, x)) = Members(v) \ {x}
<1> DEFINE kept == {k \in 0 .. v.size - 1 : v.slots[k] # x}
           rank(k) == N!Cardinality({l \in kept : l < k})
           from(n) == CHOOSE k \in kept : rank(k) = n
           moved == [v EXCEPT !.slots = [n \in N!Slot |->
                       IF n < N!Cardinality(kept) THEN v.slots[from(n)] ELSE @[n]]]
           w == N!remove_if(v, x)
<1>0. Vector(v)
  BY DEF List
<1>1. /\ N!Slot = 0 .. NeighborCapacity - 1 /\ NeighborCapacity \in Nat
      /\ v.size \in 0 .. NeighborCapacity /\ DOMAIN v.slots = N!Slot
      /\ v = [slots |-> v.slots, size |-> v.size]
  BY <1>0, ListsNode DEF Vector
<1>2. w = N!erase(moved, N!Cardinality(kept))
  BY DEF N!remove_if
<1>3. \A K : N!Cardinality(K) = Cardinality(K)
  BY DEF N!Cardinality, Cardinality
<1>4. \A a \in Nat : IsFiniteSet(0 .. a - 1) /\ Cardinality(0 .. a - 1) = a
  <2>1. ASSUME NEW a \in Nat PROVE IsFiniteSet(0 .. a - 1) /\ Cardinality(0 .. a - 1) = a
    <3>1. Cardinality(0 .. a - 1) = IF 0 > a - 1 THEN 0 ELSE a - 1 - 0 + 1
      BY FS_Interval
    <3> QED BY <3>1, FS_Interval
  <2> QED BY <2>1
(* The slots that are kept, numbered in their order. *)
<1>5. PICK c \in 0 .. v.size :
        /\ Cardinality(kept) = c
        /\ \A k \in kept : rank(k) \in 0 .. c - 1
        /\ \A n \in 0 .. c - 1 : \E k \in kept : rank(k) = n
        /\ \A k, l \in kept : rank(k) = rank(l) => k = l
  <2>1. CASE \A k \in 0 .. v.size - 1 : v.slots[k] # x
    <3>1. kept = 0 .. v.size - 1
      BY <2>1
    <3>2. \A k \in kept : {l \in kept : l < k} = 0 .. k - 1 /\ k \in Nat
      <4> SUFFICES ASSUME NEW k \in kept
                   PROVE  {l \in kept : l < k} = 0 .. k - 1 /\ k \in Nat
        OBVIOUS
      <4>1. k \in 0 .. v.size - 1 /\ v.size \in Nat
        BY <1>1, <3>1
      <4> HIDE DEF kept
      <4>2. \A l : l \in kept /\ l < k <=> l \in 0 .. k - 1
        BY <3>1, <4>1
      <4> QED BY <4>1, <4>2
    <3> HIDE DEF kept
    <3>3. \A k \in kept : rank(k) = k
      BY <3>2, <1>3, <1>4
    <3> HIDE DEF rank
    <3> QED BY <1>1, <1>4, <3>1, <3>3
  <2>2. CASE \E k \in 0 .. v.size - 1 : v.slots[k] = x
    <3>1. PICK i \in 0 .. v.size - 1 : v.slots[i] = x
      BY <2>2
    <3>2. kept = (0 .. v.size - 1) \ {i}
      BY <3>1 DEF List
    <3>3. \A k \in kept : /\ k \in 0 .. v.size - 1 /\ k # i
                          /\ {l \in kept : l < k} = (0 .. k - 1) \ {i}
      <4> HIDE DEF kept
      <4> SUFFICES ASSUME NEW k \in kept
                   PROVE  /\ k \in 0 .. v.size - 1 /\ k # i
                          /\ {l \in kept : l < k} = (0 .. k - 1) \ {i}
        OBVIOUS
      <4>1. k \in 0 .. v.size - 1 /\ k # i /\ v.size \in Nat
        BY <1>1, <3>2
      <4>2. \A l : l \in kept /\ l < k <=> l \in (0 .. k - 1) \ {i}
        BY <3>2, <4>1
      <4> QED BY <4>1, <4>2
    <3> HIDE DEF kept
    <3>4. \A k \in Nat : Cardinality((0 .. k - 1) \ {i}) = IF i < k THEN k - 1 ELSE k
      <4>1. ASSUME NEW k \in Nat
            PROVE  Cardinality((0 .. k - 1) \ {i}) = IF i < k THEN k - 1 ELSE k
        <5>1. i \in Nat
          BY <3>1
        <5>2. CASE i < k
          <6>1. i \in 0 .. k - 1
            BY <5>1, <5>2
          <6> QED BY <6>1, <5>2, <1>4, FS_RemoveElement
        <5>3. CASE ~(i < k)
          <6>1. (0 .. k - 1) \ {i} = 0 .. k - 1
            BY <5>1, <5>3
          <6> QED BY <6>1, <5>3, <1>4
        <5> QED BY <5>2, <5>3
      <4> QED BY <4>1
    <3>5. \A k \in kept : rank(k) = IF i < k THEN k - 1 ELSE k
      <4>1. \A k \in kept : k \in Nat
        BY <3>3
      <4> QED BY <3>3, <3>4, <4>1, <1>3
    <3>6. Cardinality(kept) = v.size - 1 /\ v.size - 1 \in 0 .. v.size
      <4>1. v.size \in Nat /\ i < v.size /\ i \in Nat
        BY <3>1, <1>1
      <4> QED BY <4>1, <3>2, <3>4
    <3> HIDE DEF rank
    <3>7. /\ \A k \in kept : rank(k) \in 0 .. v.size - 1 - 1
          /\ \A k, l \in kept : rank(k) = rank(l) => k = l
      BY <1>1, <3>1, <3>3, <3>5
    <3>8. ASSUME NEW n \in 0 .. v.size - 1 - 1 PROVE \E k \in kept : rank(k) = n
      <4>1. CASE n < i
        <5>1. n \in kept
          BY <3>1, <3>2, <4>1, <1>1
        <5> QED BY <5>1, <3>5, <4>1, <3>1
      <4>2. CASE n >= i
        <5>1. n + 1 \in kept
          BY <3>1, <3>2, <4>2, <1>1
        <5> QED BY <5>1, <3>5, <4>2, <3>1
      <4> QED BY <4>1, <4>2, <3>1
    <3> QED BY <3>6, <3>7, <3>8
  <2> QED BY <2>1, <2>2
<1> HIDE DEF rank
<1>6. \A n \in 0 .. c - 1 : from(n) \in kept /\ rank(from(n)) = n
  BY <1>5
<1>7. \A k \in kept : from(rank(k)) = k
  BY <1>5, <1>6
<1> HIDE DEF from
<1>8. /\ moved.size = v.size
      /\ moved.slots = [n \in N!Slot |-> IF n < c THEN v.slots[from(n)] ELSE v.slots[n]]
  BY <1>1, <1>3, <1>5
<1> HIDE DEF moved
<1>9. /\ w = [slots |-> w.slots, size |-> w.size] /\ w.size = c
      /\ w.slots = [k \in N!Slot |-> IF k \in c .. v.size - 1 THEN Raw ELSE moved.slots[k]]
  BY <1>2, <1>3, <1>5, <1>8 DEF N!erase
<1> HIDE DEF w
<1>10. /\ \A k \in 0 .. c - 1 : k \in N!Slot /\ w.slots[k] = v.slots[from(k)]
       /\ \A k \in N!Slot : k >= c => w.slots[k] = Raw
  <2>1. \A k \in 0 .. c - 1 : k \in N!Slot /\ k < c /\ k \notin c .. v.size - 1
    BY <1>1, <1>5
  <2>2. \A k \in N!Slot : k >= c /\ k \notin c .. v.size - 1 => k >= v.size /\ ~(k < c)
    BY <1>1, <1>5
  <2>3. \A k \in N!Slot : k >= v.size => v.slots[k] = Raw
    BY <1>0 DEF Vector
  <2> QED BY <2>1, <2>2, <2>3, <1>8, <1>9
<1>11. \A k \in kept : k \in 0 .. v.size - 1 /\ v.slots[k] # x
  OBVIOUS
<1>12. Vector(w)
  <2>1. \A k \in 0 .. w.size - 1 : w.slots[k] \in GridNode
    BY <1>0, <1>6, <1>9, <1>10, <1>11 DEF Vector
  <2>2. w.size \in 0 .. NeighborCapacity
    BY <1>1, <1>5, <1>9
  <2>3. w.slots = [k \in N!Slot |-> w.slots[k]]
    BY <1>9
  <2> QED BY <1>9, <1>10, <2>1, <2>2, <2>3 DEF Vector
<1>13. Members(w) = Members(v) \ {x}
  <2>1. \A k \in 0 .. c - 1 : w.slots[k] \in Members(v) \ {x}
    BY <1>6, <1>10, <1>11 DEF Members
  <2>2. \A k \in 0 .. v.size - 1 : v.slots[k] # x => \E n \in 0 .. c - 1 : w.slots[n] = v.slots[k]
    <3> SUFFICES ASSUME NEW k \in 0 .. v.size - 1, v.slots[k] # x
                 PROVE  \E n \in 0 .. c - 1 : w.slots[n] = v.slots[k]
      OBVIOUS
    <3>1. k \in kept
      OBVIOUS
    <3>2. rank(k) \in 0 .. c - 1 /\ from(rank(k)) = k
      BY <3>1, <1>5, <1>7
    <3> QED BY <3>2, <1>10
  <2>3. \A y : y \in Members(w) <=> \E n \in 0 .. c - 1 : w.slots[n] = y
    BY <1>9 DEF Members
  <2>4. \A y : y \in Members(v) <=> \E k \in 0 .. v.size - 1 : v.slots[k] = y
    BY DEF Members
  <2>5. \A y \in Members(w) : y \in Members(v) \ {x}
    BY <2>1, <2>3
  <2>6. \A y \in Members(v) \ {x} : y \in Members(w)
    BY <2>2, <2>3, <2>4
  <2> QED BY <2>5, <2>6
<1>14. \A k, l \in 0 .. w.size - 1 : w.slots[k] = w.slots[l] => k = l
  <2> SUFFICES ASSUME NEW k \in 0 .. c - 1, NEW l \in 0 .. c - 1, w.slots[k] = w.slots[l]
               PROVE  k = l
    BY <1>9
  <2>1. v.slots[from(k)] = v.slots[from(l)]
    BY <1>10
  <2>2. from(k) = from(l)
    BY <2>1, <1>6, <1>11 DEF List
  <2> QED BY <2>2, <1>6
<1> QED BY <1>12, <1>13, <1>14 DEF List, w

(* A list copied over another one. *)
LEMMA Copied ==
  ASSUME NEW v, Vector(v), NEW o, Vector(o)
  PROVE  N!assign(v, o) = o
<1> DEFINE empty == N!clear(v)
           seq == N!elements(o)
           part(k) == [slots |-> [n \in N!Slot |-> IF n < k THEN o.slots[n] ELSE Raw],
                       size |-> k]
<1>1. /\ N!Slot = 0 .. NeighborCapacity - 1 /\ NeighborCapacity \in Nat
      /\ o.size \in Nat /\ o.size <= NeighborCapacity
      /\ v.size \in Nat /\ o.size \in 0 .. NeighborCapacity
  <2>1. /\ N!Slot = 0 .. NeighborCapacity - 1 /\ NeighborCapacity \in Nat
        /\ o.size \in Nat /\ v.size \in Nat
    BY ListsNode
  <2>2. o.size \in 0 .. NeighborCapacity
    BY DEF Vector
  <2> QED BY <2>1, <2>2
<1>2. empty = part(0)
  <2>1. \A n \in N!Slot : /\ ~(n < 0)
                          /\ (IF n \in 0 .. v.size - 1 THEN Raw ELSE v.slots[n]) = Raw
    BY <1>1 DEF Vector
  <2>2. empty = [slots |-> [n \in N!Slot |-> IF n \in 0 .. v.size - 1 THEN Raw ELSE v.slots[n]],
                 size |-> 0]
    BY DEF N!clear, N!erase
  <2> HIDE DEF empty
  <2>3. [n \in N!Slot |-> IF n \in 0 .. v.size - 1 THEN Raw ELSE v.slots[n]]
          = [n \in N!Slot |-> IF n < 0 THEN o.slots[n] ELSE Raw]
    BY <2>1
  <2> QED BY <2>2, <2>3
<1>3. DOMAIN seq = 1 .. o.size /\ \A k \in 1 .. o.size : seq[k] = o.slots[k - 1]
  BY <1>1 DEF N!elements
<1>4. N!assign(v, o) = Folded("append", 0, 0, 0, empty, seq, DOMAIN seq)
  <2>1. N!assign(v, o) = N!range_assign(empty, seq)
    BY DEF N!assign
  <2> QED BY <2>1, TheFolds, Zenon
<1> HIDE DEF empty, seq
<1>5. PICK st :
        /\ st[0] = empty
        /\ \A k \in 1 .. o.size : st[k] = Turn("append", 0, 0, 0, st[k - 1], seq[k])
        /\ Folded("append", 0, 0, 0, empty, seq, 1 .. o.size) = st[o.size]
  BY <1>1, FoldSteps
<1> DEFINE N0 == {k \in Nat : k <= o.size => st[k] = part(k)}
<1>6. 0 \in N0
  BY <1>2, <1>5
<1>7. ASSUME NEW k \in Nat, k \in N0 PROVE k + 1 \in N0
  <2> SUFFICES ASSUME k + 1 <= o.size PROVE st[k + 1] = part(k + 1)
    OBVIOUS
  <2>1. k + 1 \in 1 .. o.size /\ k + 1 - 1 = k /\ k <= o.size /\ k \in N!Slot
    BY <1>1
  <2>2. st[k] = part(k)
    BY <2>1, <1>7
  <2>3. st[k + 1] = N!emplace_back(part(k), o.slots[k])
    BY <2>1, <2>2, <1>3, <1>5 DEF Turn
  <2>4. [part(k).slots EXCEPT ![k] = o.slots[k]] = part(k + 1).slots
    <3>1. \A n \in N!Slot : n < k + 1 <=> n < k \/ n = k
      BY <1>1
    <3> QED BY <3>1, <2>1
  <2>5. N!emplace_back(part(k), o.slots[k])
          = [slots |-> [part(k).slots EXCEPT ![k] = o.slots[k]], size |-> k + 1]
    BY DEF N!emplace_back
  <2>6. part(k + 1) = [slots |-> part(k + 1).slots, size |-> k + 1]
    OBVIOUS
  <2> HIDE DEF part
  <2> QED BY <2>3, <2>4, <2>5, <2>6
<1>8. o.size \in N0
  <2>1. N0 \subseteq Nat /\ \A k \in Nat : k \in N0 => k + 1 \in N0
    BY <1>7
  <2> HIDE DEF N0
  <2> QED BY <1>1, <1>6, <2>1, Induction
<1>9. st[o.size] = part(o.size)
  <2>1. o.size <= o.size
    BY <1>1
  <2> HIDE DEF part
  <2> QED BY <2>1, <1>8
<1>10. part(o.size) = o
  <2>1. \A n \in N!Slot : (IF n < o.size THEN o.slots[n] ELSE Raw) = o.slots[n]
    BY <1>1 DEF Vector
  <2>2. part(o.size) = [slots |-> [n \in N!Slot |-> o.slots[n]], size |-> o.size]
    BY <2>1
  <2> HIDE DEF part
  <2> QED BY <2>2 DEF Vector
<1> QED BY <1>3, <1>4, <1>5, <1>9, <1>10

(* A name put in the place of another one. *)
SlotSet(v, p, to, w) == w = [v EXCEPT !.slots[p] = to]

(* replace changes the first slot with the name ... *)
LEMMA ReplacedAt ==
  ASSUME NEW v, Vector(v), NEW from, NEW to, from \in Members(v)
  PROVE  \E p \in 0 .. v.size - 1 :
           /\ v.slots[p] = from /\ \A l \in 0 .. p - 1 : v.slots[l] # from
           /\ SlotSet(v, p, to, N!replace(v, from, to))
<1> DEFINE first(k) == /\ k < v.size /\ v.slots[k] = from
                       /\ \A l \in 0 .. k - 1 : v.slots[l] # from
           p == CHOOSE k \in N!Slot : first(k)
           S == {k \in Nat : k < v.size /\ v.slots[k] = from}
<1>1. /\ v.size \in Nat /\ 0 .. v.size - 1 \subseteq N!Slot /\ N!Slot \subseteq Nat
      /\ N!lists_node(v, from)
  BY ListsNode
<1>2. \E k \in N!Slot : first(k)
  <2>1. S \subseteq Nat /\ S # {}
    <3>1. PICK k \in 0 .. v.size - 1 : v.slots[k] = from
      BY DEF Members
    <3> QED BY <3>1, <1>1
  <2>2. PICK k \in S : \A l \in S : k <= l
    BY <2>1, LeastNumber
  <2>3. \A l \in 0 .. k - 1 : v.slots[l] # from
    BY <2>2, <1>1
  <2>4. k \in N!Slot
    BY <2>2, <1>1
  <2> QED BY <2>2, <2>3, <2>4
<1>3. p \in N!Slot /\ first(p)
  <2> HIDE DEF first
  <2> QED BY <1>2
<1>4. N!replace(v, from, to) = [v EXCEPT !.slots[p] = to]
  BY <1>1 DEF N!replace
<1> HIDE DEF p
<1>5. p \in 0 .. v.size - 1
  BY <1>1, <1>3
<1> QED BY <1>3, <1>4, <1>5 DEF SlotSet

(* A list without the name is left alone. *)
LEMMA ReplacedNone ==
  ASSUME NEW v, Vector(v), NEW from, NEW to, from \notin Members(v)
  PROVE  N!replace(v, from, to) = v
BY ListsNode DEF N!replace

(* A slot in use that gets another name. *)
LEMMA SlotRenamed ==
  ASSUME NEW v, Vector(v), NEW p \in 0 .. v.size - 1, NEW to \in GridNode,
         NEW w, SlotSet(v, p, to, w)
  PROVE  /\ Vector(w) /\ w.size = v.size
         /\ \A k \in N!Slot : w.slots[k] = IF k = p THEN to ELSE v.slots[k]
<1>1. /\ v.size \in Nat /\ 0 .. v.size - 1 \subseteq N!Slot /\ N!Slot \subseteq Nat
      /\ DOMAIN v.slots = N!Slot /\ v = [slots |-> v.slots, size |-> v.size]
  <2>1. v.size \in Nat /\ 0 .. v.size - 1 \subseteq N!Slot /\ N!Slot \subseteq Nat
    BY ListsNode
  <2>2. v = [slots |-> v.slots, size |-> v.size] /\ v.slots = [k \in N!Slot |-> v.slots[k]]
    BY DEF Vector
  <2>3. DOMAIN v.slots = N!Slot
    BY <2>2
  <2> QED BY <2>1, <2>2, <2>3
<1>2. w = [slots |-> [v.slots EXCEPT ![p] = to], size |-> v.size]
  BY <1>1 DEF SlotSet
<1>3. \A k \in N!Slot : w.slots[k] = IF k = p THEN to ELSE v.slots[k]
  BY <1>1, <1>2
<1>4. w.slots = [k \in N!Slot |-> w.slots[k]] /\ w = [slots |-> w.slots, size |-> w.size]
  BY <1>1, <1>2
<1>5. w.size = v.size /\ p < v.size
  BY <1>1, <1>2
<1>6. \A k \in 0 .. v.size - 1 : w.slots[k] \in GridNode
  BY <1>1, <1>3 DEF Vector
<1>7. \A k \in N!Slot : k >= v.size => w.slots[k] = Raw
  BY <1>1, <1>3, <1>5 DEF Vector
<1> QED BY <1>3, <1>4, <1>5, <1>6, <1>7 DEF Vector

(* A list in which a name has taken the place of another one. *)
LEMMA Substituted ==
  ASSUME NEW v, List(v), NEW from \in Members(v), NEW to \in GridNode, to \notin Members(v),
         NEW w, w = [slots |-> w.slots, size |-> v.size],
         w.slots = [k \in N!Slot |-> w.slots[k]],
         \A k \in N!Slot : w.slots[k] = IF k < v.size /\ v.slots[k] = from THEN to ELSE v.slots[k]
  PROVE  List(w) /\ Members(w) = (Members(v) \ {from}) \cup {to}
<1>0. Vector(v)
  BY DEF List
<1>1. /\ v.size \in Nat /\ 0 .. v.size - 1 \subseteq N!Slot /\ N!Slot \subseteq Nat
      /\ w.size = v.size /\ v.size \in 0 .. NeighborCapacity
  <2>1. v.size \in Nat /\ 0 .. v.size - 1 \subseteq N!Slot /\ N!Slot \subseteq Nat
    BY <1>0, ListsNode
  <2>2. v.size \in 0 .. NeighborCapacity
    BY <1>0 DEF Vector
  <2>3. w.size = v.size
    OBVIOUS
  <2> QED BY <2>1, <2>2, <2>3
<1>2. \A k \in 0 .. v.size - 1 : /\ k \in N!Slot /\ k < v.size
                                 /\ v.slots[k] \in GridNode /\ v.slots[k] \in Members(v)
  <2>1. \A k \in 0 .. v.size - 1 : k \in N!Slot /\ k < v.size
    BY <1>1
  <2>2. \A k \in 0 .. v.size - 1 : v.slots[k] \in GridNode
    BY <1>0 DEF Vector
  <2>3. \A k \in 0 .. v.size - 1 : v.slots[k] \in Members(v)
    BY DEF Members
  <2> QED BY <2>1, <2>2, <2>3
<1>3. \A k \in 0 .. v.size - 1 : w.slots[k] = IF v.slots[k] = from THEN to ELSE v.slots[k]
  BY <1>2
<1>4. Vector(w)
  <2>1. \A k \in 0 .. w.size - 1 : w.slots[k] \in GridNode
    BY <1>1, <1>2, <1>3
  <2>2. \A k \in N!Slot : k >= w.size => w.slots[k] = Raw
    <3>1. \A k \in N!Slot : k >= v.size => v.slots[k] = Raw /\ ~(k < v.size)
      BY <1>0, <1>1 DEF Vector
    <3> QED BY <3>1, <1>1
  <2> QED BY <1>1, <2>1, <2>2 DEF Vector
<1>5. \A k, l \in 0 .. w.size - 1 : w.slots[k] = w.slots[l] => k = l
  <2> SUFFICES ASSUME NEW k \in 0 .. v.size - 1, NEW l \in 0 .. v.size - 1, w.slots[k] = w.slots[l]
               PROVE  v.slots[k] = v.slots[l]
    BY <1>1 DEF List
  <2> QED BY <1>2, <1>3
<1>6. Members(w) = (Members(v) \ {from}) \cup {to}
  <2>1. \A y : y \in Members(w) <=> \E k \in 0 .. v.size - 1 : w.slots[k] = y
    BY <1>1 DEF Members
  <2>2. \A y : y \in Members(v) <=> \E k \in 0 .. v.size - 1 : v.slots[k] = y
    BY DEF Members
  <2>3. \A y : y \in Members(w) => y \in (Members(v) \ {from}) \cup {to}
    BY <2>1, <1>2, <1>3
  <2>4. to \in Members(w)
    BY <2>1, <2>2, <1>3
  <2>5. \A y : y \in Members(v) /\ y # from => y \in Members(w)
    BY <2>1, <2>2, <1>3
  <2> QED BY <2>3, <2>4, <2>5
<1> QED BY <1>4, <1>5, <1>6 DEF List

(* A name that is new to a list replaces one of it. *)
LEMMA Replaced ==
  ASSUME NEW v, List(v), NEW from \in Members(v), NEW to \in GridNode, to \notin Members(v)
  PROVE  /\ List(N!replace(v, from, to))
         /\ Members(N!replace(v, from, to)) = (Members(v) \ {from}) \cup {to}
<1> DEFINE w == N!replace(v, from, to)
<1>0. Vector(v)
  BY DEF List
<1>1. PICK p \in 0 .. v.size - 1 :
        v.slots[p] = from /\ SlotSet(v, p, to, w)
  BY <1>0, ReplacedAt
<1> HIDE DEF w
<1>2. /\ Vector(w) /\ w.size = v.size
      /\ \A k \in N!Slot : w.slots[k] = IF k = p THEN to ELSE v.slots[k]
  BY <1>0, <1>1, SlotRenamed
<1>3. w = [slots |-> w.slots, size |-> v.size] /\ w.slots = [k \in N!Slot |-> w.slots[k]]
  BY <1>2 DEF Vector
<1>4. \A k \in N!Slot : w.slots[k] = IF k < v.size /\ v.slots[k] = from THEN to ELSE v.slots[k]
  <2> SUFFICES ASSUME NEW k \in N!Slot PROVE k = p <=> k < v.size /\ v.slots[k] = from
    BY <1>2
  <2>1. v.size \in Nat /\ N!Slot \subseteq Nat
    BY <1>0, ListsNode
  <2>2. k < v.size => k \in 0 .. v.size - 1
    BY <2>1
  <2> QED BY <2>1, <2>2, <1>1 DEF List
<1>5. List(w) /\ Members(w) = (Members(v) \ {from}) \cup {to}
  BY <1>3, <1>4, Substituted
<1> QED BY <1>5 DEF w

(* update_self_neighbors does as much. *)
LEMMA SelfReplaced ==
  ASSUME NEW v, List(v), NEW from \in Members(v), NEW to \in GridNode, to \notin Members(v)
  PROVE  /\ List(N!update_self_neighbors(v, to, from))
         /\ Members(N!update_self_neighbors(v, to, from)) = (Members(v) \ {from}) \cup {to}
<1> DEFINE w == N!update_self_neighbors(v, to, from)
<1>1. v = [slots |-> v.slots, size |-> v.size]
  BY DEF List, Vector
<1>2. w = [v EXCEPT !.slots = [k \in N!Slot |->
                IF k < v.size /\ v.slots[k] = from THEN to ELSE v.slots[k]]]
  BY <1>1 DEF N!update_self_neighbors
<1> HIDE DEF w
<1>3. w = [slots |-> [k \in N!Slot |->
                IF k < v.size /\ v.slots[k] = from THEN to ELSE v.slots[k]], size |-> v.size]
  BY <1>1, <1>2
<1>4. /\ w = [slots |-> w.slots, size |-> v.size] /\ w.slots = [k \in N!Slot |-> w.slots[k]]
      /\ \A k \in N!Slot : w.slots[k] = IF k < v.size /\ v.slots[k] = from THEN to ELSE v.slots[k]
  BY <1>3
<1>5. List(w) /\ Members(w) = (Members(v) \ {from}) \cup {to}
  BY <1>4, Substituted
<1> QED BY <1>5 DEF w

(* A name replaced by itself changes nothing. *)
LEMMA ReplacedSame ==
  ASSUME NEW v, Vector(v), NEW x
  PROVE  N!replace(v, x, x) = v
<1>1. CASE x \notin Members(v)
  BY <1>1, ReplacedNone
<1>2. CASE x \in Members(v)
  <2>1. PICK p \in 0 .. v.size - 1 : v.slots[p] = x /\ SlotSet(v, p, x, N!replace(v, x, x))
    BY <1>2, ReplacedAt
  <2>2. /\ v = [slots |-> v.slots, size |-> v.size]
        /\ v.slots = [k \in N!Slot |-> v.slots[k]]
    BY DEF Vector
  <2>3. [v.slots EXCEPT ![p] = x] = v.slots
    BY <2>1, <2>2
  <2>4. [v EXCEPT !.slots[p] = x] = [slots |-> [v.slots EXCEPT ![p] = x], size |-> v.size]
    BY <2>2
  <2> QED BY <2>1, <2>2, <2>3, <2>4 DEF SlotSet
<1> QED BY <1>1, <1>2

(* A new name in the place of another one can be taken back. *)
LEMMA ReplacedBack ==
  ASSUME NEW v, List(v), NEW i \in Members(v), NEW j \in GridNode, j \notin Members(v)
  PROVE  N!replace(N!replace(v, i, j), j, i) = v
<1> DEFINE w == N!replace(v, i, j)
           u == N!replace(w, j, i)
<1>0. Vector(v) /\ i \in GridNode
  BY ListsNode DEF List
<1>1. PICK p \in 0 .. v.size - 1 :
        v.slots[p] = i /\ SlotSet(v, p, j, w)
  BY <1>0, ReplacedAt
<1> HIDE DEF w
<1>2. /\ Vector(w) /\ w.size = v.size
      /\ \A k \in N!Slot : w.slots[k] = IF k = p THEN j ELSE v.slots[k]
  BY <1>0, <1>1, SlotRenamed
<1>3. 0 .. v.size - 1 \subseteq N!Slot
  BY <1>0, ListsNode
<1>4. j \in Members(w)
  BY <1>1, <1>2, <1>3 DEF Members
<1>5. PICK r \in 0 .. w.size - 1 : w.slots[r] = j /\ SlotSet(w, r, i, u)
  BY <1>2, <1>4, ReplacedAt
<1>6. r = p
  BY <1>2, <1>3, <1>5 DEF Members
<1> HIDE DEF u
<1>7. /\ Vector(u) /\ u.size = v.size
      /\ \A k \in N!Slot : u.slots[k] = IF k = p THEN i ELSE w.slots[k]
  BY <1>0, <1>2, <1>5, <1>6, SlotRenamed
<1>8. \A k \in N!Slot : u.slots[k] = v.slots[k]
  BY <1>1, <1>2, <1>7
<1>9. u = v
  <2>1. u = [slots |-> u.slots, size |-> v.size] /\ u.slots = [k \in N!Slot |-> u.slots[k]]
    BY <1>7 DEF Vector
  <2>2. v = [slots |-> v.slots, size |-> v.size] /\ v.slots = [k \in N!Slot |-> v.slots[k]]
    BY <1>0 DEF Vector
  <2>3. [k \in N!Slot |-> u.slots[k]] = [k \in N!Slot |-> v.slots[k]]
    BY <1>8
  <2> QED BY <2>1, <2>2, <2>3
<1> QED BY <1>9 DEF u, w

(* A list whose elements have changed places. *)
LEMMA Exchanged ==
  ASSUME NEW v, List(v), NEW w, Vector(w), w.size = v.size,
         NEW p \in 0 .. v.size - 1, NEW q \in 0 .. v.size - 1,
         \A k \in 0 .. v.size - 1 :
           w.slots[k] = IF k = p THEN v.slots[q] ELSE IF k = q THEN v.slots[p] ELSE v.slots[k]
  PROVE  List(w) /\ Members(w) = Members(v)
<1> DEFINE t(k) == IF k = p THEN q ELSE IF k = q THEN p ELSE k
<1>1. \A k \in 0 .. v.size - 1 :
        t(k) \in 0 .. v.size - 1 /\ t(t(k)) = k /\ w.slots[k] = v.slots[t(k)]
  OBVIOUS
<1> HIDE DEF t
<1>2. \A k, l \in 0 .. w.size - 1 : w.slots[k] = w.slots[l] => k = l
  <2> SUFFICES ASSUME NEW k \in 0 .. v.size - 1, NEW l \in 0 .. v.size - 1, w.slots[k] = w.slots[l]
               PROVE  k = l
    OBVIOUS
  <2>1. t(k) = t(l)
    BY <1>1 DEF List
  <2> QED BY <2>1, <1>1
<1>3. \A y : y \in Members(w) <=> \E k \in 0 .. v.size - 1 : w.slots[k] = y
  BY DEF Members
<1>4. \A y : y \in Members(v) <=> \E k \in 0 .. v.size - 1 : v.slots[k] = y
  BY DEF Members
<1>5. \A y : y \in Members(w) => y \in Members(v)
  BY <1>1, <1>3, <1>4
<1>6. ASSUME NEW y \in Members(v) PROVE y \in Members(w)
  <2>1. PICK k \in 0 .. v.size - 1 : v.slots[k] = y
    BY <1>4
  <2>2. t(k) \in 0 .. v.size - 1 /\ w.slots[t(k)] = y
    BY <2>1, <1>1
  <2> QED BY <2>2, <1>3
<1> QED BY <1>2, <1>5, <1>6 DEF List

(* In the list of a common neighbour both names change places. *)
LEMMA ReplacedTwice ==
  ASSUME NEW v, List(v), NEW i \in Members(v), NEW j \in Members(v), i # j
  PROVE  /\ List(N!replace(N!replace(v, i, j), j, i))
         /\ Members(N!replace(N!replace(v, i, j), j, i)) = Members(v)
<1> DEFINE w == N!replace(v, i, j)
           u == N!replace(w, j, i)
<1>0. Vector(v) /\ i \in GridNode /\ j \in GridNode
  BY ListsNode DEF List
<1>1. PICK p \in 0 .. v.size - 1 :
        v.slots[p] = i /\ SlotSet(v, p, j, w)
  BY <1>0, ReplacedAt
<1>2. PICK q \in 0 .. v.size - 1 : v.slots[q] = j
  BY DEF Members
<1> HIDE DEF w
<1>3. /\ Vector(w) /\ w.size = v.size
      /\ \A k \in N!Slot : w.slots[k] = IF k = p THEN j ELSE v.slots[k]
  BY <1>0, <1>1, SlotRenamed
<1>4. 0 .. v.size - 1 \subseteq N!Slot
  BY <1>0, ListsNode
<1>5. j \in Members(w)
  BY <1>1, <1>3, <1>4 DEF Members
<1>6. PICK r \in 0 .. w.size - 1 : w.slots[r] = j /\ SlotSet(w, r, i, u)
  BY <1>3, <1>5, ReplacedAt
<1>7. r = p \/ r = q
  BY <1>2, <1>3, <1>4, <1>6 DEF List
<1> HIDE DEF u
<1>8. /\ Vector(u) /\ u.size = v.size
      /\ \A k \in N!Slot : u.slots[k] = IF k = r THEN i ELSE w.slots[k]
  BY <1>0, <1>3, <1>6, SlotRenamed
<1>9. \A k \in 0 .. v.size - 1 :
        u.slots[k] = IF k = r THEN i ELSE IF k = p THEN j ELSE v.slots[k]
  BY <1>3, <1>4, <1>8
<1>10. List(u) /\ Members(u) = Members(v)
  <2>1. CASE r = p
    <3>1. \A k \in 0 .. v.size - 1 :
            u.slots[k] = IF k = p THEN v.slots[p] ELSE IF k = p THEN v.slots[p] ELSE v.slots[k]
      BY <2>1, <1>1, <1>9
    <3> QED BY <3>1, <1>8, Exchanged
  <2>2. CASE r = q
    <3>1. \A k \in 0 .. v.size - 1 :
            u.slots[k] = IF k = p THEN v.slots[q] ELSE IF k = q THEN v.slots[p] ELSE v.slots[k]
      BY <2>2, <1>1, <1>2, <1>9
    <3> QED BY <3>1, <1>8, Exchanged
  <2> QED BY <2>1, <2>2, <1>7
<1> QED BY <1>10 DEF u, w
-----------------------------------------------------------------------------
(* All lists. *)

(* A state of the store in which no assertion has failed. *)
Running(s) ==
  /\ s = [data |-> s.data, failed |-> FALSE]
  /\ s.data = [n \in GridNode |-> s.data[n]]

Linked(s, n, o) == o \in Members(s.data[n])

(* The lists stand for an undirected graph without loops. *)
Sound(s) ==
  /\ Running(s)
  /\ \A n \in GridNode : List(s.data[n])
  /\ \A n, o \in GridNode : Linked(s, n, o) => Linked(s, o, n) /\ n # o

(* has_neighbor looks among the elements. *)
LEMMA HasNeighbor ==
  ASSUME NEW s, NEW n, Vector(s.data[n]), NEW o
  PROVE  N!has_neighbor(s, n, o) <=> Linked(s, n, o)
BY ListsNode DEF N!has_neighbor, Linked

(* An assertion that holds goes unnoticed. *)
LEMMA Asserted ==
  ASSUME NEW s, Running(s), NEW P, P
  PROVE  N!asserts(s, P) = s
<1>1. (FALSE \/ ~P) = FALSE
  OBVIOUS
<1>2. s = [data |-> s.data, failed |-> FALSE]
  BY DEF Running
<1>3. s.failed = FALSE
  BY <1>2
<1>4. [s EXCEPT !.failed = s.failed \/ ~P] = [s EXCEPT !.failed = FALSE]
  BY <1>1, <1>3, Zenon
<1>5. [s EXCEPT !.failed = FALSE] = s
  BY <1>2
<1> QED BY <1>4, <1>5 DEF N!asserts

(* The assertion within has_neighbor holds of links that go both ways. *)
LEMMA AssertedSymmetric ==
  ASSUME NEW s, Running(s), NEW n, NEW o, Vector(s.data[n]), Vector(s.data[o]),
         Linked(s, n, o) => Linked(s, o, n)
  PROVE  N!asserts_symmetric(s, n, o) = s
<1>1. N!has_neighbor(s, n, o) => N!has_neighbor(s, o, n)
  BY HasNeighbor
<1> DEFINE P == N!has_neighbor(s, n, o) => N!has_neighbor(s, o, n)
<1>2. N!asserts_symmetric(s, n, o) = N!asserts(s, P)
  BY DEF N!asserts_symmetric
<1>3. P
  BY <1>1
<1> HIDE DEF P
<1> QED BY <1>2, <1>3, Asserted

(* A list in the place of another one. *)
DataSet(s, n, l, r) == r = [s EXCEPT !.data[n] = l]

(* It changes that list alone. *)
LEMMA DataChanged ==
  ASSUME NEW s, Running(s), NEW n \in GridNode, NEW l, NEW r, DataSet(s, n, l, r)
  PROVE  Running(r) /\ \A a \in GridNode : r.data[a] = IF a = n THEN l ELSE s.data[a]
<1>1. PICK d : d = s.data /\ s = [data |-> d, failed |-> FALSE] /\ d = [a \in GridNode |-> d[a]]
  BY DEF Running
<1>2. r = [[data |-> d, failed |-> FALSE] EXCEPT !.data[n] = l]
  BY <1>1 DEF DataSet
<1>3. r = [data |-> [d EXCEPT ![n] = l], failed |-> FALSE]
  BY <1>2
<1>4. DOMAIN d = GridNode
  BY <1>1
<1>5. r.data = [a \in GridNode |-> IF a = n THEN l ELSE d[a]]
  BY <1>3, <1>4
<1> QED BY <1>1, <1>3, <1>5 DEF Running

(* push changes one list after the other, *)
LEMMA PushSteps ==
  ASSUME NEW s, Running(s), NEW n \in GridNode, NEW o \in GridNode, n # o,
         NEW half, DataSet(s, n, N!emplace_back(s.data[n], o), half)
  PROVE  DataSet(half, o, N!emplace_back(s.data[o], n), N!push(s, n, o))
<1> DEFINE h == [s EXCEPT !.data[n] = N!emplace_back(s.data[n], o)]
<1>1. half = h
  BY DEF DataSet
<1>2. h.data[o] = s.data[o]
  <2>1. half.data[o] = s.data[o]
    BY DataChanged
  <2> QED BY <1>1, <2>1
<1>3. N!push(s, n, o) = [h EXCEPT !.data[o] = N!emplace_back(s.data[o], n)]
  BY <1>2, Zenon DEF N!push
<1> HIDE DEF h
<1> QED BY <1>1, <1>3 DEF DataSet

(* and pop once its assertion holds. *)
LEMMA PopSteps ==
  ASSUME NEW s, Running(s), NEW n \in GridNode, NEW o \in GridNode, n # o,
         N!asserts(s, N!has_neighbor(s, n, o) /\ N!has_neighbor(s, o, n)) = s,
         NEW half, DataSet(s, n, N!remove_if(s.data[n], o), half)
  PROVE  DataSet(half, o, N!remove_if(s.data[o], n), N!pop(s, n, o))
<1> DEFINE t == N!asserts(s, N!has_neighbor(s, n, o) /\ N!has_neighbor(s, o, n))
           h == [t EXCEPT !.data[n] = N!remove_if(t.data[n], o)]
<1>1. t = s
  OBVIOUS
<1>2. half = h
  BY <1>1 DEF DataSet
<1>3. h.data[o] = t.data[o]
  <2>1. half.data[o] = s.data[o]
    BY DataChanged
  <2> QED BY <1>1, <1>2, <2>1
<1>4. N!pop(s, n, o) = [h EXCEPT !.data[o] = N!remove_if(t.data[o], n)]
  BY <1>3, Zenon DEF N!pop
<1> HIDE DEF t, h
<1> QED BY <1>1, <1>2, <1>4 DEF DataSet

(* A link more. *)
LEMMA Pushed ==
  ASSUME NEW s, Sound(s), NEW n \in GridNode, NEW o \in GridNode, n # o, ~Linked(s, n, o),
         s.data[n].size # NeighborCapacity, s.data[o].size # NeighborCapacity
  PROVE  /\ Sound(N!push(s, n, o))
         /\ \A a, b \in GridNode : Linked(N!push(s, n, o), a, b)
              <=> Linked(s, a, b) \/ <<a, b>> \in {<<n, o>>, <<o, n>>}
<1> DEFINE r == N!push(s, n, o)
           atn == N!emplace_back(s.data[n], o)
           ato == N!emplace_back(s.data[o], n)
<1>1. /\ Running(s)
      /\ \A a \in GridNode : List(s.data[a])
      /\ \A a, b \in GridNode : Linked(s, a, b) => Linked(s, b, a) /\ a # b
  BY DEF Sound
<1>2. /\ List(atn) /\ Members(atn) = Members(s.data[n]) \cup {o}
      /\ List(ato) /\ Members(ato) = Members(s.data[o]) \cup {n}
  <2>1. o \notin Members(s.data[n]) /\ n \notin Members(s.data[o])
    BY <1>1 DEF Linked
  <2> QED BY <1>1, <2>1, Appended
<1>3. PICK half : DataSet(s, n, atn, half)
  BY DEF DataSet
<1>4. /\ Running(half)
      /\ \A a \in GridNode : half.data[a] = IF a = n THEN atn ELSE s.data[a]
  BY <1>1, <1>3, DataChanged
<1>5. DataSet(half, o, ato, r)
  BY <1>1, <1>3, PushSteps
<1> HIDE DEF r, atn, ato
<1>6. /\ Running(r)
      /\ \A a \in GridNode : r.data[a] = IF a = o THEN ato ELSE half.data[a]
  BY <1>4, <1>5, DataChanged
<1>7. \A a \in GridNode : r.data[a] = IF a = o THEN ato ELSE IF a = n THEN atn ELSE s.data[a]
  BY <1>4, <1>6
<1>8. \A a, b \in GridNode :
        Linked(r, a, b) <=> Linked(s, a, b) \/ (a = n /\ b = o) \/ (a = o /\ b = n)
  BY <1>2, <1>7 DEF Linked
<1>9. \A a \in GridNode : List(r.data[a])
  BY <1>1, <1>2, <1>7
<1>10. \A a, b \in GridNode : Linked(r, a, b) => Linked(r, b, a) /\ a # b
  BY <1>1, <1>8
<1>11. \A a, b \in GridNode : <<a, b>> \in {<<n, o>>, <<o, n>>} <=> (a = n /\ b = o) \/ (a = o /\ b = n)
  OBVIOUS
<1>12. Sound(r)
  BY <1>6, <1>9, <1>10 DEF Sound
<1>13. \A a, b \in GridNode :
         Linked(r, a, b) <=> Linked(s, a, b) \/ <<a, b>> \in {<<n, o>>, <<o, n>>}
  BY <1>8, <1>11
<1> QED BY <1>12, <1>13 DEF r

(* A link less. *)
LEMMA Popped ==
  ASSUME NEW s, Sound(s), NEW n \in GridNode, NEW o \in GridNode, Linked(s, n, o)
  PROVE  /\ Sound(N!pop(s, n, o))
         /\ \A a, b \in GridNode : Linked(N!pop(s, n, o), a, b)
              <=> Linked(s, a, b) /\ <<a, b>> \notin {<<n, o>>, <<o, n>>}
<1> DEFINE r == N!pop(s, n, o)
           atn == N!remove_if(s.data[n], o)
           ato == N!remove_if(s.data[o], n)
           P == N!has_neighbor(s, n, o) /\ N!has_neighbor(s, o, n)
<1>1. /\ Running(s)
      /\ \A a \in GridNode : List(s.data[a])
      /\ \A a, b \in GridNode : Linked(s, a, b) => Linked(s, b, a) /\ a # b
  BY DEF Sound
<1>2. /\ List(atn) /\ Members(atn) = Members(s.data[n]) \ {o}
      /\ List(ato) /\ Members(ato) = Members(s.data[o]) \ {n}
  BY <1>1, Removed
<1>3. N!asserts(s, P) = s
  <2>1. P
    <3>1. Vector(s.data[n]) /\ Vector(s.data[o]) /\ Linked(s, o, n)
      BY <1>1 DEF List
    <3> QED BY <3>1, HasNeighbor
  <2> HIDE DEF P
  <2> QED BY <2>1, <1>1, Asserted
<1>4. n # o /\ Linked(s, o, n)
  BY <1>1
<1>5. PICK half : DataSet(s, n, atn, half)
  BY DEF DataSet
<1>6. /\ Running(half)
      /\ \A a \in GridNode : half.data[a] = IF a = n THEN atn ELSE s.data[a]
  BY <1>1, <1>5, DataChanged
<1>7. DataSet(half, o, ato, r)
  BY <1>1, <1>3, <1>4, <1>5, PopSteps
<1> HIDE DEF r, atn, ato, P
<1>8. /\ Running(r)
      /\ \A a \in GridNode : r.data[a] = IF a = o THEN ato ELSE half.data[a]
  BY <1>6, <1>7, DataChanged
<1>9. \A a \in GridNode : r.data[a] = IF a = o THEN ato ELSE IF a = n THEN atn ELSE s.data[a]
  BY <1>6, <1>8
<1>10. \A a, b \in GridNode :
         Linked(r, a, b) <=> Linked(s, a, b) /\ ~(a = n /\ b = o) /\ ~(a = o /\ b = n)
  BY <1>2, <1>4, <1>9 DEF Linked
<1>11. \A a \in GridNode : List(r.data[a])
  BY <1>1, <1>2, <1>9
<1>12. \A a, b \in GridNode : Linked(r, a, b) => Linked(r, b, a) /\ a # b
  BY <1>1, <1>10
<1>13. \A a, b \in GridNode : <<a, b>> \in {<<n, o>>, <<o, n>>} <=> (a = n /\ b = o) \/ (a = o /\ b = n)
  OBVIOUS
<1>14. Sound(r)
  BY <1>8, <1>11, <1>12 DEF Sound
<1>15. \A a, b \in GridNode :
         Linked(r, a, b) <=> Linked(s, a, b) /\ <<a, b>> \notin {<<n, o>>, <<o, n>>}
  BY <1>10, <1>13
<1> QED BY <1>14, <1>15 DEF r

(* The links taken back up to a turn. *)
Before(slots, k, n, a, b) ==
  \E l \in 0 .. k - 1 : (a = n /\ b = slots[l]) \/ (a = slots[l] /\ b = n)

(* The links of a node are gone. *)
LEMMA PoppedAll ==
  ASSUME NEW s, Sound(s), NEW n \in GridNode
  PROVE  /\ Sound(N!pop_all(s, n))
         /\ \A a, b \in GridNode :
              Linked(N!pop_all(s, n), a, b) <=> Linked(s, a, b) /\ a # n /\ b # n
<1> DEFINE slots == s.data[n].slots
           z == s.data[n].size
           seq == N!elements(s.data[n])
<1>1. /\ Running(s)
      /\ \A a \in GridNode : List(s.data[a])
      /\ \A a, b \in GridNode : Linked(s, a, b) => Linked(s, b, a) /\ a # b
  BY DEF Sound
<1>2. z \in Nat
  BY <1>1, ListsNode DEF List
<1>3. DOMAIN seq = 1 .. z /\ \A k \in 1 .. z : seq[k] = slots[k - 1]
  BY DEF N!elements
<1>4. /\ \A l \in 0 .. z - 1 : slots[l] \in GridNode /\ Linked(s, n, slots[l])
      /\ \A b \in GridNode : Linked(s, n, b) => \E l \in 0 .. z - 1 : b = slots[l]
      /\ \A k, l \in 0 .. z - 1 : slots[k] = slots[l] => k = l
  <2>1. List(s.data[n])
    BY <1>1
  <2> QED BY <2>1 DEF List, Vector, Linked, Members
<1> DEFINE folded == Folded("pop", n, 0, 0, s, seq, 1 .. z)
<1>5. N!pop_all(s, n) = N!asserts(folded, folded.data[n].size = 0)
  BY <1>3, TheFolds
<1> HIDE DEF seq, z
<1>6. PICK st : /\ st[0] = s
                /\ \A k \in 1 .. z : st[k] = Turn("pop", n, 0, 0, st[k - 1], seq[k])
                /\ folded = st[z]
  BY <1>2, FoldSteps
<1> HIDE DEF folded, slots
<1>7. \A k \in 1 .. z : st[k] = N!pop(st[k - 1], n, slots[k - 1])
  BY <1>3, <1>6 DEF Turn
<1> DEFINE Q(k) == /\ Sound(st[k])
                   /\ \A a, b \in GridNode :
                        Linked(st[k], a, b) <=> Linked(s, a, b) /\ ~Before(slots, k, n, a, b)
           S == {k \in Nat : k <= z => Q(k)}
<1>8. Q(0)
  BY <1>6 DEF Before
<1>9. ASSUME NEW k \in Nat, k + 1 <= z, Q(k) PROVE Q(k + 1)
  <2> DEFINE r == st[k]
             q == st[k + 1]
             o == slots[k]
  <2>1. q = N!pop(r, n, o)
    <3>1. k + 1 \in 1 .. z /\ (k + 1) - 1 = k
      BY <1>2, <1>9
    <3> QED BY <3>1, <1>7
  <2>2. k \in 0 .. z - 1
    BY <1>2, <1>9
  <2>3. o \in GridNode /\ Linked(s, n, o) /\ n # o
    BY <2>2, <1>1, <1>4
  <2>4. ~Before(slots, k, n, n, o)
    <3> SUFFICES ASSUME NEW l \in 0 .. k - 1, (n = n /\ o = slots[l]) \/ (n = slots[l] /\ o = n) PROVE FALSE
      BY DEF Before
    <3>1. slots[l] = slots[k] /\ l \in 0 .. z - 1 /\ l # k
      BY <2>2, <2>3, <1>2
    <3> QED BY <3>1, <2>2, <1>4
  <2>5. Linked(r, n, o)
    BY <1>9, <2>3, <2>4
  <2>6. Sound(r)
    BY <1>9
  <2> HIDE DEF r, q
  <2>7. /\ Sound(q)
        /\ \A a, b \in GridNode : Linked(q, a, b)
             <=> Linked(r, a, b) /\ <<a, b>> \notin {<<n, o>>, <<o, n>>}
    BY <2>1, <2>3, <2>5, <2>6, Popped
  <2>8. \A a, b \in GridNode : Before(slots, k + 1, n, a, b)
          <=> Before(slots, k, n, a, b) \/ <<a, b>> \in {<<n, o>>, <<o, n>>}
    <3> SUFFICES ASSUME NEW a \in GridNode, NEW b \in GridNode
                 PROVE  Before(slots, k + 1, n, a, b)
                          <=> Before(slots, k, n, a, b) \/ (a = n /\ b = o) \/ (a = o /\ b = n)
      OBVIOUS
    <3>1. 0 .. (k + 1) - 1 = (0 .. k - 1) \cup {k}
      OBVIOUS
    <3> QED BY <3>1 DEF Before
  <2>9. \A a, b \in GridNode :
          Linked(r, a, b) <=> Linked(s, a, b) /\ ~Before(slots, k, n, a, b)
    BY <1>9 DEF r
  <2>10. \A a, b \in GridNode :
          Linked(q, a, b) <=> Linked(s, a, b) /\ ~Before(slots, k + 1, n, a, b)
    BY <2>7, <2>8, <2>9, Zenon
  <2> QED BY <2>7, <2>10 DEF q
<1>10. Q(z)
  <2>1. 0 \in S
    BY <1>8
  <2>2. \A k \in Nat : k \in S => k + 1 \in S
    <3> SUFFICES ASSUME NEW k \in Nat, k \in S, k + 1 <= z PROVE Q(k + 1)
      <4> HIDE DEF Q
      <4> QED OBVIOUS
    <3>1. k <= z
      BY <1>2
    <3>2. Q(k)
      <4> HIDE DEF Q
      <4> QED BY <3>1
    <3> HIDE DEF Q
    <3> QED BY <3>2, <1>9
  <2>3. S \subseteq Nat
    OBVIOUS
  <2> HIDE DEF S
  <2>4. Nat \subseteq S
    BY <2>1, <2>2, <2>3, Induction
  <2>5. z \in S /\ z <= z
    BY <1>2, <2>4
  <2> HIDE DEF Q
  <2> QED BY <2>5 DEF S
<1> DEFINE r == st[z]
<1>11. Sound(r)
  BY <1>10
<1>12. \A a, b \in GridNode : Linked(r, a, b) <=> Linked(s, a, b) /\ a # n /\ b # n
  <2> SUFFICES ASSUME NEW a \in GridNode, NEW b \in GridNode, Linked(s, a, b)
               PROVE  Before(slots, z, n, a, b) <=> a = n \/ b = n
    BY <1>10
  <2>1. Before(slots, z, n, a, b) => a = n \/ b = n
    BY DEF Before
  <2>2. a = n => \E l \in 0 .. z - 1 : b = slots[l]
    BY <1>4
  <2>3. b = n => \E l \in 0 .. z - 1 : a = slots[l]
    <3>1. Linked(s, b, a)
      BY <1>1
    <3> QED BY <3>1, <1>4
  <2> QED BY <2>1, <2>2, <2>3 DEF Before
<1> HIDE DEF r
<1>13. r.data[n].size = 0
  <2>1. Vector(r.data[n])
    BY <1>11 DEF Sound, List
  <2>2. \A k \in 0 .. r.data[n].size - 1 :
          r.data[n].slots[k] \in GridNode /\ Linked(r, n, r.data[n].slots[k])
    BY <2>1 DEF Vector, Linked, Members
  <2>3. \A k \in 0 .. r.data[n].size - 1 : FALSE
    BY <2>2, <1>12
  <2>4. r.data[n].size \in Nat
    BY <2>1, ListsNode
  <2>5. ~(0 \in 0 .. r.data[n].size - 1)
    BY <2>3
  <2> QED BY <2>4, <2>5
<1>14. N!asserts(r, r.data[n].size = 0) = r
  BY <1>11, <1>13, Asserted DEF Sound
<1>15. N!pop_all(s, n) = r
  BY <1>5, <1>6, <1>14 DEF r
<1> QED BY <1>11, <1>12, <1>15

(* replace keeps the size of a list. *)
LEMMA ReplacedVector ==
  ASSUME NEW v, Vector(v), NEW from, NEW to \in GridNode
  PROVE  Vector(N!replace(v, from, to)) /\ N!replace(v, from, to).size = v.size
<1>1. CASE from \notin Members(v)
  BY <1>1, ReplacedNone
<1>2. CASE from \in Members(v)
  <2>1. PICK p \in 0 .. v.size - 1 : SlotSet(v, p, to, N!replace(v, from, to))
    BY <1>2, ReplacedAt
  <2> QED BY <2>1, SlotRenamed
<1> QED BY <1>1, <1>2

(* In a list without repetition the slots behind the name are as they were. *)
LEMMA ReplacedBefore ==
  ASSUME NEW v, List(v), NEW from, NEW to \in GridNode,
         NEW k \in 0 .. v.size - 1, \E l \in 0 .. k - 1 : v.slots[l] = from
  PROVE  N!replace(v, from, to).slots[k] = v.slots[k]
<1>1. Vector(v)
  BY DEF List
<1>2. v.size \in Nat /\ 0 .. v.size - 1 \subseteq N!Slot
  BY <1>1, ListsNode
<1>3. PICK l \in 0 .. k - 1 : v.slots[l] = from
  OBVIOUS
<1>4. from \in Members(v)
  <2>1. l \in 0 .. v.size - 1
    BY <1>2
  <2> QED BY <1>3, <2>1 DEF Members
<1>5. PICK p \in 0 .. v.size - 1 :
        v.slots[p] = from /\ SlotSet(v, p, to, N!replace(v, from, to))
  BY <1>1, <1>4, ReplacedAt
<1>6. p = l /\ p # k
  <2>1. l \in 0 .. v.size - 1 /\ l # k
    BY <1>2
  <2> QED BY <2>1, <1>3, <1>5 DEF List
<1>7. k \in N!Slot
  BY <1>2
<1> QED BY <1>1, <1>5, <1>6, <1>7, SlotRenamed

(* A turn of update_neighbors. *)
LEMMA Renames ==
  ASSUME NEW r, Running(r), NEW of \in GridNode, NEW to \in GridNode,
         \A a \in GridNode : Vector(r.data[a]),
         NEW x \in 0 .. r.data[of].size - 1, Linked(r, r.data[of].slots[x], of)
  PROVE  LET n == r.data[of].slots[x]
         IN  DataSet(r, n, N!replace(r.data[n], of, to), Turn("rename", of, of, to, r, x))
<1> DEFINE n == r.data[of].slots[x]
           t == N!asserts(N!asserts_symmetric(r, n, of), N!has_neighbor(r, n, of))
<1>1. n \in GridNode /\ Linked(r, of, n)
  BY DEF Vector, Linked, Members
<1>2. Linked(r, n, of)
  OBVIOUS
<1>3. Turn("rename", of, of, to, r, x) = [t EXCEPT !.data[n] = N!replace(t.data[n], of, to)]
  BY Zenon DEF Turn
<1> HIDE DEF n
<1>4. t = r
  <2>1. N!asserts_symmetric(r, n, of) = r
    BY <1>1, AssertedSymmetric
  <2>2. N!has_neighbor(r, n, of)
    BY <1>1, <1>2, HasNeighbor
  <2> QED BY <2>1, <2>2, Asserted
<1> HIDE DEF t
<1>5. DataSet(r, n, N!replace(r.data[n], of, to), Turn("rename", of, of, to, r, x))
  BY <1>3, <1>4 DEF DataSet
<1> QED BY <1>5 DEF n

(* The lists of the neighbours of a node, its own among them or not. *)
LEMMA UpdatedNeighbors ==
  ASSUME NEW s, Running(s), NEW of \in GridNode, NEW to \in GridNode,
         List(s.data[of]), \A a \in GridNode : Vector(s.data[a]),
         \A a \in Members(s.data[of]) : Linked(s, a, of)
  PROVE  /\ Running(N!update_neighbors(s, of, of, to))
         /\ \A a \in GridNode : N!update_neighbors(s, of, of, to).data[a]
              = IF a \in Members(s.data[of]) THEN N!replace(s.data[a], of, to) ELSE s.data[a]
<1> DEFINE v == s.data[of]
           z == v.size
           seq == [k \in 1 .. z |-> k - 1]
<1>1. z \in Nat /\ 0 .. z - 1 \subseteq N!Slot
  <2>1. Vector(v)
    BY DEF List
  <2> QED BY <2>1, ListsNode
<1>2. /\ \A l \in 0 .. z - 1 : v.slots[l] \in GridNode /\ Linked(s, v.slots[l], of)
      /\ \A a : a \in Members(v) <=> \E l \in 0 .. z - 1 : a = v.slots[l]
      /\ \A k, l \in 0 .. z - 1 : v.slots[k] = v.slots[l] => k = l
  BY DEF List, Vector, Members
<1> DEFINE folded == Folded("rename", of, of, to, s, seq, 1 .. z)
<1>3. N!update_neighbors(s, of, of, to) = folded
  BY TheFolds
<1>4. DOMAIN seq = 1 .. z /\ \A k \in 1 .. z : seq[k] = k - 1
  OBVIOUS
<1> HIDE DEF seq, z
<1>5. PICK st : /\ st[0] = s
                /\ \A k \in 1 .. z : st[k] = Turn("rename", of, of, to, st[k - 1], seq[k])
                /\ folded = st[z]
  BY <1>1, FoldSteps
<1> HIDE DEF folded, v
<1>6. \A k \in 1 .. z : st[k] = Turn("rename", of, of, to, st[k - 1], k - 1)
  BY <1>4, <1>5
<1> DEFINE W(a) == N!replace(s.data[a], of, to)
           Q(k) == /\ Running(st[k])
                   /\ \A a \in GridNode : st[k].data[a]
                        = IF \E l \in 0 .. k - 1 : a = v.slots[l] THEN W(a) ELSE s.data[a]
           S == {k \in Nat : k <= z => Q(k)}
<1>7. Q(0)
  <2>1. \A l \in 0 .. 0 - 1 : FALSE
    OBVIOUS
  <2> HIDE DEF W
  <2> QED BY <2>1, <1>5
<1>8. \A a \in GridNode : Vector(W(a)) /\ W(a).size = s.data[a].size
  BY ReplacedVector
<1>9. ASSUME NEW k \in Nat, k + 1 <= z, Q(k) PROVE Q(k + 1)
  <2> DEFINE r == st[k]
             q == st[k + 1]
             n == v.slots[k]
  <2>1. q = Turn("rename", of, of, to, r, k)
    <3>1. k + 1 \in 1 .. z /\ (k + 1) - 1 = k
      BY <1>1, <1>9
    <3> QED BY <3>1, <1>6
  <2>2. k \in 0 .. z - 1
    BY <1>1, <1>9
  <2>3. n \in GridNode /\ Linked(s, n, of)
    BY <2>2, <1>2
  <2>4. ~\E l \in 0 .. k - 1 : n = v.slots[l]
    <3> SUFFICES ASSUME NEW l \in 0 .. k - 1, n = v.slots[l] PROVE FALSE
      OBVIOUS
    <3>1. l \in 0 .. z - 1 /\ l # k
      BY <2>2, <1>1
    <3> QED BY <3>1, <2>2, <1>2
  <2>5. Running(r) /\ \A a \in GridNode :
          r.data[a] = IF \E l \in 0 .. k - 1 : a = v.slots[l] THEN W(a) ELSE s.data[a]
    BY <1>9
  <2> HIDE DEF r, q, W
  <2>6. \A a \in GridNode : Vector(r.data[a]) /\ r.data[a].size = s.data[a].size
    BY <1>8, <2>5
  <2>7. r.data[of].slots[k] = n
    <3>1. CASE \E l \in 0 .. k - 1 : of = v.slots[l]
      <4>1. N!replace(v, of, to).slots[k] = v.slots[k]
        <5>1. List(v) /\ k \in 0 .. v.size - 1 /\ \E l \in 0 .. k - 1 : v.slots[l] = of
          BY <2>2, <3>1 DEF v, z
        <5> QED BY <5>1, ReplacedBefore
      <4>2. r.data[of] = W(of)
        BY <2>5, <3>1
      <4> QED BY <4>1, <4>2 DEF W, v
    <3>2. CASE ~\E l \in 0 .. k - 1 : of = v.slots[l]
      BY <2>5, <3>2 DEF v
    <3> QED BY <3>1, <3>2
  <2>8. k \in 0 .. r.data[of].size - 1
    BY <2>2, <2>6 DEF v, z
  <2>9. r.data[n] = s.data[n]
    BY <2>3, <2>4, <2>5
  <2>10. Linked(r, n, of)
    BY <2>3, <2>9 DEF Linked
  <2>11. DataSet(r, n, W(n), q)
    <3>1. LET y == r.data[of].slots[k]
          IN  DataSet(r, y, N!replace(r.data[y], of, to), Turn("rename", of, of, to, r, k))
      <4>1. Linked(r, r.data[of].slots[k], of)
        BY <2>7, <2>10
      <4> QED BY <4>1, <2>5, <2>6, <2>8, Renames
    <3>2. DataSet(r, n, N!replace(r.data[n], of, to), Turn("rename", of, of, to, r, k))
      BY <3>1, <2>7
    <3> QED BY <3>2, <2>1, <2>9 DEF W
  <2> HIDE DEF n
  <2>12. Running(q) /\ \A a \in GridNode : q.data[a] = IF a = n THEN W(n) ELSE r.data[a]
    BY <2>3, <2>5, <2>11, DataChanged
  <2>13. \A a \in GridNode : (\E l \in 0 .. (k + 1) - 1 : a = v.slots[l])
           <=> a = n \/ \E l \in 0 .. k - 1 : a = v.slots[l]
    <3>1. 0 .. (k + 1) - 1 = (0 .. k - 1) \cup {k}
      OBVIOUS
    <3> QED BY <3>1 DEF n
  <2>14. \A a \in GridNode :
           q.data[a] = IF \E l \in 0 .. (k + 1) - 1 : a = v.slots[l] THEN W(a) ELSE s.data[a]
    BY <2>5, <2>12, <2>13
  <2> QED BY <2>12, <2>14 DEF q
<1>10. Q(z)
  <2>1. 0 \in S
    BY <1>7
  <2>2. \A k \in Nat : k \in S => k + 1 \in S
    <3> SUFFICES ASSUME NEW k \in Nat, k \in S, k + 1 <= z PROVE Q(k + 1)
      <4> HIDE DEF Q
      <4> QED OBVIOUS
    <3>1. k <= z
      BY <1>1
    <3>2. Q(k)
      <4> HIDE DEF Q
      <4> QED BY <3>1
    <3> HIDE DEF Q
    <3> QED BY <3>2, <1>9
  <2>3. S \subseteq Nat
    OBVIOUS
  <2> HIDE DEF S
  <2>4. Nat \subseteq S
    BY <2>1, <2>2, <2>3, Induction
  <2>5. z \in S /\ z <= z
    BY <1>1, <2>4
  <2> HIDE DEF Q
  <2> QED BY <2>5 DEF S
<1> HIDE DEF W
<1>11. Running(folded) /\ \A a \in GridNode :
         folded.data[a] = IF a \in Members(v) THEN W(a) ELSE s.data[a]
  BY <1>2, <1>5, <1>10
<1> QED BY <1>3, <1>11 DEF W, v

(* The name of a node after two have been exchanged. *)
Renamed(i, j, a) == IF a = i THEN j ELSE IF a = j THEN i ELSE a

(* Lists for all nodes, *)
Whole(d) == d = [a \in GridNode |-> d[a]]

(* ... those of two nodes exchanged, *)
SwappedTo(d, i, j, e) == e = [a \in GridNode |-> d[Renamed(i, j, a)]]

(* ... and those of all nodes but some with the two names exchanged. *)
OthersRenamed(s, i, j, d, T) ==
  \A a \in GridNode \ T :
    /\ List(d[a])
    /\ \A b \in GridNode : b \in Members(d[a]) <=> Linked(s, a, Renamed(i, j, b))

(* clear leaves raw slots. *)
LEMMA Cleared ==
  ASSUME NEW v, Vector(v)
  PROVE  Vector(N!clear(v))
<1>1. N!Slot = 0 .. NeighborCapacity - 1 /\ NeighborCapacity \in Nat /\ v.size \in Nat
  BY ListsNode
<1>2. N!clear(v) = [slots |-> [k \in N!Slot |-> IF k \in 0 .. v.size - 1 THEN Raw ELSE v.slots[k]],
                    size |-> 0]
  BY DEF N!clear, N!erase
<1>3. \A k \in N!Slot : k \notin 0 .. v.size - 1 => v.slots[k] = Raw
  BY <1>1 DEF Vector
<1> QED BY <1>1, <1>2, <1>3 DEF Vector

(* The swap of the lists themselves, of a node with itself as well. *)
LEMMA SwappedLists ==
  ASSUME NEW d, Whole(d), \A a \in GridNode : Vector(d[a]),
         NEW i \in GridNode, NEW j \in GridNode
  PROVE  SwappedTo(d, i, j, N!swap_lists(d, i, j))
<1> DEFINE at == IF i = j THEN N!clear(d[i]) ELSE N!assign(d[i], d[j])
           first == [d EXCEPT ![i] = at]
           last == N!assign(first[j], d[i])
<1>1. N!swap_lists(d, i, j) = [first EXCEPT ![j] = last]
  BY Zenon DEF N!swap_lists
<1>2. i # j => at = d[j]
  BY Copied
<1>3. Vector(at)
  BY <1>2, Cleared
<1> HIDE DEF at
<1>4. DOMAIN d = GridNode
  BY DEF Whole
<1>5. first = [a \in GridNode |-> IF a = i THEN at ELSE d[a]]
  BY <1>4
<1>6. Vector(first[j])
  BY <1>3, <1>5
<1> HIDE DEF first
<1>7. last = d[i]
  BY <1>6, Copied
<1> HIDE DEF last
<1>8. [first EXCEPT ![j] = last] = [a \in GridNode |-> IF a = j THEN last ELSE first[a]]
  BY <1>5
<1>9. \A a \in GridNode :
        (IF a = j THEN last ELSE first[a]) = d[Renamed(i, j, a)]
  BY <1>2, <1>5, <1>7 DEF Renamed
<1> QED BY <1>1, <1>8, <1>9 DEF SwappedTo

(* The name that replace puts there is there. *)
LEMMA ReplacedHas ==
  ASSUME NEW v, Vector(v), NEW from \in Members(v), NEW to \in GridNode
  PROVE  to \in Members(N!replace(v, from, to))
<1>1. PICK p \in 0 .. v.size - 1 : SlotSet(v, p, to, N!replace(v, from, to))
  BY ReplacedAt
<1> DEFINE w == N!replace(v, from, to)
<1> HIDE DEF w
<1>2. /\ w.size = v.size
      /\ \A k \in N!Slot : w.slots[k] = IF k = p THEN to ELSE v.slots[k]
  BY <1>1, SlotRenamed DEF w
<1>3. p \in N!Slot
  BY ListsNode
<1>4. to \in Members(w)
  BY <1>2, <1>3 DEF Members
<1> QED BY <1>4 DEF w

(* The lists of the others after both passes: a common neighbour keeps its   *)
(* neighbours, the lists of the two are as they were.                        *)
LEMMA RenamedLists ==
  ASSUME NEW s, Sound(s), NEW i \in GridNode, NEW j \in GridNode, i # j
  PROVE  LET r == N!update_neighbors(N!update_neighbors(s, i, i, j), j, j, i)
         IN  /\ Running(r)
             /\ r.data[i] = s.data[i] /\ r.data[j] = s.data[j]
             /\ OthersRenamed(s, i, j, r.data, {i, j})
<1> DEFINE D(a) == s.data[a]
           q == N!update_neighbors(s, i, i, j)
           E(a) == q.data[a]
           r == N!update_neighbors(q, j, j, i)
           F(a) == r.data[a]
<1>1. /\ Running(s)
      /\ \A a \in GridNode : List(D(a)) /\ Vector(D(a)) /\ Members(D(a)) \subseteq GridNode
      /\ \A a, b \in GridNode : b \in Members(D(a)) => a \in Members(D(b)) /\ a # b
  BY ListsNode DEF Sound, List, Linked
<1>2. /\ Running(q)
      /\ \A a \in GridNode :
           E(a) = IF a \in Members(D(i)) THEN N!replace(D(a), i, j) ELSE D(a)
  <2>1. \A a \in Members(s.data[i]) : Linked(s, a, i)
    BY <1>1 DEF Linked
  <2> QED BY <1>1, <2>1, UpdatedNeighbors
<1>3. \A a \in GridNode : Vector(E(a))
  BY <1>1, <1>2, ReplacedVector
<1>4. /\ List(E(j))
      /\ Members(E(j)) = IF i \in Members(D(j)) THEN (Members(D(j)) \ {i}) \cup {j} ELSE Members(D(j))
  <2>1. CASE i \in Members(D(j))
    <3>1. j \in Members(D(i)) /\ j \notin Members(D(j))
      BY <1>1, <2>1
    <3>2. E(j) = N!replace(D(j), i, j)
      BY <1>2, <3>1
    <3> QED BY <1>1, <2>1, <3>1, <3>2, Replaced
  <2>2. CASE i \notin Members(D(j))
    <3>1. E(j) = D(j)
      BY <1>1, <1>2, <2>2
    <3> QED BY <1>1, <2>2, <3>1
  <2> QED BY <2>1, <2>2
<1>5. \A a \in Members(E(j)) : Linked(q, a, j)
  <2> SUFFICES ASSUME NEW a \in Members(E(j)) PROVE j \in Members(E(a))
    BY DEF Linked
  <2>1. CASE a = j
    BY <2>1
  <2>2. CASE a # j
    <3>1. a \in Members(D(j)) /\ a \in GridNode /\ j \in Members(D(a))
      BY <1>1, <1>4, <2>2
    <3>2. CASE a \in Members(D(i))
      <4>1. i \in Members(D(a)) /\ E(a) = N!replace(D(a), i, j)
        BY <1>1, <1>2, <3>1, <3>2
      <4>2. Vector(D(a))
        BY <1>1, <3>1
      <4> QED BY <4>1, <4>2, ReplacedHas
    <3>3. CASE a \notin Members(D(i))
      BY <1>2, <3>1, <3>3
    <3> QED BY <3>2, <3>3
  <2> QED BY <2>1, <2>2
<1>6. /\ Running(r)
      /\ \A a \in GridNode :
           F(a) = IF a \in Members(E(j)) THEN N!replace(E(a), j, i) ELSE E(a)
  <2> HIDE DEF q
  <2> QED BY <1>2, <1>3, <1>4, <1>5, UpdatedNeighbors
<1> HIDE DEF q, r
<1>7. F(i) = D(i)
  <2>1. i \notin Members(E(j)) /\ i \notin Members(D(i))
    BY <1>1, <1>4
  <2> QED BY <2>1, <1>2, <1>6
<1>8. F(j) = D(j)
  <2>1. CASE i \in Members(D(j))
    <3>1. j \in Members(D(i)) /\ j \notin Members(D(j)) /\ j \in Members(E(j))
      BY <1>1, <1>4, <2>1
    <3>2. F(j) = N!replace(N!replace(D(j), i, j), j, i)
      BY <1>2, <1>6, <3>1
    <3> QED BY <1>1, <2>1, <3>1, <3>2, ReplacedBack
  <2>2. CASE i \notin Members(D(j))
    <3>1. j \notin Members(D(i)) /\ j \notin Members(D(j)) /\ j \notin Members(E(j))
      BY <1>1, <1>4, <2>2
    <3> QED BY <1>2, <1>6, <3>1
  <2> QED BY <2>1, <2>2
<1>9. ASSUME NEW a \in GridNode \ {i, j}
      PROVE  /\ List(F(a))
             /\ \A b \in GridNode : b \in Members(F(a)) <=> Renamed(i, j, b) \in Members(D(a))
  <2>1. /\ a \in Members(D(i)) <=> i \in Members(D(a))
        /\ a \in Members(E(j)) <=> j \in Members(D(a))
        /\ List(D(a))
    BY <1>1, <1>4
  <2>2. /\ E(a) = IF i \in Members(D(a)) THEN N!replace(D(a), i, j) ELSE D(a)
        /\ F(a) = IF j \in Members(D(a)) THEN N!replace(E(a), j, i) ELSE E(a)
    BY <1>2, <1>6, <2>1
  <2>3. CASE i \in Members(D(a)) /\ j \in Members(D(a))
    <3>1. List(F(a)) /\ Members(F(a)) = Members(D(a))
      BY <2>1, <2>2, <2>3, ReplacedTwice
    <3> QED BY <2>3, <3>1 DEF Renamed
  <2>4. CASE i \in Members(D(a)) /\ j \notin Members(D(a))
    <3>1. List(F(a)) /\ Members(F(a)) = (Members(D(a)) \ {i}) \cup {j}
      BY <2>1, <2>2, <2>4, Replaced
    <3> QED BY <2>4, <3>1 DEF Renamed
  <2>5. CASE i \notin Members(D(a)) /\ j \in Members(D(a))
    <3>1. List(F(a)) /\ Members(F(a)) = (Members(D(a)) \ {j}) \cup {i}
      BY <2>1, <2>2, <2>5, Replaced
    <3> QED BY <2>5, <3>1 DEF Renamed
  <2>6. CASE i \notin Members(D(a)) /\ j \notin Members(D(a))
    BY <2>1, <2>2, <2>6 DEF Renamed
  <2> QED BY <2>3, <2>4, <2>5, <2>6
<1>10. OthersRenamed(s, i, j, r.data, {i, j})
  BY <1>9 DEF Linked, OthersRenamed
<1> QED BY <1>6, <1>7, <1>8, <1>10 DEF r, q

(* The names within the lists of the two, when they are neighbours. *)
LEMMA RenamedSelves ==
  ASSUME NEW s, Sound(s), NEW i \in GridNode, NEW j \in GridNode, i # j,
         NEW r, Running(r), r.data[i] = s.data[i], r.data[j] = s.data[j],
         OthersRenamed(s, i, j, r.data, {i, j}),
         NEW d, d = IF ~Linked(s, i, j) THEN r.data
                    ELSE [r.data EXCEPT ![i] = N!update_self_neighbors(s.data[i], i, j),
                                        ![j] = N!update_self_neighbors(s.data[j], j, i)]
  PROVE  Whole(d) /\ OthersRenamed(s, i, j, d, {})
<1> DEFINE D(a) == s.data[a]
<1>1. /\ \A a \in GridNode : List(D(a))
      /\ \A a, b \in GridNode : b \in Members(D(a)) => a \in Members(D(b)) /\ a # b
      /\ \A a, b : Linked(s, a, b) <=> b \in Members(D(a))
  BY DEF Sound, Linked
<1>2. r.data = [a \in GridNode |-> r.data[a]]
  BY DEF Running
<1>3. CASE ~Linked(s, i, j)
  <2>1. d = r.data
    BY <1>3
  <2>2. i \notin Members(D(i)) /\ j \notin Members(D(i)) /\ i \notin Members(D(j)) /\ j \notin Members(D(j))
    BY <1>1, <1>3
  <2>3. \A a \in GridNode : a = i \/ a = j \/ a \in GridNode \ {i, j}
    OBVIOUS
  <2>4. ASSUME NEW a \in {i, j}
        PROVE  /\ List(d[a])
               /\ \A b \in GridNode : b \in Members(d[a]) <=> Linked(s, a, Renamed(i, j, b))
    <3>1. d[a] = D(a) /\ List(D(a))
      BY <2>1, <1>1
    <3>2. \A b \in GridNode : b \in Members(D(a)) <=> Renamed(i, j, b) \in Members(D(a))
      BY <2>2 DEF Renamed
    <3> QED BY <3>1, <3>2, <1>1
  <2>5. \A a \in GridNode \ {i, j} :
          /\ List(d[a])
          /\ \A b \in GridNode : b \in Members(d[a]) <=> Linked(s, a, Renamed(i, j, b))
    BY <2>1 DEF OthersRenamed
  <2>6. OthersRenamed(s, i, j, d, {})
    BY <2>3, <2>4, <2>5 DEF OthersRenamed
  <2> QED BY <1>2, <2>1, <2>6 DEF Whole
<1>4. CASE Linked(s, i, j)
  <2> DEFINE I == N!update_self_neighbors(s.data[i], i, j)
             J == N!update_self_neighbors(s.data[j], j, i)
  <2>1. d = [r.data EXCEPT ![i] = I, ![j] = J]
    BY <1>4
  <2>2. /\ i \notin Members(D(i)) /\ j \in Members(D(i))
        /\ i \in Members(D(j)) /\ j \notin Members(D(j))
    BY <1>1, <1>4
  <2>3. List(I) /\ Members(I) = (Members(D(i)) \ {j}) \cup {i}
    BY <1>1, <2>2, SelfReplaced
  <2>4. List(J) /\ Members(J) = (Members(D(j)) \ {i}) \cup {j}
    BY <1>1, <2>2, SelfReplaced
  <2> HIDE DEF I, J
  <2>5. d = [a \in GridNode |-> IF a = i THEN I ELSE IF a = j THEN J ELSE r.data[a]]
    BY <1>2, <2>1
  <2>6. \A b \in GridNode : b \in Members(I) <=> Linked(s, i, Renamed(i, j, b))
    BY <1>1, <2>2, <2>3 DEF Renamed
  <2>7. \A b \in GridNode : b \in Members(J) <=> Linked(s, j, Renamed(i, j, b))
    BY <1>1, <2>2, <2>4 DEF Renamed
  <2>8. \A a \in GridNode : a = i \/ a = j \/ a \in GridNode \ {i, j}
    OBVIOUS
  <2>9. \A a \in GridNode :
              /\ List(d[a])
              /\ \A b \in GridNode : b \in Members(d[a]) <=> Linked(s, a, Renamed(i, j, b))
    BY <2>3, <2>4, <2>5, <2>6, <2>7, <2>8 DEF OthersRenamed
  <2>10. Whole(d)
    BY <2>5 DEF Whole
  <2> QED BY <2>9, <2>10 DEF OthersRenamed
<1> QED BY <1>3, <1>4

(* States with the same lists are the same. *)
LEMMA SameLists ==
  ASSUME NEW r, Running(r), NEW s, Running(s), \A a \in GridNode : r.data[a] = s.data[a]
  PROVE  r = s
<1>1. r.data = s.data
  BY DEF Running
<1> QED BY <1>1 DEF Running
(* With the lists of a node that is no neighbour of itself nothing is to do. *)
LEMMA UpdatedSame ==
  ASSUME NEW s, Sound(s), NEW i \in GridNode
  PROVE  N!update_neighbors(s, i, i, i) = s
<1> DEFINE r == N!update_neighbors(s, i, i, i)
<1>1. /\ Running(s)
      /\ \A a \in GridNode : List(s.data[a]) /\ Vector(s.data[a])
      /\ \A a \in Members(s.data[i]) : Linked(s, a, i)
  <2>1. \A a \in GridNode : List(s.data[a]) /\ Vector(s.data[a])
    BY DEF Sound, List
  <2>2. Members(s.data[i]) \subseteq GridNode
    BY <2>1, ListsNode
  <2> QED BY <2>1, <2>2 DEF Sound, Linked
<1>2. /\ Running(r)
      /\ \A a \in GridNode :
           r.data[a] = IF a \in Members(s.data[i]) THEN N!replace(s.data[a], i, i) ELSE s.data[a]
  BY <1>1, UpdatedNeighbors
<1> HIDE DEF r
<1>3. \A a \in GridNode : r.data[a] = s.data[a]
  BY <1>1, <1>2, ReplacedSame
<1>4. r = s
  BY <1>1, <1>2, <1>3, SameLists
<1> QED BY <1>4 DEF r

(* What is left of swap once the lists of the others are renamed. *)
SelvesOf(r, i, j, d) ==
  d = IF ~N!has_neighbor(r, i, j) THEN r.data
      ELSE [r.data EXCEPT ![i] = N!update_self_neighbors(r.data[i], i, j),
                          ![j] = N!update_self_neighbors(r.data[j], j, i)]

(* The swap of the lists comes last. *)
LEMMA SwapSteps ==
  ASSUME NEW s, NEW i, NEW j, NEW r, i # j \/ ~N!has_neighbor(r, i, j),
         r = N!update_neighbors(N!update_neighbors(s, i, i, j), j, j, i),
         N!asserts_symmetric(r, i, j) = r
  PROVE  \E d : SelvesOf(r, i, j, d) /\ N!swap(s, i, j) = [r EXCEPT !.data = N!swap_lists(d, i, j)]
<1> DEFINE x == N!asserts_symmetric(
                  N!update_neighbors(N!update_neighbors(s, i, i, j), j, j, i), i, j)
           d == IF ~N!has_neighbor(x, i, j) THEN x.data
                ELSE [x.data EXCEPT ![i] = N!update_self_neighbors(x.data[i], i, j),
                                    ![j] = N!update_self_neighbors(x.data[j], j, i)]
<1>1. N!swap(s, i, j) = [x EXCEPT !.data = N!swap_lists(d, i, j)]
  BY Zenon DEF N!swap
<1>2. x = r
  OBVIOUS
<1> HIDE DEF x
<1>3. SelvesOf(r, i, j, d)
  BY <1>2 DEF SelvesOf
<1> HIDE DEF d
<1> QED BY <1>1, <1>2, <1>3

(* Two nodes have exchanged their names. *)
LEMMA Swapped ==
  ASSUME NEW s, Sound(s), NEW i \in GridNode, NEW j \in GridNode
  PROVE  /\ Sound(N!swap(s, i, j))
         /\ \A a, b \in GridNode : Linked(N!swap(s, i, j), a, b)
              <=> Linked(s, Renamed(i, j, a), Renamed(i, j, b))
<1> DEFINE r == N!update_neighbors(N!update_neighbors(s, i, i, j), j, j, i)
           t == N!swap(s, i, j)
<1>1. /\ Running(s)
      /\ \A a \in GridNode : List(s.data[a]) /\ Vector(s.data[a])
      /\ \A a, b \in GridNode : Linked(s, a, b) => Linked(s, b, a) /\ a # b
  BY DEF Sound, List
<1>2. Running(r) /\ r.data[i] = s.data[i] /\ r.data[j] = s.data[j]
  <2>1. CASE i = j
    BY <1>1, <2>1, UpdatedSame
  <2>2. CASE i # j
    BY <2>2, RenamedLists
  <2> QED BY <2>1, <2>2
<1>3. i # j => OthersRenamed(s, i, j, r.data, {i, j})
  BY RenamedLists
<1>4. i = j => r = s
  BY UpdatedSame
<1>5. N!has_neighbor(r, i, j) <=> Linked(s, i, j)
  <2>1. Vector(r.data[i])
    BY <1>1, <1>2
  <2> HIDE DEF r
  <2> QED BY <1>2, <2>1, HasNeighbor DEF Linked
<1>6. N!asserts_symmetric(r, i, j) = r
  <2>1. Linked(r, i, j) => Linked(r, j, i)
    BY <1>1, <1>2 DEF Linked
  <2>2. Vector(r.data[i]) /\ Vector(r.data[j])
    BY <1>1, <1>2
  <2> HIDE DEF r
  <2> QED BY <1>2, <2>1, <2>2, AssertedSymmetric
<1>7. PICK d : SelvesOf(r, i, j, d) /\ t = [r EXCEPT !.data = N!swap_lists(d, i, j)]
  <2>1. i # j \/ ~N!has_neighbor(r, i, j)
    BY <1>1, <1>5
  <2> QED BY <1>6, <2>1, SwapSteps
<1> HIDE DEF r, t
<1>8. Whole(d) /\ OthersRenamed(s, i, j, d, {})
  <2>1. CASE i = j
    <3>1. d = s.data
      BY <1>1, <1>4, <1>5, <1>7, <2>1 DEF SelvesOf
    <3>2. \A b \in GridNode : Renamed(i, j, b) = b
      BY <2>1 DEF Renamed
    <3>3. OthersRenamed(s, i, j, d, {})
      BY <1>1, <3>1, <3>2 DEF Linked, OthersRenamed
    <3> QED BY <1>1, <3>1, <3>3 DEF Running, Whole
  <2>2. CASE i # j
    <3>1. d = IF ~Linked(s, i, j) THEN r.data
              ELSE [r.data EXCEPT ![i] = N!update_self_neighbors(s.data[i], i, j),
                                  ![j] = N!update_self_neighbors(s.data[j], j, i)]
      BY <1>2, <1>5, <1>7 DEF SelvesOf
    <3>2. Running(r) /\ r.data[i] = s.data[i] /\ r.data[j] = s.data[j]
      BY <1>2
    <3> QED BY <1>3, <2>2, <3>1, <3>2, RenamedSelves
  <2> QED BY <2>1, <2>2
<1> DEFINE swapped == N!swap_lists(d, i, j)
<1>9. SwappedTo(d, i, j, swapped)
  <2>1. \A a \in GridNode : Vector(d[a])
    BY <1>8 DEF List, OthersRenamed
  <2> QED BY <1>8, <2>1, SwappedLists
<1> HIDE DEF swapped
<1>10. t = [data |-> swapped, failed |-> FALSE]
  <2>1. PICK old : r = [data |-> old, failed |-> FALSE]
    BY <1>2 DEF Running
  <2>2. t = [r EXCEPT !.data = swapped]
    BY <1>7 DEF swapped
  <2>3. t = [[data |-> old, failed |-> FALSE] EXCEPT !.data = swapped]
    BY <2>1, <2>2
  <2> QED BY <2>3
<1>11. \A a \in GridNode : Renamed(i, j, a) \in GridNode
  BY DEF Renamed
<1>12. Running(t)
  BY <1>9, <1>10 DEF Running, SwappedTo
<1>13. \A a \in GridNode : t.data[a] = d[Renamed(i, j, a)]
  BY <1>9, <1>10 DEF SwappedTo
<1>14. \A a \in GridNode : List(t.data[a])
  BY <1>8, <1>11, <1>13 DEF OthersRenamed
<1>15. \A a, b \in GridNode :
         Linked(t, a, b) <=> Linked(s, Renamed(i, j, a), Renamed(i, j, b))
  <2> SUFFICES ASSUME NEW a \in GridNode, NEW b \in GridNode
               PROVE  Linked(t, a, b) <=> Linked(s, Renamed(i, j, a), Renamed(i, j, b))
    OBVIOUS
  <2>1. b \in Members(d[Renamed(i, j, a)]) <=> Linked(s, Renamed(i, j, a), Renamed(i, j, b))
    BY <1>8, <1>11 DEF OthersRenamed
  <2> QED BY <1>13, <2>1 DEF Linked
<1>16. \A a, b \in GridNode : Linked(t, a, b) => Linked(t, b, a) /\ a # b
  BY <1>1, <1>11, <1>15
<1>17. Sound(t)
  BY <1>12, <1>14, <1>16 DEF Sound
<1> QED BY <1>15, <1>17 DEF t
-----------------------------------------------------------------------------
(* The graph of the lists. *)

(* What the lists say of each pair, *)
LinksOf(s) == [p \in GridNode \X GridNode |-> IF Linked(s, p[1], p[2]) THEN 1 ELSE 0]

(* ... and what their slots hold. *)
Counted(s) ==
  [p \in GridNode \X GridNode |-> N!Cardinality({k \in N!Slot : s.data[p[1]].slots[k] = p[2]})]

(* A list holds a neighbour once, and nothing else. *)
LEMMA CountedLinks ==
  ASSUME NEW s, Sound(s)
  PROVE  Counted(s) = LinksOf(s)
<1>1. \A K : N!Cardinality(K) = Cardinality(K)
  BY DEF N!Cardinality, Cardinality
<1>2. ASSUME NEW a \in GridNode, NEW b \in GridNode
      PROVE  N!Cardinality({k \in N!Slot : s.data[a].slots[k] = b})
               = IF Linked(s, a, b) THEN 1 ELSE 0
  <2> DEFINE v == s.data[a]
             K == {k \in N!Slot : v.slots[k] = b}
  <2>1. List(v) /\ Vector(v)
    BY DEF Sound, List
  <2>2. /\ Raw \notin GridNode /\ 0 .. v.size - 1 \subseteq N!Slot /\ v.size \in Nat
        /\ N!Slot \subseteq Nat
    BY <2>1, ListsNode
  <2> HIDE DEF v
  <2>3. \A k \in N!Slot : v.slots[k] = b => k \in 0 .. v.size - 1
    <3> SUFFICES ASSUME NEW k \in N!Slot, v.slots[k] = b PROVE k \in 0 .. v.size - 1
      OBVIOUS
    <3>1. ~(k >= v.size)
      BY <2>1, <2>2 DEF Vector
    <3> QED BY <2>2, <3>1
  <2>4. CASE b \in Members(v)
    <3>1. PICK k \in 0 .. v.size - 1 : v.slots[k] = b
      BY <2>4 DEF Members
    <3>2. K = {k}
      BY <2>1, <2>2, <2>3, <3>1 DEF List
    <3>3. Cardinality(K) = 1
      BY <3>2, FS_Singleton
    <3> QED BY <1>1, <2>4, <3>3 DEF Linked, v
  <2>5. CASE b \notin Members(v)
    <3>1. K = {}
      BY <2>3, <2>5 DEF Members
    <3>2. Cardinality(K) = 0
      BY <3>1, FS_EmptySet
    <3> QED BY <1>1, <2>5, <3>2 DEF Linked, v
  <2> QED BY <2>4, <2>5
<1> QED BY <1>2 DEF Counted, LinksOf

(* What the operations make of the links: some pairs are linked or not, none *)
(* with a node is, or two names are exchanged.                               *)
PairsSet(l, P, x, k) == k = [p \in GridNode \X GridNode |-> IF p \in P THEN x ELSE l[p]]
NoneWith(l, n, k) == k = [p \in GridNode \X GridNode |-> IF n \in {p[1], p[2]} THEN 0 ELSE l[p]]
NamesSwapped(l, i, j, k) ==
  k = [p \in GridNode \X GridNode |-> l[<<Renamed(i, j, p[1]), Renamed(i, j, p[2])>>]]

(* push links a pair that was not, *)
LEMMA LinksPushed ==
  ASSUME NEW s, NEW t, NEW n \in GridNode, NEW o \in GridNode, ~Linked(s, n, o),
         \A a, b \in GridNode : Linked(t, a, b) <=> Linked(s, a, b) \/ <<a, b>> \in {<<n, o>>, <<o, n>>}
  PROVE  /\ LinksOf(s)[<<n, o>>] = 0
         /\ PairsSet(LinksOf(s), {<<n, o>>, <<o, n>>}, 1, LinksOf(t))
<1>1. \A p \in GridNode \X GridNode : p = <<p[1], p[2]>> /\ p[1] \in GridNode /\ p[2] \in GridNode
  OBVIOUS
<1>2. \A p \in GridNode \X GridNode :
        Linked(t, p[1], p[2]) <=> Linked(s, p[1], p[2]) \/ p \in {<<n, o>>, <<o, n>>}
  BY <1>1
<1>3. <<n, o>> \in GridNode \X GridNode
  OBVIOUS
<1> QED BY <1>2, <1>3 DEF LinksOf, PairsSet

(* pop takes back one that was, *)
LEMMA LinksPopped ==
  ASSUME NEW s, NEW t, NEW n \in GridNode, NEW o \in GridNode, Linked(s, n, o),
         \A a, b \in GridNode : Linked(t, a, b) <=> Linked(s, a, b) /\ <<a, b>> \notin {<<n, o>>, <<o, n>>}
  PROVE  /\ LinksOf(s)[<<n, o>>] = 1
         /\ PairsSet(LinksOf(s), {<<n, o>>, <<o, n>>}, 0, LinksOf(t))
<1>1. \A p \in GridNode \X GridNode : p = <<p[1], p[2]>> /\ p[1] \in GridNode /\ p[2] \in GridNode
  OBVIOUS
<1>2. \A p \in GridNode \X GridNode :
        Linked(t, p[1], p[2]) <=> Linked(s, p[1], p[2]) /\ p \notin {<<n, o>>, <<o, n>>}
  BY <1>1
<1>3. <<n, o>> \in GridNode \X GridNode
  OBVIOUS
<1> QED BY <1>2, <1>3 DEF LinksOf, PairsSet

(* pop_all those of a node, *)
LEMMA LinksPoppedAll ==
  ASSUME NEW s, NEW t, NEW n \in GridNode,
         \A a, b \in GridNode : Linked(t, a, b) <=> Linked(s, a, b) /\ a # n /\ b # n
  PROVE  NoneWith(LinksOf(s), n, LinksOf(t))
<1>1. \A p \in GridNode \X GridNode : p[1] \in GridNode /\ p[2] \in GridNode
  OBVIOUS
<1>2. \A p \in GridNode \X GridNode :
        Linked(t, p[1], p[2]) <=> Linked(s, p[1], p[2]) /\ n \notin {p[1], p[2]}
  BY <1>1
<1> QED BY <1>2 DEF LinksOf, NoneWith

(* and swap exchanges two names. *)
LEMMA LinksSwapped ==
  ASSUME NEW s, NEW t, NEW i \in GridNode, NEW j \in GridNode,
         \A a, b \in GridNode : Linked(t, a, b) <=> Linked(s, Renamed(i, j, a), Renamed(i, j, b))
  PROVE  NamesSwapped(LinksOf(s), i, j, LinksOf(t))
<1>1. \A p \in GridNode \X GridNode : p[1] \in GridNode /\ p[2] \in GridNode
  OBVIOUS
<1>2. \A a \in GridNode : Renamed(i, j, a) \in GridNode
  BY DEF Renamed
<1>3. \A a, b \in GridNode : LinksOf(s)[<<Renamed(i, j, a), Renamed(i, j, b)>>]
        = IF Linked(s, Renamed(i, j, a), Renamed(i, j, b)) THEN 1 ELSE 0
  <2>1. \A x, y \in GridNode : LinksOf(s)[<<x, y>>] = IF Linked(s, x, y) THEN 1 ELSE 0
    BY DEF LinksOf
  <2> QED BY <1>2, <2>1
<1>4. \A p \in GridNode \X GridNode :
        (IF Linked(t, p[1], p[2]) THEN 1 ELSE 0)
          = LinksOf(s)[<<Renamed(i, j, p[1]), Renamed(i, j, p[2])>>]
  BY <1>1, <1>3
<1>5. LinksOf(t) = [p \in GridNode \X GridNode |-> IF Linked(t, p[1], p[2]) THEN 1 ELSE 0]
  BY DEF LinksOf
<1> QED BY <1>4, <1>5 DEF NamesSwapped

(* The lists that an operation leaves behind. *)
LEMMA LeavesSound ==
  ASSUME NEW t, Sound(t), N!Leaves(t)
  PROVE  N!Lists' = t
<1>1. t = [data |-> t.data, failed |-> FALSE]
  BY DEF Sound, Running
<1>2. t.failed = FALSE
  BY <1>1
<1> QED BY <1>1, <1>2 DEF N!Leaves, N!Lists

-----------------------------------------------------------------------------
(* The store of the neighbours. *)

(* The lists begin as the graph without links does, *)
LEMMA ListsInitially ==
  ASSUME PartsInit
  PROVE  Sound(N!Lists) /\ N!Graph!Init
<1>1. data = [n \in GridNode |-> N!empty_vector] /\ failed = FALSE
  BY DEF PartsInit, N!Init
<1> DEFINE s == N!Lists
<1>2. s.data = data /\ s = [data |-> data, failed |-> FALSE]
  BY <1>1 DEF N!Lists
<1> HIDE DEF s
<1>3. \A n \in GridNode : s.data[n] = N!empty_vector
  BY <1>1, <1>2
<1>4. Running(s)
  BY <1>1, <1>2 DEF Running
<1>5. \A n, o \in GridNode : ~Linked(s, n, o)
  BY <1>3, EmptyList DEF Linked
<1>6. Sound(s)
  BY <1>3, <1>4, <1>5, EmptyList DEF Sound
<1>7. Counted(s) = [p \in GridNode \X GridNode |-> 0]
  <2>1. LinksOf(s) = [p \in GridNode \X GridNode |-> 0]
    BY <1>5 DEF LinksOf
  <2> QED BY <1>6, <2>1, CountedLinks
<1>8. Counted(s) = [p \in GridNode \X GridNode |-> N!Listed(p[1], p[2])]
  BY <1>2 DEF Counted, N!Listed
<1> QED BY <1>1, <1>6, <1>7, <1>8 DEF N!Graph!Init, N!Graph!NoLinks, s

(* The links as the abstract store knows them. *)
TheLinks == [p \in GridNode \X GridNode |-> N!Listed(p[1], p[2])]

(* They are those of the lists, before a step and after it. *)
LEMMA TheLinksCounted ==
  /\ Sound(N!Lists) => TheLinks = LinksOf(N!Lists)
  /\ Sound(N!Lists)' => TheLinks' = LinksOf(N!Lists')
<1>1. TheLinks = Counted(N!Lists)
  <2>1. N!Lists.data = data
    BY DEF N!Lists
  <2> HIDE DEF N!Lists
  <2> QED BY <2>1 DEF TheLinks, Counted, N!Listed
<1>2. TheLinks' = Counted(N!Lists')
  <2>1. N!Lists'.data = data'
    BY DEF N!Lists
  <2> HIDE DEF N!Lists
  <2> QED BY <2>1 DEF TheLinks, Counted, N!Listed
<1>3. Sound(N!Lists)' <=> Sound(N!Lists')
  BY DEF Sound, Running, Linked
<1> QED BY <1>1, <1>2, <1>3, CountedLinks

(* and every operation leaves lists of a graph and is a step of that graph. *)
LEMMA NeighborsStep ==
  ASSUME Sound(N!Lists), N!Next
  PROVE  Sound(N!Lists)' /\ N!Graph!Next
<1> DEFINE s == N!Lists
           L == LinksOf(s)
<1>1. ASSUME NEW t, Sound(t), N!Leaves(t)
      PROVE  Sound(N!Lists)' /\ TheLinks' = LinksOf(t) /\ UNCHANGED failed
  <2>1. Sound(N!Lists)' <=> Sound(N!Lists')
    BY DEF Sound, Running, Linked
  <2>2. N!Lists' = t
    BY <1>1, LeavesSound
  <2>3. Sound(N!Lists)'
    BY <1>1, <2>1, <2>2
  <2>4. TheLinks' = LinksOf(N!Lists')
    BY <2>3, TheLinksCounted
  <2>5. LinksOf(N!Lists') = LinksOf(t)
    BY <2>2
  <2>6. UNCHANGED failed
    <3>1. N!Lists.failed = failed /\ N!Lists.failed = FALSE
      <4>1. N!Lists.failed = FALSE
        <5> DEFINE r == N!Lists
        <5>1. r = [data |-> r.data, failed |-> FALSE]
          BY DEF Sound, Running
        <5> HIDE DEF r
        <5>2. r.failed = FALSE
          BY <5>1
        <5> QED BY <5>2 DEF r
      <4> QED BY <4>1 DEF N!Lists
    <3>2. t.failed = FALSE
      <4>1. t = [data |-> t.data, failed |-> FALSE]
        BY <1>1 DEF Sound, Running
      <4> QED BY <4>1
    <3> QED BY <1>1, <3>1, <3>2 DEF N!Leaves
  <2> QED BY <2>3, <2>4, <2>5, <2>6
<1>2. TheLinks = L
  BY TheLinksCounted
<1>3. Sound(s)
  OBVIOUS
<1>4. N!Lists = s /\ \A a \in GridNode : s.data[a] = data[a] /\ List(s.data[a]) /\ Vector(s.data[a])
  <2>1. s.data = data
    BY DEF N!Lists
  <2> QED BY <2>1 DEF Sound, List
<1> HIDE DEF s
<1>5. ASSUME NEW n \in GridNode, NEW o \in GridNode, n # o, N!Push(n, o)
      PROVE  Sound(N!Lists)' /\ UNCHANGED failed /\ N!Graph!Push(n, o)
  <2> DEFINE t == N!push(s, n, o)
  <2>1. /\ s.data[n].size # NeighborCapacity /\ s.data[o].size # NeighborCapacity
        /\ ~Linked(s, n, o) /\ N!Leaves(t)
    BY <1>4, <1>5, HasNeighbor DEF N!Push
  <2>2. /\ Sound(t)
        /\ \A a, b \in GridNode : Linked(t, a, b)
             <=> Linked(s, a, b) \/ <<a, b>> \in {<<n, o>>, <<o, n>>}
    BY <1>3, <1>5, <2>1, Pushed
  <2> HIDE DEF t
  <2>3. /\ L[<<n, o>>] = 0
        /\ PairsSet(L, {<<n, o>>, <<o, n>>}, 1, LinksOf(t))
    BY <2>1, <2>2, LinksPushed
  <2>4. Sound(N!Lists)' /\ TheLinks' = LinksOf(t) /\ UNCHANGED failed
    BY <1>1, <2>1, <2>2
  <2> HIDE DEF L
  <2>5. N!Graph!Push(n, o)
    BY <1>2, <2>3, <2>4 DEF N!Graph!Push, N!Graph!Between, TheLinks, PairsSet
  <2> QED BY <2>4, <2>5
<1>6. ASSUME NEW n \in GridNode, NEW o \in GridNode, n # o, N!Pop(n, o)
      PROVE  Sound(N!Lists)' /\ UNCHANGED failed /\ N!Graph!Pop(n, o)
  <2> DEFINE t == N!pop(s, n, o)
  <2>1. Linked(s, n, o) /\ N!Leaves(t)
    BY <1>4, <1>6, HasNeighbor DEF N!Pop
  <2>2. /\ Sound(t)
        /\ \A a, b \in GridNode : Linked(t, a, b)
             <=> Linked(s, a, b) /\ <<a, b>> \notin {<<n, o>>, <<o, n>>}
    BY <1>3, <2>1, Popped
  <2> HIDE DEF t
  <2>3. /\ L[<<n, o>>] = 1
        /\ PairsSet(L, {<<n, o>>, <<o, n>>}, 0, LinksOf(t))
    BY <2>1, <2>2, LinksPopped
  <2>4. Sound(N!Lists)' /\ TheLinks' = LinksOf(t) /\ UNCHANGED failed
    BY <1>1, <2>1, <2>2
  <2> HIDE DEF L
  <2>5. N!Graph!Pop(n, o)
    BY <1>2, <2>3, <2>4 DEF N!Graph!Pop, N!Graph!Between, TheLinks, PairsSet
  <2> QED BY <2>4, <2>5
<1>7. ASSUME NEW n \in GridNode, N!PopAll(n)
      PROVE  Sound(N!Lists)' /\ UNCHANGED failed /\ N!Graph!PopAll(n)
  <2> DEFINE t == N!pop_all(s, n)
  <2>1. N!Leaves(t)
    BY <1>4, <1>7 DEF N!PopAll
  <2>2. /\ Sound(t)
        /\ \A a, b \in GridNode : Linked(t, a, b) <=> Linked(s, a, b) /\ a # n /\ b # n
    BY <1>3, PoppedAll
  <2> HIDE DEF t
  <2>3. NoneWith(L, n, LinksOf(t))
    BY <2>2, LinksPoppedAll
  <2>4. Sound(N!Lists)' /\ TheLinks' = LinksOf(t) /\ UNCHANGED failed
    BY <1>1, <2>1, <2>2
  <2> HIDE DEF L
  <2>5. N!Graph!PopAll(n)
    BY <1>2, <2>3, <2>4 DEF N!Graph!PopAll, TheLinks, NoneWith
  <2> QED BY <2>4, <2>5
<1>8. ASSUME NEW i \in GridNode, NEW j \in GridNode, N!Swap(i, j)
      PROVE  Sound(N!Lists)' /\ UNCHANGED failed /\ N!Graph!Swap(i, j)
  <2> DEFINE t == N!swap(s, i, j)
  <2>1. N!Leaves(t)
    BY <1>4, <1>8 DEF N!Swap
  <2>2. /\ Sound(t)
        /\ \A a, b \in GridNode :
             Linked(t, a, b) <=> Linked(s, Renamed(i, j, a), Renamed(i, j, b))
    BY <1>3, Swapped
  <2> HIDE DEF t
  <2>3. NamesSwapped(L, i, j, LinksOf(t))
    BY <2>2, LinksSwapped
  <2>4. Sound(N!Lists)' /\ TheLinks' = LinksOf(t) /\ UNCHANGED failed
    BY <1>1, <2>1, <2>2
  <2> HIDE DEF L
  <2>5. N!Graph!Swap(i, j)
    BY <1>2, <2>3, <2>4 DEF N!Graph!Swap, Renamed, TheLinks, NamesSwapped
  <2> QED BY <2>4, <2>5
<1>9. PICK n \in GridNode, o \in GridNode :
        \/ n # o /\ (N!Push(n, o) \/ N!Pop(n, o))
        \/ N!PopAll(n)
        \/ N!Swap(n, o)
  BY Zenon DEF N!Next
<1>10. /\ Sound(N!Lists)' /\ UNCHANGED failed
       /\ \/ n # o /\ (N!Graph!Push(n, o) \/ N!Graph!Pop(n, o))
          \/ N!Graph!PopAll(n)
          \/ N!Graph!Swap(n, o)
  BY <1>5, <1>6, <1>7, <1>8, <1>9
<1>11. N!Graph!Next
  BY <1>10 DEF N!Graph!Next
<1> QED BY <1>10, <1>11

(* Through every sequence of push, pop, pop_all and swap the lists of the      *)
(* neighbours stand for an undirected graph in which swap exchanges two names, *)
(* and no assertion of them fails: for any set of nodes and any capacity.      *)
THEOREM NeighborsAreLinks == PartsSpec => NeighborsImplementLinks
<1> DEFINE Stands == Sound(N!Lists)
<1>1. PartsInit => Stands /\ N!Graph!Init
  BY ListsInitially
<1>2. Stands /\ [PartsNext]_<<subject, locations, neighbors, matrices, trees>>
        => Stands' /\ [N!Graph!Next]_<<TheLinks, failed>>
  <2> SUFFICES ASSUME Stands, [PartsNext]_<<subject, locations, neighbors, matrices, trees>>
               PROVE  Stands' /\ [N!Graph!Next]_<<TheLinks, failed>>
    OBVIOUS
  <2>1. CASE N!Next
    BY <2>1, NeighborsStep
  <2>2. CASE UNCHANGED neighbors
    <3>1. UNCHANGED <<N!Lists, TheLinks, failed>>
      BY <2>2 DEF neighbors, N!Lists, TheLinks, N!Listed
    <3>2. Stands'
      BY <3>1 DEF Sound, Running, Linked
    <3> QED BY <3>1, <3>2
  <2>3. N!Next \/ UNCHANGED neighbors
    BY DEF PartsNext
  <2> QED BY <2>1, <2>2, <2>3
<1>3. NeighborsImplementLinks <=> N!Graph!Init /\ [][N!Graph!Next]_<<TheLinks, failed>>
  BY DEF NeighborsImplementLinks, N!ImplementsLinks, N!Graph!Spec, TheLinks
<1> HIDE DEF Stands
<1> QED BY <1>1, <1>2, <1>3, PTL DEF PartsSpec

-----------------------------------------------------------------------------
(* Locations. *)

(* A path lists child positions. *)
LEMMA PositionsOfPath ==
  ASSUME NEW n \in Path
  PROVE  /\ Len(n) \in Nat /\ DOMAIN n = 1 .. Len(n)
         /\ \A k \in 1 .. Len(n) : n[k] \in child_pos /\ n[k] \in Nat
<1>1. n \in Seq(child_pos)
  BY DEF Path
<1>2. Len(n) \in Nat /\ DOMAIN n = 1 .. Len(n) /\ \A k \in 1 .. Len(n) : n[k] \in child_pos
  BY <1>1
<1> QED BY <1>2, PositionIsNatural

(* The bits of a coordinate are sides of the ancestors, from the node up. *)
LEMMA BitsOfCoordinate ==
  ASSUME NEW n \in Path, NEW d \in Dimension
  PROVE  /\ Coordinate(n, d) \in Nat
         /\ \A j \in Nat : bit(Coordinate(n, d), j) =
              IF j < Len(n) THEN bit(n[Len(n) - j], d - 1) ELSE 0
<1>1. Coordinate(n, d) \in Nat /\ Coordinate(n, d) < 2^Len(n) /\ Len(n) \in Nat
  BY CoordinateRange, PositionsOfPath
<1>2. \A j \in Nat : j >= Len(n) => bit(Coordinate(n, d), j) = 0
  BY <1>1, HighBits
<1>3. ASSUME NEW j \in Nat, j < Len(n)
      PROVE  bit(Coordinate(n, d), j) = bit(n[Len(n) - j], d - 1)
  <2>1. PICK k \in 1 .. Len(n) : k = Len(n) - j /\ Len(n) - k = j
    BY <1>1, <1>3
  <2> QED BY <2>1, BitOfCoordinate
<1>4. \A j \in Nat : j < Len(n) \/ j >= Len(n)
  BY <1>1
<1>5. \A j \in Nat : j >= Len(n) => ~(j < Len(n))
  BY <1>1
<1> QED BY <1>1, <1>2, <1>3, <1>4, <1>5

(* A number is the code of a path when its bits, by dimension, are the sides  *)
(* of the ancestors, below a one.                                             *)
IsCode(v, n) ==
  /\ v \in Nat
  /\ \A j \in Nat, d \in Dimension :
       bit(v, Nd * j + (d - 1)) =
         IF j < Len(n) THEN bit(n[Len(n) - j], d - 1)
         ELSE IF j = Len(n) /\ d = 1 THEN 1 ELSE 0

(* Every bit belongs to one dimension. *)
LEMMA BitsByDimension ==
  \A b \in Nat : \E j \in Nat, d \in Dimension : b = Nd * j + (d - 1)
<1> SUFFICES ASSUME NEW b \in Nat PROVE \E j \in Nat, d \in Dimension : b = Nd * j + (d - 1)
  OBVIOUS
<1>1. /\ b \div Nd \in Nat /\ b % Nd \in 0 .. Nd - 1 /\ (b % Nd) + 1 \in Dimension
      /\ b = Nd * (b \div Nd) + (b % Nd)
  BY Interleaved
<1>2. PICK j \in Nat, d \in Dimension : j = b \div Nd /\ d = (b % Nd) + 1
  BY <1>1
<1>3. d - 1 = b % Nd
  BY <1>1, <1>2, NdAssumption
<1> QED BY <1>1, <1>2, <1>3

(* A path has one code. *)
LEMMA CodeUnique ==
  ASSUME NEW n, NEW v, NEW w, IsCode(v, n), IsCode(w, n)
  PROVE  v = w
<1>1. v \in Nat /\ w \in Nat
  BY DEF IsCode
<1>2. \A j \in Nat, d \in Dimension : bit(v, Nd * j + (d - 1)) = bit(w, Nd * j + (d - 1))
  BY DEF IsCode
<1>3. SameBits(v, w)
  <2> SUFFICES ASSUME NEW b \in Nat PROVE bit(v, b) = bit(w, b)
    BY DEF SameBits
  <2>1. PICK j \in Nat, d \in Dimension : b = Nd * j + (d - 1)
    BY BitsByDimension
  <2> QED BY <1>2, <2>1
<1> QED BY <1>1, <1>3, BitsDetermine

(* The code of the root. *)
LEMMA CodeOfRoot == IsCode(1, <<>>)
<1>1. bit(1, 0) = 1
  BY BitTable
<1>2. 1 < 2^1
  BY Powers
<1>3. \A b \in Nat : b >= 1 => bit(1, b) = 0
  BY <1>2, HighBits
<1>4. ASSUME NEW j \in Nat, NEW d \in Dimension
      PROVE  bit(1, Nd * j + (d - 1)) = IF j = 0 /\ d = 1 THEN 1 ELSE 0
  <2>1. PICK b \in Nat : b = Nd * j + (d - 1) /\ (b = 0 <=> j = 0 /\ d = 1)
    BY Positions
  <2> QED BY <1>1, <1>3, <2>1
<1>5. Len(<<>>) = 0 /\ \A j \in Nat : ~(j < 0)
  OBVIOUS
<1> QED BY <1>4, <1>5 DEF IsCode

(* To push a child position appends it to the path, *)
LEMMA CodeOfChild ==
  ASSUME NEW n \in Path, NEW v, IsCode(v, n), NEW p \in child_pos
  PROVE  IsCode(push_slim(v, p), Append(n, p))
<1> DEFINE w == v * 2^Nd + p
           c == Append(n, p)
           L == Len(n)
<1>1. v \in Nat /\ \A j \in Nat, d \in Dimension :
        bit(v, Nd * j + (d - 1)) =
          IF j < L THEN bit(n[L - j], d - 1) ELSE IF j = L /\ d = 1 THEN 1 ELSE 0
  BY DEF IsCode
<1>2. /\ w \in Nat /\ \A d \in Dimension : bit(w, d - 1) = bit(p, d - 1)
      /\ \A j \in Nat : bit(w, Nd + j) = bit(v, j)
  BY <1>1, BitsAppended
<1>3. L \in Nat /\ Len(c) = L + 1 /\ c[L + 1] = p /\ \A k \in 1 .. L : c[k] = n[k]
  <2>1. n \in Seq(child_pos) /\ L \in Nat
    BY PositionsOfPath DEF Path
  <2> QED BY <2>1
<1> HIDE DEF w, c, L
<1>4. ASSUME NEW j \in Nat, NEW d \in Dimension
      PROVE  bit(w, Nd * j + (d - 1)) =
               IF j < Len(c) THEN bit(c[Len(c) - j], d - 1)
               ELSE IF j = Len(c) /\ d = 1 THEN 1 ELSE 0
  <2>0. d - 1 \in Nat /\ Nd \in Nat
    BY Positions
  <2>1. CASE j = 0
    <3>1. Nd * j + (d - 1) = d - 1
      BY <2>0, <2>1
    <3>2. Len(c) - j = L + 1 /\ j < Len(c)
      BY <1>3, <2>1
    <3> QED BY <1>2, <1>3, <3>1, <3>2
  <2>2. CASE j # 0
    <3>1. PICK i \in Nat : j = i + 1
      BY <2>2
    <3>2. PICK b \in Nat : b = Nd * i + (d - 1) /\ Nd * j + (d - 1) = Nd + b
      <4>1. Nd * (i + 1) = Nd * i + Nd /\ Nd * i \in Nat
        BY Positions
      <4> QED BY <2>0, <3>1, <4>1
    <3>3. bit(w, Nd * j + (d - 1)) = bit(v, Nd * i + (d - 1))
      BY <1>2, <3>2
    <3>4. (j < Len(c) <=> i < L) /\ (j = Len(c) <=> i = L) /\ Len(c) - j = L - i
      BY <1>3, <3>1
    <3>5. i < L => c[L - i] = n[L - i]
      BY <1>3
    <3> QED BY <1>1, <3>3, <3>4, <3>5
  <2> QED BY <2>1, <2>2
<1> QED BY <1>2, <1>4 DEF IsCode, push_slim, w, c

(* ... and to pop it takes the last one. *)
LEMMA CodeOfParent ==
  ASSUME NEW n \in Path, n # <<>>, NEW v, IsCode(v, n)
  PROVE  IsCode(pop_slim(v), SubSeq(n, 1, Len(n) - 1))
<1> DEFINE w == v \div 2^Nd
           q == SubSeq(n, 1, Len(n) - 1)
           L == Len(n) - 1
<1>1. v \in Nat /\ \A j \in Nat, d \in Dimension :
        bit(v, Nd * j + (d - 1)) =
          IF j < L + 1 THEN bit(n[(L + 1) - j], d - 1) ELSE IF j = L + 1 /\ d = 1 THEN 1 ELSE 0
  <2>1. Len(n) = L + 1
    BY PositionsOfPath
  <2>2. v \in Nat /\ \A j \in Nat, d \in Dimension :
          bit(v, Nd * j + (d - 1)) =
            IF j < Len(n) THEN bit(n[Len(n) - j], d - 1) ELSE IF j = Len(n) /\ d = 1 THEN 1 ELSE 0
    BY Zenon DEF IsCode
  <2> HIDE DEF L
  <2> QED BY <2>1, <2>2, Zenon
<1>2. Nd \in Nat
  BY Positions
<1>3. w \in Nat /\ \A j \in Nat : bit(w, j) = bit(v, Nd + j)
  BY <1>1, <1>2, BitsShifted
<1>4. L \in Nat /\ Len(q) = L /\ \A k \in 1 .. L : q[k] = n[k]
  <2>1. PICK s \in Path, p \in child_pos :
               n = Append(s, p) /\ Len(s) = Len(n) - 1 /\ s = SubSeq(n, 1, Len(n) - 1)
    BY PathIsChild
  <2>2. s \in Seq(child_pos) /\ Len(s) \in Nat
    BY PositionsOfPath DEF Path
  <2>3. \A k \in 1 .. Len(s) : s[k] = n[k]
    BY <2>1, <2>2
  <2> QED BY <2>1, <2>2, <2>3
<1> HIDE DEF w, q, L
<1>5. ASSUME NEW j \in Nat, NEW d \in Dimension
      PROVE  bit(w, Nd * j + (d - 1)) =
               IF j < Len(q) THEN bit(q[Len(q) - j], d - 1)
               ELSE IF j = Len(q) /\ d = 1 THEN 1 ELSE 0
  <2>1. PICK i \in Nat : i = j + 1
    OBVIOUS
  <2>2. PICK b \in Nat : b = Nd * j + (d - 1) /\ Nd * i + (d - 1) = Nd + b
    <3>1. Nd * (j + 1) = Nd * j + Nd /\ Nd * j \in Nat /\ d - 1 \in Nat
      BY Positions
    <3> QED BY <1>2, <2>1, <3>1
  <2>3. bit(w, Nd * j + (d - 1)) = bit(v, Nd * i + (d - 1))
    BY <1>3, <2>2
  <2>4. (i < L + 1 <=> j < Len(q)) /\ (i = L + 1 <=> j = Len(q)) /\ (L + 1) - i = Len(q) - j
    BY <1>4, <2>1
  <2>5. j < Len(q) => q[Len(q) - j] = n[Len(q) - j]
    BY <1>4
  <2>6. bit(v, Nd * i + (d - 1)) =
          IF i < L + 1 THEN bit(n[(L + 1) - i], d - 1) ELSE IF i = L + 1 /\ d = 1 THEN 1 ELSE 0
    BY <1>1
  <2> QED BY <2>3, <2>4, <2>5, <2>6
<1>6. IsCode(w, q)
  BY <1>3, <1>5, Zenon DEF IsCode
<1> QED BY <1>6 DEF pop_slim, w, q

(* The levels whose codes an integer holds, with room for a child's. *)
Fits(l) == l \in Nat /\ l <= max_level_slim

(* The bits that the code of such a level uses are bits of the integer. *)
LEMMA FittingBits ==
  ASSUME NEW l, Fits(l)
  PROVE  /\ l \in Nat /\ l + 1 \in Bit /\ Nd * l \in Bit /\ \A k \in 0 .. l + 1 : k \in Bit
         /\ \A j \in Nat, d \in Dimension : j <= l => Nd * j + (d - 1) \in Bit
         /\ l < max_level_fast
<1>1. l \in Nat /\ Width \in Nat /\ Width >= 3 * Nd /\ l <= (Width - Nd) \div Nd - 1
  BY WidthAssumption DEF Fits, max_level_slim
<1>2. CASE Nd = 1
  <2>1. Dimension = {1} /\ l + 2 <= Width
    BY <1>1, <1>2, Positions
  <2> QED BY <1>1, <1>2, <2>1 DEF Bit, max_level_fast
<1>3. CASE Nd = 2
  <2>1. Dimension = {1, 2} /\ 2 * l + 4 <= Width
    BY <1>1, <1>3, Positions
  <2> QED BY <1>1, <1>3, <2>1 DEF Bit, max_level_fast
<1>4. CASE Nd = 3
  <2>1. Dimension = {1, 2, 3} /\ 3 * l + 6 <= Width
    BY <1>1, <1>4, Positions
  <2> QED BY <1>1, <1>4, <2>1 DEF Bit, max_level_fast
<1> QED BY <1>2, <1>3, <1>4, Positions

(* The mask of decode has the bits below the leading one: the codes that fit  *)
(* have it at bit 60 at most.                                                 *)
LEMMA FittingMask ==
  ASSUME NEW l, Fits(l)
  PROVE  \A j \in Nat, d \in Dimension : j < l => Nd * j + (d - 1) \in decode_mask(d)
<1> SUFFICES ASSUME NEW j \in Nat, NEW d \in Dimension, j < l
             PROVE  Nd * j + (d - 1) \in decode_mask(d)
  OBVIOUS
<1>1. l \in Nat /\ Nd * j + (d - 1) \in Bit
  BY FittingBits
<1>2. PICK b \in Nat : b = Nd * j + (d - 1) /\ b % Nd = d - 1
  BY Interleaved
<1>3. Nd = 2 /\ d = 1 => b < 60
  <2> SUFFICES ASSUME Nd = 2, d = 1 PROVE b < 60
    OBVIOUS
  <2>1. b = 2 * j /\ l <= (Width - 2) \div 2 - 1 /\ Width \in Nat /\ Width <= 64
    BY <1>2, WidthAssumption DEF Fits, max_level_slim
  <2> QED BY <1>1, <2>1
<1> QED BY <1>1, <1>2, <1>3 DEF decode_mask

(* Between which powers of two a number lies tells its first bit. *)
LEMMA TopBit ==
  ASSUME NEW v \in Nat, NEW b \in Nat
  PROVE  2^b <= v /\ v < 2^(b + 1) <=> bit(v, b) = 1 /\ \A j \in Nat : j > b => bit(v, j) = 0
<1>1. 2^b \in Nat /\ 2^(b + 1) \in Nat
  BY PowerOfTwo
<1>2. v < 2^(b + 1) <=> \A j \in Nat : j >= b + 1 => bit(v, j) = 0
  BY HighBits
<1>3. \A j \in Nat : j >= b + 1 <=> j > b
  OBVIOUS
<1>4. v < 2^b <=> \A j \in Nat : j >= b => bit(v, j) = 0
  BY HighBits
<1>5. \A j \in Nat : j >= b <=> j = b \/ j > b
  OBVIOUS
<1>6. bit(v, b) \in {0, 1}
  BY BitIsBit
<1>7. 2^b <= v <=> ~(v < 2^b)
  BY <1>1
<1> QED BY <1>2, <1>3, <1>4, <1>5, <1>6, <1>7

(* slim finds the level of its code *)
LEMMA LevelOfCode ==
  ASSUME NEW n \in Path, Fits(Len(n)), NEW v, IsCode(v, n)
  PROVE  level_slim(v) = Len(n)
<1> DEFINE L == Len(n)
           Top(b) == 2^b <= v /\ v < 2^(b + 1)
<1>1. v \in Nat /\ \A j \in Nat, d \in Dimension :
        bit(v, Nd * j + (d - 1)) =
          IF j < L THEN bit(n[L - j], d - 1) ELSE IF j = L /\ d = 1 THEN 1 ELSE 0
  BY DEF IsCode
<1>2. L \in Nat /\ 1 \in Dimension /\ Nd * L \in Bit /\ Nd * L \in Nat /\ Nd * L + (1 - 1) = Nd * L
  <2>1. L \in Nat /\ Nd * L \in Bit
    BY FittingBits
  <2>2. 1 \in Dimension
    BY Positions
  <2>3. Nd * L \in Nat /\ Nd * L + (1 - 1) = Nd * L
    BY <2>1, NdAssumption
  <2> QED BY <2>1, <2>2, <2>3
<1>3. bit(v, Nd * L) = 1
  <2>1. ~(L < L)
    BY <1>2
  <2>2. bit(v, Nd * L + (1 - 1)) = 1
    BY <1>1, <1>2, <2>1
  <2> QED BY <1>2, <2>2
<1>4. ASSUME NEW b \in Nat, b > Nd * L PROVE bit(v, b) = 0
  <2>1. PICK j \in Nat, d \in Dimension : b = Nd * j + (d - 1)
    BY BitsByDimension
  <2>2. ~(j < L) /\ ~(j = L /\ d = 1)
    BY <1>2, <1>4, <2>1, Positions
  <2> QED BY <1>1, <2>1, <2>2
<1>5. Bit \subseteq Nat
  BY WidthAssumption DEF Bit
<1>6. \A b \in Bit : Top(b) <=> b = Nd * L
  <2>1. ASSUME NEW b \in Bit PROVE Top(b) <=> bit(v, b) = 1 /\ \A j \in Nat : j > b => bit(v, j) = 0
    BY <1>1, <1>5, TopBit
  <2>2. ASSUME NEW b \in Bit, b # Nd * L, bit(v, b) = 1, \A j \in Nat : j > b => bit(v, j) = 0
        PROVE  FALSE
    <3>1. b \in Nat /\ (b > Nd * L \/ Nd * L > b)
      BY <1>2, <1>5, <2>2
    <3> QED BY <1>2, <1>3, <1>4, <2>2, <3>1
  <2> HIDE DEF Top
  <2> QED BY <1>2, <1>3, <1>4, <2>1, <2>2
<1>7. (CHOOSE b \in Bit : Top(b)) = Nd * L
  <2> HIDE DEF Top
  <2> QED BY <1>2, <1>6
<1>8. (Nd * L) \div Nd = L
  BY <1>2, Positions
<1> QED BY <1>7, <1>8 DEF level_slim

(* ... and the position at each of its levels. *)
LEMMA PositionInCode ==
  ASSUME NEW n \in Path, Fits(Len(n)), NEW v, IsCode(v, n), NEW l \in 1 .. Len(n)
  PROVE  at_slim(v, l) = n[l]
<1> DEFINE L == Len(n)
           w == v \div 2^((L - l) * Nd)
<1>1. v \in Nat /\ \A j \in Nat, d \in Dimension :
        bit(v, Nd * j + (d - 1)) = IF j < L THEN bit(n[L - j], d - 1)
                                   ELSE IF j = L /\ d = 1 THEN 1 ELSE 0
  BY DEF IsCode
<1>2. L \in Nat /\ n[l] \in child_pos
  BY PositionsOfPath
<1>3. PICK j \in Nat : j = L - l /\ j < L /\ L - j = l
  BY <1>2
<1>4. PICK s \in Nat : s = (L - l) * Nd /\ s = Nd * j
  BY <1>3, Positions
<1>5. w \in Nat /\ \A i \in Nat : bit(w, i) = bit(v, s + i)
  <2>1. w = v \div 2^s
    BY <1>4, Zenon
  <2>2. v \in Nat
    BY <1>1
  <2> HIDE DEF w
  <2> QED BY <2>1, <2>2, BitsShifted
<1>6. \A d \in Dimension : bit(w, d - 1) = bit(n[l], d - 1)
  <2>1. \A d \in Dimension : d - 1 \in Nat
    BY Positions
  <2>2. \A d \in Dimension : bit(v, Nd * j + (d - 1)) = bit(n[l], d - 1)
    BY <1>1, <1>3
  <2> HIDE DEF w
  <2> QED BY <1>4, <1>5, <2>1, <2>2
<1> HIDE DEF w
<1>7. w % no_children(Nd) = n[l]
  <2>1. PICK p \in child_pos : p = w % no_children(Nd)
                               /\ \A d \in Dimension : bit(p, d - 1) = bit(w, d - 1)
    BY <1>5, BitsOfRest
  <2>2. p = n[l]
    BY <1>2, <1>6, <2>1, PositionUnique
  <2> QED BY <2>1, <2>2
<1>8. level_slim(v) = L
  BY LevelOfCode
<1> QED BY <1>7, <1>8 DEF at_slim, w

(* So slim stands for the path. *)
LEMMA PathOfCode ==
  ASSUME NEW n \in Path, Fits(Len(n)), NEW v, IsCode(v, n)
  PROVE  PathOfSlim(v) = n
<1>1. level_slim(v) = Len(n) /\ \A l \in 1 .. Len(n) : at_slim(v, l) = n[l]
  BY LevelOfCode, PositionInCode
<1>2. n = [l \in 1 .. Len(n) |-> n[l]]
  <2>1. n \in Seq(child_pos)
    BY DEF Path
  <2> QED BY <2>1
<1>3. PathOfSlim(v) = [l \in 1 .. Len(n) |-> at_slim(v, l)]
  BY <1>1 DEF PathOfSlim
<1> QED BY <1>1, <1>2, <1>3

(* bit::set sets a bit to a value, and no other. *)
LEMMA SetBit ==
  ASSUME NEW x \in Nat, NEW k \in Nat, NEW value \in {0, 1}
  PROVE  /\ set_bit(x, k, value) \in Nat
         /\ \A j \in Nat : bit(set_bit(x, k, value), j) = IF j = k THEN value ELSE bit(x, j)
<1>1. bit(x, k) \in {0, 1} /\ 2^k \in Nat
  BY BitIsBit, PowerOfTwo
<1>2. set_bit(x, k, value) = x + (value - bit(x, k)) * 2^k
  BY DEF set_bit
<1>3. CASE bit(x, k) = value
  <2>1. set_bit(x, k, value) = x
    BY <1>1, <1>2, <1>3
  <2> QED BY <1>3, <2>1
<1>4. CASE bit(x, k) = 0 /\ value = 1
  <2>1. set_bit(x, k, value) = x + 2^k
    BY <1>1, <1>2, <1>4
  <2>2. BitSet(x, k, x + 2^k)
    BY <1>4, BitAdded
  <2> QED BY <1>4, <2>1, <2>2 DEF BitSet
<1>5. CASE bit(x, k) = 1 /\ value = 0
  <2>1. set_bit(x, k, value) = x - 2^k
    BY <1>1, <1>2, <1>5
  <2>2. BitCleared(x, k, x - 2^k)
    BY <1>5, BitAdded
  <2> QED BY <1>5, <2>1, <2>2 DEF BitCleared
<1> QED BY <1>1, <1>3, <1>4, <1>5

(* The bits of an integer are finitely many. *)
LEMMA BitsOfInteger ==
  IsFiniteSet(Bit) /\ Bit \subseteq Nat
<1>1. IsFiniteSet(0 .. Width - 1)
  BY FS_Interval, WidthAssumption
<1> QED BY <1>1, WidthAssumption DEF Bit

(* Interleaving puts bit j of dimension d where Interleaved says. *)
LEMMA MortonBits ==
  ASSUME NEW xs \in [Dimension -> Nat]
  PROVE  /\ morton_encode(xs) \in Nat
         /\ \A j \in Nat, d \in Dimension :
              bit(morton_encode(xs), Nd * j + (d - 1)) =
                IF Nd * j + (d - 1) \in Bit THEN bit(xs[d], j) ELSE 0
<1> DEFINE S == Bit
           E(b) == bit(xs[(b % Nd) + 1], b \div Nd)
           F(b) == E(b) * 2^b
           f == [b \in S |-> F(b)]
           e == [b \in S |-> E(b)]
           g == [b \in S |-> b]
           C(T) == CHOOSE x \in T : TRUE
           Summed(it) == it = [T \in SUBSET S |->
                                 IF T = {} THEN 0 ELSE F(C(T)) + it[T \ {C(T)}]]
<1>1. \A b \in S : E(b) \in {0, 1}
  <2> SUFFICES ASSUME NEW b \in S PROVE E(b) \in {0, 1}
    OBVIOUS
  <2>1. b \in Nat /\ b \div Nd \in Nat /\ (b % Nd) + 1 \in Dimension
    BY BitsOfInteger, Interleaved
  <2>2. xs[(b % Nd) + 1] \in Nat
    BY <2>1
  <2> QED BY <2>1, <2>2, BitIsBit
<1>2. \A j \in Nat, d \in Dimension : E(Nd * j + (d - 1)) = bit(xs[d], j)
  <2> SUFFICES ASSUME NEW j \in Nat, NEW d \in Dimension PROVE E(Nd * j + (d - 1)) = bit(xs[d], j)
    OBVIOUS
  <2>1. PICK b \in Nat : b = Nd * j + (d - 1) /\ b \div Nd = j /\ b % Nd = d - 1
    BY Interleaved
  <2>2. (b % Nd) + 1 = d
    BY <2>1, NdAssumption DEF Dimension
  <2> QED BY <2>1, <2>2
<1>0. IsFiniteSet(S) /\ S \subseteq Nat /\ S = Bit
  BY BitsOfInteger
<1> HIDE DEF E, S
<1>3. \A b \in S : F(b) \in Int
  BY <1>1, <1>0, PowerOfTwo
<1>4. \A b \in S : F(b) = e[b] * 2^g[b] /\ f[b] = F(b)
  OBVIOUS
<1> HIDE DEF F
<1>5. f \in [S -> Int] /\ e \in [S -> {0, 1}] /\ g \in [S -> Nat]
  BY <1>1, <1>3, <1>0
<1>6. \A b \in S : g[b] = b /\ e[b] = E(b)
  OBVIOUS
<1> HIDE DEF f, e, g
<1>7. \A it : IsSum(it, f, S) <=> Summed(it)
  <2>1. \A T \in SUBSET S : T # {} => f[C(T)] = F(C(T))
    BY <1>4
  <2> SUFFICES ASSUME NEW it PROVE IsSum(it, f, S) <=> Summed(it)
    OBVIOUS
  <2>2. [T \in SUBSET S |-> IF T = {} THEN 0 ELSE f[C(T)] + it[T \ {C(T)}]]
          = [T \in SUBSET S |-> IF T = {} THEN 0 ELSE F(C(T)) + it[T \ {C(T)}]]
    <3> HIDE DEF C
    <3> QED BY <2>1
  <2> QED BY <2>2, Zenon DEF IsSum
<1>8. \E it : Summed(it)
  <2>1. PICK it : IsSum(it, f, S)
    BY <1>5, <1>0, SumExists
  <2>2. Summed(it)
    BY <2>1, <1>7, Zenon
  <2> HIDE DEF Summed
  <2> QED BY <2>2, Zenon
<1>9. PICK it : Summed(it) /\ morton_encode(xs) = it[S]
  <2>1. morton_encode(xs) = (CHOOSE it : Summed(it))[S]
    BY Zenon DEF morton_encode, MapThenSumSet, MapThenFoldSet, F, E, S
  <2>2. Summed(CHOOSE it : Summed(it))
    <3> HIDE DEF Summed
    <3> QED BY <1>8, Zenon
  <2> HIDE DEF Summed
  <2> QED BY <2>1, <2>2, Zenon
<1>10. IsSum(it, f, S)
  BY <1>7, <1>9, Zenon
<1>11. \A b \in S : f[b] = e[b] * 2^g[b]
  BY <1>4
<1>12. \A x, y \in S : g[x] = g[y] => x = y
  BY <1>6
<1>13. /\ it[S] \in Nat
       /\ \A k \in Nat : bit(it[S], k) = IF \E b \in S : g[b] = k /\ e[b] = 1 THEN 1 ELSE 0
  <2>1. BinaryTerms(f, g, e, S)
    BY <1>0, <1>5, <1>11, <1>12 DEF BinaryTerms
  <2> HIDE DEF Summed
  <2>2. BitsOfTerms(it[S], g, e, S)
    BY <2>1, <1>10, BinarySum, Zenon
  <2> QED BY <2>2 DEF BitsOfTerms
<1>14. ASSUME NEW j \in Nat, NEW d \in Dimension
       PROVE  bit(it[S], Nd * j + (d - 1)) =
                IF Nd * j + (d - 1) \in Bit THEN bit(xs[d], j) ELSE 0
  <2>1. PICK b \in Nat : b = Nd * j + (d - 1) /\ E(b) = bit(xs[d], j)
    BY <1>2, Interleaved
  <2>2. bit(it[S], b) = IF b \in S /\ E(b) = 1 THEN 1 ELSE 0
    BY <1>6, <1>13
  <2>3. b \in S => E(b) \in {0, 1}
    BY <1>1
  <2> QED BY <1>0, <2>1, <2>2, <2>3
<1> QED BY <1>9, <1>13, <1>14

(* ... and taking them apart finds them there. *)
LEMMA DecodedBits ==
  ASSUME NEW v \in Nat, NEW d \in Dimension
  PROVE  /\ morton_decode(v)[d] \in Nat
         /\ \A j \in Nat :
              bit(morton_decode(v)[d], j) =
                IF Nd * j + (d - 1) \in decode_mask(d) THEN bit(v, Nd * j + (d - 1)) ELSE 0
<1> DEFINE S == decode_mask(d)
           F(b) == bit(v, b) * 2^(b \div Nd)
           f == [b \in S |-> F(b)]
           e == [b \in S |-> bit(v, b)]
           g == [b \in S |-> b \div Nd]
           C(T) == CHOOSE x \in T : TRUE
           Summed(it) == it = [T \in SUBSET S |->
                                 IF T = {} THEN 0 ELSE F(C(T)) + it[T \ {C(T)}]]
<1>1. /\ \A b \in S : b \in Bit /\ b \in Nat /\ b \div Nd \in Nat /\ b = Nd * (b \div Nd) + (d - 1)
      /\ \A b \in S : bit(v, b) \in {0, 1}
  <2>1. \A b \in S : b \in Bit /\ b \in Nat /\ b % Nd = d - 1
    BY BitsOfInteger DEF decode_mask
  <2> QED BY <2>1, Interleaved, BitIsBit
<1>2. \A j \in Nat : (Nd * j + (d - 1)) \div Nd = j
  BY Interleaved
<1>3. IsFiniteSet(S)
  <2>1. S \subseteq Bit
    BY DEF decode_mask
  <2> QED BY <2>1, BitsOfInteger, FS_Subset
<1> HIDE DEF S
<1>4. \A b \in S : F(b) \in Int
  BY <1>1, PowerOfTwo
<1>5. \A b \in S : F(b) = e[b] * 2^g[b] /\ f[b] = F(b)
  OBVIOUS
<1> HIDE DEF F
<1>6. f \in [S -> Int] /\ e \in [S -> {0, 1}] /\ g \in [S -> Nat]
  BY <1>1, <1>4
<1>7. \A b \in S : g[b] = b \div Nd /\ e[b] = bit(v, b)
  OBVIOUS
<1> HIDE DEF f, e, g
<1>8. \A it : IsSum(it, f, S) <=> Summed(it)
  <2>1. \A T \in SUBSET S : T # {} => f[C(T)] = F(C(T))
    BY <1>5
  <2> QED BY <2>1, ZenonT(60) DEF IsSum
<1>9. \E it : Summed(it)
  <2>1. PICK it : IsSum(it, f, S)
    BY <1>3, <1>6, SumExists
  <2>2. Summed(it)
    BY <2>1, <1>8, Zenon
  <2> HIDE DEF Summed
  <2> QED BY <2>2, Zenon
<1>10. PICK it : Summed(it) /\ morton_decode(v)[d] = it[S]
  <2>1. morton_decode(v)[d] = MapThenSumSet(LAMBDA b : F(b), S)
    BY DEF morton_decode, F, S
  <2>2. MapThenSumSet(LAMBDA b : F(b), S) = (CHOOSE it : Summed(it))[S]
    BY Zenon DEF MapThenSumSet, MapThenFoldSet
  <2>3. Summed(CHOOSE it : Summed(it))
    <3> HIDE DEF Summed
    <3> QED BY <1>9, Zenon
  <2> HIDE DEF Summed
  <2> QED BY <2>1, <2>2, <2>3, Zenon
<1>11. IsSum(it, f, S)
  BY <1>8, <1>10, Zenon
<1>12. \A b \in S : f[b] = e[b] * 2^g[b]
  BY <1>5
<1>13. \A x, y \in S : g[x] = g[y] => x = y
  <2>1. \A b \in S : b = Nd * g[b] + (d - 1)
    BY <1>1, <1>7
  <2> QED BY <2>1
<1>14. /\ it[S] \in Nat
       /\ \A k \in Nat : bit(it[S], k) = IF \E b \in S : g[b] = k /\ e[b] = 1 THEN 1 ELSE 0
  <2>1. BinaryTerms(f, g, e, S)
    BY <1>3, <1>6, <1>12, <1>13 DEF BinaryTerms
  <2> HIDE DEF Summed
  <2>2. BitsOfTerms(it[S], g, e, S)
    BY <2>1, <1>11, BinarySum, Zenon
  <2> QED BY <2>2 DEF BitsOfTerms
<1>15. ASSUME NEW j \in Nat
       PROVE  bit(it[S], j) =
                IF Nd * j + (d - 1) \in S THEN bit(v, Nd * j + (d - 1)) ELSE 0
  <2>1. PICK b \in Nat : b = Nd * j + (d - 1)
    BY Interleaved
  <2>2. b \in S => g[b] = j /\ e[b] = bit(v, b)
    BY <1>2, <1>7, <2>1
  <2>3. \A c \in S : g[c] = j => c = b /\ e[c] = bit(v, b) /\ bit(v, b) \in {0, 1}
    BY <1>1, <1>7, <2>1
  <2>4. bit(it[S], j) = IF \E c \in S : g[c] = j /\ e[c] = 1 THEN 1 ELSE 0
    BY <1>14
  <2>5. CASE b \in S
    <3>1. bit(v, b) \in {0, 1}
      BY <2>2, <2>3, <2>5
    <3> QED BY <2>1, <2>2, <2>3, <2>4, <2>5, <3>1
  <2>6. CASE b \notin S
    BY <2>1, <2>3, <2>4, <2>6
  <2> QED BY <2>5, <2>6
<1> QED BY <1>10, <1>14, <1>15 DEF S

(* Encoding the coordinates of a path gives its code, *)
LEMMA EncodeIsCode ==
  ASSUME NEW n \in Path, Fits(Len(n)), NEW xs \in [Dimension -> Nat],
         \A d \in Dimension : xs[d] = Coordinate(n, d)
  PROVE  IsCode(encode(xs, Len(n)), n)
<1> DEFINE L == Len(n)
           y == set_bit(xs[1], L, 1)
           ys == [xs EXCEPT ![1] = y]
<1>1. L \in Nat /\ 1 \in Dimension /\ xs[1] \in Nat
  BY PositionsOfPath, Positions
<1>2. y \in Nat /\ \A j \in Nat : bit(y, j) = IF j = L THEN 1 ELSE bit(xs[1], j)
  BY <1>1, SetBit
<1>3. encode(xs, L) = morton_encode(ys)
  BY DEF encode
<1> HIDE DEF y, L
<1>4. ys \in [Dimension -> Nat] /\ ys[1] = y /\ \A d \in Dimension : d # 1 => ys[d] = xs[d]
  BY <1>1, <1>2
<1> HIDE DEF ys
<1>5. /\ morton_encode(ys) \in Nat
      /\ \A j \in Nat, d \in Dimension :
           bit(morton_encode(ys), Nd * j + (d - 1)) =
             IF Nd * j + (d - 1) \in Bit THEN bit(ys[d], j) ELSE 0
  BY <1>4, MortonBits
<1>6. \A d \in Dimension : \A j \in Nat :
        bit(xs[d], j) = IF j < L THEN bit(n[L - j], d - 1) ELSE 0
  BY BitsOfCoordinate DEF L
<1>7. \A j \in Nat, d \in Dimension : j <= L => Nd * j + (d - 1) \in Bit
  BY FittingBits DEF L
<1>8. ASSUME NEW j \in Nat, NEW d \in Dimension
      PROVE  bit(morton_encode(ys), Nd * j + (d - 1)) =
               IF j < L THEN bit(n[L - j], d - 1) ELSE IF j = L /\ d = 1 THEN 1 ELSE 0
  <2>1. bit(ys[d], j) = IF j < L THEN bit(n[L - j], d - 1) ELSE IF j = L /\ d = 1 THEN 1 ELSE 0
    <3>1. CASE d = 1
      <4>1. bit(ys[d], j) = IF j = L THEN 1 ELSE bit(xs[1], j)
        BY <1>2, <1>4, <3>1
      <4>2. j = L => ~(j < L)
        BY <1>1
      <4> QED BY <1>6, <3>1, <4>1, <4>2
    <3>2. CASE d # 1
      BY <1>4, <1>6, <3>2
    <3> QED BY <3>1, <3>2
  <2>2. j < L => j <= L
    BY <1>1
  <2>3. j = L => j <= L
    BY <1>1
  <2>4. CASE j <= L
    BY <1>5, <1>7, <2>1, <2>4
  <2>5. CASE ~(j <= L)
    BY <1>5, <2>1, <2>2, <2>3, <2>5
  <2> QED BY <2>4, <2>5
<1> QED BY <1>3, <1>5, <1>8 DEF IsCode, L

(* ... and decoding the code its coordinates. *)
LEMMA DecodeCode ==
  ASSUME NEW n \in Path, Fits(Len(n)), NEW v, IsCode(v, n)
  PROVE  decode(v, Len(n)) = Coordinates(n)
<1> DEFINE L == Len(n)
           xs == morton_decode(v)
           y == set_bit(xs[1], L, 0)
<1>1. L \in Nat /\ 1 \in Dimension
  BY PositionsOfPath, Positions
<1>2. v \in Nat /\ \A j \in Nat, d \in Dimension :
        bit(v, Nd * j + (d - 1)) =
          IF j < L THEN bit(n[L - j], d - 1) ELSE IF j = L /\ d = 1 THEN 1 ELSE 0
  BY DEF IsCode
<1>3. \A j \in Nat, d \in Dimension : j < L => Nd * j + (d - 1) \in decode_mask(d)
  BY FittingMask
<1>4. xs = [d \in Dimension |-> xs[d]]
  BY DEF morton_decode
<1>5. \A d \in Dimension :
        /\ xs[d] \in Nat
        /\ \A j \in Nat :
             bit(xs[d], j) =
               IF Nd * j + (d - 1) \in decode_mask(d) THEN bit(v, Nd * j + (d - 1)) ELSE 0
  BY <1>2, DecodedBits
<1> HIDE DEF xs
<1>6. y \in Nat /\ \A j \in Nat : bit(y, j) = IF j = L THEN 0 ELSE bit(xs[1], j)
  BY <1>1, <1>5, SetBit
<1>7. decode(v, L) = [xs EXCEPT ![1] = y]
  BY DEF decode, xs
<1> HIDE DEF y, L
<1>8. \A d \in Dimension : /\ Coordinate(n, d) \in Nat
                           /\ \A j \in Nat : bit(Coordinate(n, d), j) =
                                IF j < L THEN bit(n[L - j], d - 1) ELSE 0
  BY BitsOfCoordinate DEF L
<1>9. \A d \in Dimension, j \in Nat : j # L \/ d # 1 =>
        bit(xs[d], j) = IF j < L THEN bit(n[L - j], d - 1) ELSE 0
  <2> SUFFICES ASSUME NEW d \in Dimension, NEW j \in Nat, j # L \/ d # 1
               PROVE  bit(xs[d], j) = IF j < L THEN bit(n[L - j], d - 1) ELSE 0
    OBVIOUS
  <2>1. CASE j < L
    BY <1>2, <1>3, <1>5, <2>1
  <2>2. CASE ~(j < L)
    BY <1>2, <1>5, <2>2
  <2> QED BY <2>1, <2>2
<1>10. y = Coordinate(n, 1)
  <2>1. \A j \in Nat : bit(y, j) = bit(Coordinate(n, 1), j)
    BY <1>1, <1>6, <1>8, <1>9
  <2> QED BY <1>1, <1>6, <1>8, <2>1, BitsDetermine DEF SameBits
<1>11. ASSUME NEW d \in Dimension, d # 1 PROVE xs[d] = Coordinate(n, d)
  <2>1. \A j \in Nat : bit(xs[d], j) = bit(Coordinate(n, d), j)
    BY <1>8, <1>9, <1>11
  <2> QED BY <1>5, <1>8, <2>1, BitsDetermine DEF SameBits
<1>12. [xs EXCEPT ![1] = y] = [d \in Dimension |-> Coordinate(n, d)]
  BY <1>1, <1>4, <1>10, <1>11
<1> QED BY <1>7, <1>12 DEF Coordinates, L

(* Every path that fits has a code. *)
CodeOf(n) == CHOOSE v : IsCode(v, n)

(* It is the only one. *)
LEMMA CodeExists ==
  ASSUME NEW n \in Path, Fits(Len(n))
  PROVE  IsCode(CodeOf(n), n) /\ \A v : IsCode(v, n) => v = CodeOf(n)
<1> DEFINE xs == [d \in Dimension |-> Coordinate(n, d)]
<1>1. xs \in [Dimension -> Nat] /\ \A d \in Dimension : xs[d] = Coordinate(n, d)
  BY BitsOfCoordinate
<1> HIDE DEF xs
<1>2. IsCode(encode(xs, Len(n)), n)
  BY <1>1, EncodeIsCode
<1>3. IsCode(CodeOf(n), n)
  BY <1>2, Zenon DEF CodeOf
<1>4. \A v : IsCode(v, n) => v = CodeOf(n)
  BY <1>3, CodeUnique, Zenon
<1> QED BY <1>3, <1>4

(* The path from the node up. *)
Reversed(n) == [k \in DOMAIN n |-> n[Len(n) + 1 - k]]

(* slim reverses its code position by position. *)
LEMMA CodeOfReverse ==
  ASSUME NEW n \in Path, Fits(Len(n)), NEW v, IsCode(v, n)
  PROVE  Reversed(n) \in Path /\ Len(Reversed(n)) = Len(n) /\ IsCode(reverse_slim(v), Reversed(n))
<1> DEFINE L == Len(n)
           q(k) == [i \in 1 .. k |-> n[L + 1 - i]]
           Built(r) == r = [k \in 0 .. L |-> IF k = 0 THEN 1
                                            ELSE push_slim(r[k - 1], at_slim(v, L + 1 - k))]
           r0 == [k \in 0 .. L |-> CodeOf(q(k))]
<1>1. L \in Nat /\ DOMAIN n = 1 .. L /\ \A k \in 1 .. L : n[k] \in child_pos
  BY PositionsOfPath
<1>2. \A k \in 1 .. L : at_slim(v, L + 1 - k) = n[L + 1 - k]
  <2>1. \A k \in 1 .. L : L + 1 - k \in 1 .. L
    BY <1>1
  <2> QED BY <2>1, PositionInCode
<1> HIDE DEF L
<1>3. \A k \in 0 .. L : q(k) \in Path /\ Len(q(k)) = k /\ Fits(k)
  <2> SUFFICES ASSUME NEW k \in 0 .. L PROVE q(k) \in Path /\ Len(q(k)) = k /\ Fits(k)
    OBVIOUS
  <2>1. \A i \in 1 .. k : L + 1 - i \in 1 .. L
    BY <1>1
  <2>2. q(k) \in [1 .. k -> child_pos] /\ k \in Nat
    BY <1>1, <2>1
  <2> HIDE DEF q
  <2>3. q(k) \in Seq(child_pos) /\ Len(q(k)) = k
    BY <2>2
  <2>4. Fits(k)
    <3>1. max_level_slim \in Int
      BY WidthAssumption, Positions DEF max_level_slim
    <3>2. Fits(L)
      BY DEF L
    <3> QED BY <1>1, <3>1, <3>2 DEF Fits
  <2> QED BY <2>3, <2>4 DEF Path
<1>4. \A k \in 1 .. L : q(k) = Append(q(k - 1), n[L + 1 - k]) /\ k - 1 \in 0 .. L
                        /\ n[L + 1 - k] \in child_pos
  <2> SUFFICES ASSUME NEW k \in 1 .. L
               PROVE  q(k) = Append(q(k - 1), n[L + 1 - k]) /\ k - 1 \in 0 .. L
                      /\ n[L + 1 - k] \in child_pos
    OBVIOUS
  <2>1. k - 1 \in 0 .. L /\ L + 1 - k \in 1 .. L
    BY <1>1
  <2>2. Len(q(k - 1)) = k - 1 /\ q(k - 1) \in Seq(child_pos)
    BY <1>3, <2>1 DEF Path
  <2>3. q(k) \in Seq(child_pos) /\ Len(q(k)) = k
    BY <1>1, <1>3 DEF Path
  <2>4. n[L + 1 - k] \in child_pos /\ (k - 1) + 1 = k
    BY <1>1, <2>1
  <2>5. /\ \A i \in 1 .. k : q(k)[i] = n[L + 1 - i]
        /\ \A i \in 1 .. k - 1 : q(k - 1)[i] = n[L + 1 - i]
    OBVIOUS
  <2> HIDE DEF q
  <2>6. PICK s \in Seq(child_pos) : s = Append(q(k - 1), n[L + 1 - k]) /\ Len(s) = k
                                   /\ s[k] = n[L + 1 - k]
                                   /\ \A i \in 1 .. k - 1 : s[i] = q(k - 1)[i]
    <3>1. PICK u \in Seq(child_pos), p \in child_pos :
                 u = q(k - 1) /\ p = n[L + 1 - k] /\ Len(u) = k - 1
      BY <2>2, <2>4
    <3>2. /\ Append(u, p) \in Seq(child_pos) /\ Len(Append(u, p)) = k
          /\ Append(u, p)[k] = p /\ \A i \in 1 .. k - 1 : Append(u, p)[i] = u[i]
      BY <2>4, <3>1, AppendProperties
    <3> QED BY <3>1, <3>2
  <2>7. \A i \in 1 .. k : s[i] = q(k)[i]
    <3>1. \A i \in 1 .. k : i = k \/ i \in 1 .. k - 1
      BY <1>1
    <3> QED BY <2>5, <2>6, <3>1
  <2>8. s = q(k)
    BY <2>3, <2>6, <2>7, SeqEqual
  <2> QED BY <2>1, <2>4, <2>6, <2>8
<1> HIDE DEF q
<1>5. \A k \in 0 .. L : IsCode(CodeOf(q(k)), q(k)) /\ \A w : IsCode(w, q(k)) => w = CodeOf(q(k))
  BY <1>3, CodeExists
<1>6. q(0) = <<>> /\ CodeOf(q(0)) = 1
  <2>1. 0 \in 0 .. L /\ Len(q(0)) = 0 /\ q(0) \in Seq(child_pos)
    BY <1>1, <1>3 DEF Path
  <2>2. q(0) = <<>>
    BY <2>1
  <2> QED BY <1>5, <2>1, <2>2, CodeOfRoot
<1>7. \A k \in 1 .. L : CodeOf(q(k)) = push_slim(CodeOf(q(k - 1)), at_slim(v, L + 1 - k))
  <2> SUFFICES ASSUME NEW k \in 1 .. L
               PROVE  CodeOf(q(k)) = push_slim(CodeOf(q(k - 1)), at_slim(v, L + 1 - k))
    OBVIOUS
  <2>1. PICK p \in child_pos : p = n[L + 1 - k] /\ q(k) = Append(q(k - 1), p)
    BY <1>4
  <2>2. k \in 0 .. L /\ k - 1 \in 0 .. L
    BY <1>1
  <2>3. IsCode(push_slim(CodeOf(q(k - 1)), p), q(k))
    BY <1>3, <1>5, <2>1, <2>2, CodeOfChild
  <2> QED BY <1>2, <1>5, <2>1, <2>2, <2>3
<1>8. Built(r0)
  <2>1. \A k \in 0 .. L : r0[k] = CodeOf(q(k))
    OBVIOUS
  <2>2. \A k \in 1 .. L : k - 1 \in 0 .. L
    BY <1>1
  <2>3. \A k \in 0 .. L : k = 0 \/ k \in 1 .. L
    BY <1>1
  <2>4. \A k \in 0 .. L : CodeOf(q(k)) = IF k = 0 THEN 1
                                         ELSE push_slim(r0[k - 1], at_slim(v, L + 1 - k))
    <3> HIDE DEF r0
    <3> QED BY <1>6, <1>7, <2>1, <2>2, <2>3
  <2> QED BY <2>4
<1>9. ASSUME NEW r, Built(r) PROVE r[L] = CodeOf(q(L))
  <2> DEFINE S == {k \in Nat : k \in 0 .. L => r[k] = CodeOf(q(k))}
  <2>1. \A k \in 0 .. L : r[k] = IF k = 0 THEN 1
                                 ELSE push_slim(r[k - 1], at_slim(v, L + 1 - k))
    BY <1>9
  <2>2. 0 \in S
    BY <1>6, <2>1
  <2>3. ASSUME NEW k \in Nat, k \in S PROVE k + 1 \in S
    <3> SUFFICES ASSUME k + 1 \in 0 .. L PROVE r[k + 1] = CodeOf(q(k + 1))
      OBVIOUS
    <3>1. k \in 0 .. L /\ k + 1 \in 1 .. L /\ (k + 1) - 1 = k /\ k + 1 # 0
      BY <1>1
    <3>2. r[k] = CodeOf(q(k))
      BY <2>3, <3>1
    <3>3. r[k + 1] = push_slim(r[k], at_slim(v, L + 1 - (k + 1)))
      BY <2>1, <3>1
    <3>4. CodeOf(q(k + 1)) = push_slim(CodeOf(q(k)), at_slim(v, L + 1 - (k + 1)))
      BY <1>7, <3>1
    <3> QED BY <3>2, <3>3, <3>4
  <2>4. Nat \subseteq S
    <3> HIDE DEF S
    <3> QED BY <2>2, <2>3, Induction
  <2>5. L \in Nat /\ L \in 0 .. L
    BY <1>1
  <2> QED BY <2>4, <2>5
<1>10. reverse_slim(v) = (CHOOSE r : Built(r))[L]
  <2>1. level_slim(v) = L
    BY LevelOfCode DEF L
  <2> QED BY <2>1, Zenon DEF reverse_slim
<1>11. Built(CHOOSE r : Built(r))
  <2> HIDE DEF Built, r0
  <2> QED BY <1>8, Zenon
<1>12. reverse_slim(v) = CodeOf(q(L))
  <2> HIDE DEF Built
  <2> QED BY <1>9, <1>10, <1>11, Zenon
<1>13. q(L) = Reversed(n) /\ L \in 0 .. L
  BY <1>1 DEF q, Reversed, L
<1> QED BY <1>3, <1>5, <1>12, <1>13 DEF L

(* An object of type fast stands for a path when bit k of a dimension is the *)
(* side of the ancestor at level k, whatever the bits above the level are.   *)
IsFast(f, n) ==
  /\ f = [level |-> Len(n), x |-> f.x]
  /\ f.x \in [Dimension -> [Bit -> {0, 1}]]
  /\ \A d \in Dimension, k \in 1 .. Len(n) : f.x[d][k] = bit(n[k], d - 1)

(* The root, whatever its bits are, stands for the empty path. *)
LEMMA FastOfRoot ==
  ASSUME NEW f \in [level : {0}, x : Junk]
  PROVE  IsFast(f, <<>>)
<1>1. f = [level |-> f.level, x |-> f.x] /\ f.level = 0 /\ f.x \in Junk
  OBVIOUS
<1>2. Len(<<>>) = 0
  OBVIOUS
<1>3. PICK j \in 0 .. 1 : f.x = [d \in Dimension |-> [b \in Bit |-> j]]
  BY <1>1 DEF Junk
<1>4. f.x \in [Dimension -> [Bit -> {0, 1}]]
  BY <1>3
<1> QED BY <1>1, <1>2, <1>4 DEF IsFast

(* push writes the bits of the new level, *)
LEMMA FastOfChild ==
  ASSUME NEW n \in Path, Fits(Len(n)), NEW f, IsFast(f, n), NEW p \in child_pos
  PROVE  IsFast(push_fast(f, p), Append(n, p))
<1> DEFINE L == Len(n)
           y == [d \in Dimension |-> [f.x[d] EXCEPT ![L + 1] = bit(p, d - 1)]]
           c == Append(n, p)
<1>1. /\ f.level = L /\ f.x \in [Dimension -> [Bit -> {0, 1}]]
      /\ \A d \in Dimension, k \in 1 .. L : f.x[d][k] = bit(n[k], d - 1)
  BY DEF IsFast
<1>2. push_fast(f, p) = [level |-> L + 1, x |-> y]
  BY <1>1 DEF push_fast
<1>3. L \in Nat /\ Len(c) = L + 1 /\ c[L + 1] = p /\ \A k \in 1 .. L : c[k] = n[k]
  <2>1. n \in Seq(child_pos) /\ L \in Nat
    BY PositionsOfPath DEF Path
  <2> QED BY <2>1
<1>4. L + 1 \in Bit /\ \A k \in 1 .. L : k \in Bit
  BY <1>3, FittingBits
<1> HIDE DEF L, c
<1>5. \A d \in Dimension : bit(p, d - 1) \in {0, 1}
  BY BitOfPosition
<1>6. \A d \in Dimension : /\ f.x[d] \in [Bit -> {0, 1}]
                           /\ y[d] = [f.x[d] EXCEPT ![L + 1] = bit(p, d - 1)]
  BY <1>1
<1>7. y \in [Dimension -> [Bit -> {0, 1}]]
  BY <1>5, <1>6
<1> HIDE DEF y
<1>8. ASSUME NEW d \in Dimension, NEW k \in 1 .. L + 1 PROVE y[d][k] = bit(c[k], d - 1)
  <2>1. CASE k = L + 1
    BY <1>3, <1>4, <1>6, <2>1
  <2>2. CASE k # L + 1
    <3>1. k \in 1 .. L
      BY <1>3, <2>2
    <3>2. y[d][k] = f.x[d][k]
      BY <1>4, <1>6, <2>2, <3>1
    <3> QED BY <1>1, <1>3, <3>1, <3>2
  <2> QED BY <2>1, <2>2
<1> QED BY <1>2, <1>3, <1>7, <1>8 DEF IsFast, c

(* pop leaves the bits of the ancestors alone, *)
LEMMA FastOfParent ==
  ASSUME NEW n \in Path, n # <<>>, NEW f, IsFast(f, n)
  PROVE  IsFast(pop_fast(f), SubSeq(n, 1, Len(n) - 1))
<1>1. PICK s \in Path, p \in child_pos :
             n = Append(s, p) /\ Len(s) = Len(n) - 1 /\ s = SubSeq(n, 1, Len(n) - 1)
  BY PathIsChild
<1>2. s \in Seq(child_pos) /\ Len(s) \in Nat /\ Len(n) = Len(s) + 1
  BY <1>1, PositionsOfPath DEF Path
<1>3. \A k \in 1 .. Len(s) : s[k] = n[k] /\ k \in 1 .. Len(n)
  BY <1>1, <1>2
<1>4. pop_fast(f) = [level |-> Len(s), x |-> f.x]
  BY <1>1 DEF pop_fast, IsFast
<1>5. f.x \in [Dimension -> [Bit -> {0, 1}]]
      /\ \A d \in Dimension, k \in 1 .. Len(s) : f.x[d][k] = bit(s[k], d - 1)
  BY <1>3 DEF IsFast
<1> QED BY <1>1, <1>4, <1>5 DEF IsFast

(* and reverse puts them in the opposite order. *)
LEMMA FastOfReverse ==
  ASSUME NEW n \in Path, Fits(Len(n)), NEW f, IsFast(f, n)
  PROVE  IsFast(reverse_fast(f), Reversed(n))
<1> DEFINE L == Len(n)
           y == [d \in Dimension |-> [b \in Bit |->
                   IF b \in 1 .. L THEN f.x[d][L + 1 - b] ELSE f.x[d][b]]]
<1>1. /\ f.level = L /\ f.x \in [Dimension -> [Bit -> {0, 1}]] /\ f = [level |-> L, x |-> f.x]
      /\ \A d \in Dimension, k \in 1 .. L : f.x[d][k] = bit(n[k], d - 1)
  BY DEF IsFast
<1>2. L \in Nat /\ DOMAIN n = 1 .. L /\ \A k \in 1 .. L : k \in Bit
  BY PositionsOfPath, FittingBits
<1>3. reverse_fast(f) = [level |-> L, x |-> y]
  <2>1. reverse_fast(f) = [f EXCEPT !.x = y]
    BY <1>1 DEF reverse_fast
  <2> HIDE DEF y, L
  <2> QED BY <1>1, <2>1
<1>4. Len(Reversed(n)) = L /\ \A k \in 1 .. L : Reversed(n)[k] = n[L + 1 - k] /\ L + 1 - k \in 1 .. L
  BY <1>2, CodeOfReverse, CodeExists DEF Reversed
<1> HIDE DEF L
<1>5. \A b \in 1 .. L : L + 1 - b \in 1 .. L
  BY <1>2
<1>6. \A d \in Dimension, b \in Bit :
        /\ f.x[d][b] \in {0, 1}
        /\ b \in 1 .. L => f.x[d][L + 1 - b] \in {0, 1}
  BY <1>1, <1>2, <1>5
<1>7. y \in [Dimension -> [Bit -> {0, 1}]]
  BY <1>6
<1>8. \A d \in Dimension, k \in 1 .. L : y[d][k] = f.x[d][L + 1 - k]
  BY <1>2
<1> HIDE DEF y
<1> QED BY <1>1, <1>3, <1>4, <1>5, <1>7, <1>8 DEF IsFast

(* The coordinate of a path is the sum of its sides by level. *)
LEMMA CoordinateSum ==
  ASSUME NEW n \in Path, NEW d \in Dimension, NEW L, L = Len(n), NEW t,
         \A k \in 1 .. L : t[k] = bit(n[k], d - 1) * 2^(L - k),
         NEW it, IsSum(it, t, 1 .. L)
  PROVE  it[1 .. L] = Coordinate(n, d)
<1> DEFINE S == 1 .. L
           e == [k \in S |-> bit(n[k], d - 1)]
           g == [k \in S |-> L - k]
<1>1. L \in Nat /\ \A k \in S : L - k \in Nat /\ bit(n[k], d - 1) \in {0, 1}
  BY PositionsOfPath, BitOfPosition
<1>2. IsFiniteSet(S)
  BY <1>1, FS_Interval
<1>3. \A j \in Nat : \A k \in S : L - k = j <=> j < L /\ k = L - j
  BY <1>1
<1>4. \A j \in Nat : j < L => L - j \in S
  BY <1>1
<1>5. \A x, y \in S : L - x = L - y => x = y
  BY <1>1
<1>6. \A k \in S : g[k] = L - k /\ e[k] = bit(n[k], d - 1)
  OBVIOUS
<1>7. e \in [S -> {0, 1}] /\ g \in [S -> Nat]
  BY <1>1
<1>8. IsSum(it, t, S) /\ \A k \in S : t[k] = bit(n[k], d - 1) * 2^(L - k)
  OBVIOUS
<1>9. S = 1 .. L
  OBVIOUS
<1> HIDE DEF S, e, g
<1>10. BinaryTerms(t, g, e, S)
  <2>1. \A x, y \in S : g[x] = g[y] => x = y
    BY <1>5, <1>6
  <2>2. \A k \in S : t[k] = e[k] * 2^g[k]
    BY <1>6, <1>8
  <2> QED BY <1>2, <1>7, <2>1, <2>2 DEF BinaryTerms
<1>11. BitsOfTerms(it[S], g, e, S)
  BY <1>8, <1>10, BinarySum, Zenon
<1>12. /\ Coordinate(n, d) \in Nat
       /\ \A j \in Nat : bit(Coordinate(n, d), j) = IF j < L THEN bit(n[L - j], d - 1) ELSE 0
  BY BitsOfCoordinate
<1>13. \A j \in Nat : bit(it[S], j) = bit(Coordinate(n, d), j)
  <2> SUFFICES ASSUME NEW j \in Nat PROVE bit(it[S], j) = bit(Coordinate(n, d), j)
    OBVIOUS
  <2>1. bit(it[S], j) = IF \E l \in S : g[l] = j /\ e[l] = 1 THEN 1 ELSE 0
    BY <1>11 DEF BitsOfTerms
  <2>2. CASE j < L
    <3>1. PICK o \in S : o = L - j /\ g[o] = j /\ e[o] = bit(n[o], d - 1) /\ e[o] \in {0, 1}
      BY <1>1, <1>3, <1>4, <1>6, <2>2
    <3>2. \A l \in S : g[l] = j => l = o
      BY <1>3, <1>6, <3>1
    <3>3. bit(Coordinate(n, d), j) = e[o]
      BY <1>12, <2>2, <3>1
    <3> QED BY <2>1, <3>1, <3>2, <3>3
  <2>3. CASE ~(j < L)
    <3>1. \A l \in S : g[l] # j
      BY <1>3, <1>6, <2>3
    <3> QED BY <1>12, <2>1, <2>3, <3>1
  <2> QED BY <2>2, <2>3
<1>14. it[S] \in Nat
  BY <1>11 DEF BitsOfTerms
<1> QED BY <1>9, <1>12, <1>13, <1>14, BitsDetermine DEF SameBits

(* The coordinate that fast finds along a dimension *)
LEMMA ToInt ==
  ASSUME NEW n \in Path, Fits(Len(n)), NEW f, IsFast(f, n), NEW d \in Dimension
  PROVE  to_int(f, d) = Coordinate(n, d)
<1> DEFINE L == f.level
           S == 1 .. L
           F(l) == f.x[d][l] * 2^(L - l)
           t == [l \in S |-> F(l)]
           C(T) == CHOOSE x \in T : TRUE
           Summed(it) == it = [T \in SUBSET S |->
                                 IF T = {} THEN 0 ELSE F(C(T)) + it[T \ {C(T)}]]
<1>1. L = Len(n) /\ \A k \in S : f.x[d][k] = bit(n[k], d - 1)
  BY DEF IsFast
<1>2. L \in Nat /\ \A k \in S : L - k \in Nat /\ bit(n[k], d - 1) \in {0, 1}
  BY <1>1, PositionsOfPath, BitOfPosition
<1>3. IsFiniteSet(S) /\ S = 1 .. L
  BY <1>2, FS_Interval
<1> HIDE DEF S, L
<1>4. \A k \in S : F(k) \in Int /\ F(k) = bit(n[k], d - 1) * 2^(L - k)
  <2> SUFFICES ASSUME NEW k \in S PROVE F(k) \in Int /\ F(k) = bit(n[k], d - 1) * 2^(L - k)
    OBVIOUS
  <2>1. 2^(L - k) \in Nat
    BY <1>2, PowerOfTwo
  <2> QED BY <1>1, <1>2, <2>1
<1> HIDE DEF F
<1>5. t \in [S -> Int] /\ \A k \in S : t[k] = F(k)
  BY <1>4
<1> HIDE DEF t
<1>6. \A it : IsSum(it, t, S) <=> Summed(it)
  <2>1. \A T \in SUBSET S : T # {} => t[C(T)] = F(C(T))
    BY <1>5
  <2> SUFFICES ASSUME NEW it PROVE IsSum(it, t, S) <=> Summed(it)
    OBVIOUS
  <2>2. [T \in SUBSET S |-> IF T = {} THEN 0 ELSE t[C(T)] + it[T \ {C(T)}]]
          = [T \in SUBSET S |-> IF T = {} THEN 0 ELSE F(C(T)) + it[T \ {C(T)}]]
    <3> HIDE DEF C
    <3> QED BY <2>1
  <2> QED BY <2>2, Zenon DEF IsSum
<1>7. \E it : Summed(it)
  <2>1. PICK it : IsSum(it, t, S)
    BY <1>3, <1>5, SumExists
  <2>2. Summed(it)
    BY <2>1, <1>6, Zenon
  <2> HIDE DEF Summed
  <2> QED BY <2>2, Zenon
<1>8. PICK it : Summed(it) /\ to_int(f, d) = it[S]
  <2>1. to_int(f, d) = MapThenSumSet(LAMBDA l : F(l), S)
    BY Zenon DEF to_int, F, S, L
  <2>2. MapThenSumSet(LAMBDA l : F(l), S) = (CHOOSE it : Summed(it))[S]
    BY Zenon DEF MapThenSumSet, MapThenFoldSet
  <2>3. Summed(CHOOSE it : Summed(it))
    <3> HIDE DEF Summed
    <3> QED BY <1>7, Zenon
  <2> HIDE DEF Summed
  <2> QED BY <2>1, <2>2, <2>3, Zenon
<1>9. IsSum(it, t, 1 .. L)
  BY <1>3, <1>6, <1>8, Zenon
<1>10. \A k \in 1 .. L : t[k] = bit(n[k], d - 1) * 2^(L - k)
  BY <1>3, <1>4, <1>5
<1>11. it[1 .. L] = Coordinate(n, d)
  BY <1>1, <1>9, <1>10, CoordinateSum
<1> QED BY <1>3, <1>8, <1>11

(* ... and the child position at a level. *)
LEMMA AtFast ==
  ASSUME NEW n \in Path, Fits(Len(n)), NEW f, IsFast(f, n), NEW l \in 1 .. Len(n)
  PROVE  at_fast(f, l) = n[l]
<1> DEFINE S == Dimension
           F(d) == f.x[d][l] * 2^(d - 1)
           t == [d \in S |-> F(d)]
           e == [d \in S |-> f.x[d][l]]
           g == [d \in S |-> d - 1]
           C(T) == CHOOSE x \in T : TRUE
           Summed(it) == it = [T \in SUBSET S |->
                                 IF T = {} THEN 0 ELSE F(C(T)) + it[T \ {C(T)}]]
<1>1. f.x \in [Dimension -> [Bit -> {0, 1}]] /\ \A d \in S : f.x[d][l] = bit(n[l], d - 1)
  BY DEF IsFast
<1>2. n[l] \in child_pos /\ n[l] \in Nat
  BY PositionsOfPath
<1>3. \A d \in S : f.x[d][l] \in {0, 1}
  BY <1>1, <1>2, BitOfPosition
<1>4. IsFiniteSet(S) /\ \A d \in S : d \in Nat /\ d - 1 \in Nat
  <2>1. IsFiniteSet(1 .. Nd)
    BY FS_Interval, NdAssumption
  <2> QED BY <2>1, PositionIsNatural DEF Dimension
<1>5. \A j \in Nat : j < Nd => j + 1 \in S
  BY Positions
<1>6. \A d \in S : d - 1 < Nd
  BY Positions
<1>8. S = Dimension
  OBVIOUS
<1> HIDE DEF S
<1>7. \A d \in S : F(d) \in Int
  <2> SUFFICES ASSUME NEW d \in S PROVE F(d) \in Int
    OBVIOUS
  <2>1. PICK w \in Nat : w = 2^(d - 1)
    BY <1>4, PowerOfTwo
  <2> QED BY <1>3, <2>1
<1>9. \A d \in S : F(d) = e[d] * 2^g[d] /\ t[d] = F(d)
  OBVIOUS
<1>10. t \in [S -> Int] /\ e \in [S -> {0, 1}] /\ g \in [S -> Nat]
  BY <1>3, <1>4, <1>7
<1>11. \A d \in S : g[d] = d - 1 /\ e[d] = f.x[d][l]
  OBVIOUS
<1> HIDE DEF F, t, e, g
<1>12. \A it : IsSum(it, t, S) <=> Summed(it)
  <2>1. \A T \in SUBSET S : T # {} => t[C(T)] = F(C(T))
    BY <1>9
  <2> SUFFICES ASSUME NEW it PROVE IsSum(it, t, S) <=> Summed(it)
    OBVIOUS
  <2>2. [T \in SUBSET S |-> IF T = {} THEN 0 ELSE t[C(T)] + it[T \ {C(T)}]]
          = [T \in SUBSET S |-> IF T = {} THEN 0 ELSE F(C(T)) + it[T \ {C(T)}]]
    <3> HIDE DEF C
    <3> QED BY <2>1
  <2> QED BY <2>2, Zenon DEF IsSum
<1>13. \E it : Summed(it)
  <2>1. PICK it : IsSum(it, t, S)
    BY <1>4, <1>10, SumExists
  <2>2. Summed(it)
    BY <2>1, <1>12, Zenon
  <2> HIDE DEF Summed
  <2> QED BY <2>2, Zenon
<1>14. PICK it : Summed(it) /\ at_fast(f, l) = it[S]
  <2>1. at_fast(f, l) = MapThenSumSet(LAMBDA d : F(d), S)
    BY DEF at_fast, F, S
  <2>2. MapThenSumSet(LAMBDA d : F(d), S) = (CHOOSE it : Summed(it))[S]
    BY Zenon DEF MapThenSumSet, MapThenFoldSet
  <2>3. Summed(CHOOSE it : Summed(it))
    <3> HIDE DEF Summed
    <3> QED BY <1>13, Zenon
  <2> HIDE DEF Summed
  <2> QED BY <2>1, <2>2, <2>3, Zenon
<1>15. IsSum(it, t, S)
  BY <1>12, <1>14, Zenon
<1>16. /\ it[S] \in Nat
       /\ \A k \in Nat : bit(it[S], k) = IF \E d \in S : g[d] = k /\ e[d] = 1 THEN 1 ELSE 0
  <2>1. \A x, y \in S : g[x] = g[y] => x = y
    BY <1>4, <1>11
  <2>2. \A d \in S : t[d] = e[d] * 2^g[d]
    BY <1>9
  <2>3. BinaryTerms(t, g, e, S)
    BY <1>4, <1>10, <2>1, <2>2 DEF BinaryTerms
  <2> HIDE DEF Summed
  <2>4. BitsOfTerms(it[S], g, e, S)
    BY <1>15, <2>3, BinarySum, Zenon
  <2> QED BY <2>4 DEF BitsOfTerms
<1>17. \A j \in Nat : j >= Nd => bit(n[l], j) = 0
  <2>1. n[l] < 2^Nd /\ Nd \in Nat
    <3>1. Nd \in Nat /\ 2^Nd \in Nat
      BY NdAssumption, PowerOfTwo
    <3> QED BY <1>2, <3>1 DEF child_pos, no_children
  <2> QED BY <1>2, <2>1, HighBits
<1>18. \A j \in Nat : bit(it[S], j) = bit(n[l], j)
  <2> SUFFICES ASSUME NEW j \in Nat PROVE bit(it[S], j) = bit(n[l], j)
    OBVIOUS
  <2>1. bit(it[S], j) = IF \E d \in S : g[d] = j /\ e[d] = 1 THEN 1 ELSE 0
    BY <1>16
  <2>2. CASE j < Nd
    <3>1. PICK o \in S : o = j + 1 /\ o - 1 = j
      BY <1>5, <2>2
    <3>2. g[o] = j /\ e[o] = bit(n[l], j) /\ e[o] \in {0, 1}
      BY <1>1, <1>3, <1>11, <3>1
    <3>3. \A d \in S : g[d] = j => d = o
      BY <1>4, <1>11, <3>1
    <3> QED BY <2>1, <3>2, <3>3
  <2>3. CASE ~(j < Nd)
    <3>1. \A d \in S : g[d] # j
      BY <1>6, <1>11, <2>3
    <3>2. j >= Nd
      BY <2>3, NdAssumption
    <3> QED BY <1>17, <2>1, <3>1, <3>2
  <2> QED BY <2>2, <2>3
<1> QED BY <1>2, <1>14, <1>16, <1>18, BitsDetermine DEF SameBits

(* The path that fast stands for. *)
LEMMA PathOfFastIs ==
  ASSUME NEW n \in Path, Fits(Len(n)), NEW f, IsFast(f, n)
  PROVE  PathOfFast(f) = n
<1>1. f.level = Len(n)
  BY DEF IsFast
<1>2. \A l \in 1 .. Len(n) : at_fast(f, l) = n[l]
  BY AtFast
<1>3. n = [l \in 1 .. Len(n) |-> n[l]]
  <2>1. n \in Seq(child_pos)
    BY DEF Path
  <2> QED BY <2>1
<1>4. PathOfFast(f) = [l \in 1 .. Len(n) |-> at_fast(f, l)]
  BY <1>1 DEF PathOfFast
<1> QED BY <1>2, <1>3, <1>4

(* Bits taken from the coordinates of a path stand for it. *)
LEMMA FastOfCoordinates ==
  ASSUME NEW n \in Path, NEW y \in [Dimension -> [Bit -> {0, 1}]],
         \A d \in Dimension, k \in 1 .. Len(n) : y[d][k] = bit(Coordinate(n, d), Len(n) - k)
  PROVE  IsFast([level |-> Len(n), x |-> y], n)
<1>1. \A d \in Dimension, k \in 1 .. Len(n) : y[d][k] = bit(n[k], d - 1)
  BY BitOfCoordinate
<1> QED BY <1>1 DEF IsFast

(* The test of an addition finds the sums out of range. *)
LEMMA Overflows ==
  ASSUME NEW v \in Nat, NEW by \in Int, NEW l \in Nat, v < 2^l
  PROVE  overflows_on_add(v, by, l) <=> v + by \notin 0 .. 2^l - 1
<1>1. PICK w \in Nat : w = 2^l
  BY PowerOfTwo
<1> QED BY <1>1 DEF overflows_on_add

(* What a shift of the path, of slim and of fast gives. *)
Shifted(n, by, v, f, q, w, g) ==
  /\ Len(q) = Len(n) /\ \A d \in Dimension : Coordinate(q, d) = Coordinate(n, d) + by[d]
  /\ shift_location(n, by) = {q} /\ shift_slim(v, by) = {w} /\ shift_fast(f, by) = {g}
  /\ IsCode(w, q) /\ IsFast(g, q)

OutOfBounds(n, by, v, f) ==
  /\ shift_location(n, by) = {} /\ shift_slim(v, by) = {} /\ shift_fast(f, by) = {}
  /\ \E d \in Dimension : Coordinate(n, d) + by[d] \notin 0 .. 2^Len(n) - 1

(* Shifting by an offset finds the node of the cell at that offset, in each *)
(* representation, or tells that the cell lies outside of the root.         *)
LEMMA Shifts ==
  ASSUME NEW n \in Path, Fits(Len(n)), NEW v, IsCode(v, n), NEW f, IsFast(f, n),
         NEW by, \A d \in Dimension : by[d] \in Int
  PROVE  OutOfBounds(n, by, v, f) \/ \E q \in Path : \E w, g : Shifted(n, by, v, f, q, w, g)
<1> DEFINE L == Len(n)
           X(d) == Coordinate(n, d)
           Inside == \A d \in Dimension : X(d) + by[d] \in 0 .. 2^L - 1
           xs == [d \in Dimension |-> X(d) + by[d]]
           y == [d \in Dimension |-> to_int_r(to_int(f, d) + by[d], f.level)]
<1>1. L \in Nat /\ 2^L \in Nat /\ \A d \in Dimension : X(d) \in Nat /\ X(d) < 2^L
  BY CoordinateRange, PositionsOfPath, PowerOfTwo
<1>2. \A d \in Dimension : overflows_on_add(X(d), by[d], L) <=> X(d) + by[d] \notin 0 .. 2^L - 1
  BY <1>1, Overflows
<1>3. level_slim(v) = L /\ decode(v, L) = [d \in Dimension |-> X(d)]
  BY LevelOfCode, DecodeCode DEF Coordinates
<1>4. f.level = L /\ \A d \in Dimension : to_int(f, d) = X(d)
  <2>1. f.level = L
    BY DEF IsFast
  <2>2. \A d \in Dimension : to_int(f, d) = X(d)
    BY ToInt
  <2> QED BY <2>1, <2>2
<1>5. shift_location(n, by) = IF Inside THEN {PathTo(L, xs)} ELSE {}
  BY DEF shift_location
<1>6. shift_slim(v, by) = IF Inside THEN {encode(xs, L)} ELSE {}
  <2>1. (\E d \in Dimension : overflows_on_add(decode(v, L)[d], by[d], L)) <=> ~Inside
    BY <1>2, <1>3
  <2>2. [d \in Dimension |-> decode(v, L)[d] + by[d]] = xs
    BY <1>3
  <2> HIDE DEF Inside, xs, L
  <2> QED BY <1>3, <2>1, <2>2 DEF shift_slim
<1>7. shift_fast(f, by) = IF Inside THEN {[f EXCEPT !.x = y]} ELSE {}
  <2>1. (\E d \in Dimension : overflows_on_add(to_int(f, d), by[d], f.level)) <=> ~Inside
    BY <1>2, <1>4
  <2> HIDE DEF Inside, L
  <2> QED BY <2>1 DEF shift_fast
<1> HIDE DEF X, L
<1>8. CASE ~Inside
  BY <1>5, <1>6, <1>7, <1>8 DEF OutOfBounds, X, L
<1>9. CASE Inside
  <2>1. xs \in [Dimension -> Nat] /\ \A d \in Dimension : xs[d] = X(d) + by[d] /\ xs[d] < 2^L
    BY <1>1, <1>9
  <2> HIDE DEF xs
  <2>2. PICK q \in Path : Len(q) = L /\ \A d \in Dimension : Coordinate(q, d) = xs[d]
    BY <1>1, <2>1, PathExists
  <2>3. \A d \in Dimension : xs[d] = Coordinate(q, d)
    BY <2>2
  <2>4. PathTo(L, xs) = q
    BY <2>2, <2>3, PathToCoordinates
  <2>5. IsCode(encode(xs, L), q)
    <3>1. Fits(Len(q))
      BY <2>2 DEF L
    <3> QED BY <2>1, <2>2, <2>3, <3>1, EncodeIsCode
  <2>6. \A d \in Dimension : to_int(f, d) + by[d] = Coordinate(q, d)
    BY <1>4, <2>1, <2>2
  <2>7. y = [d \in Dimension |-> to_int_r(Coordinate(q, d), L)]
    BY <1>4, <2>6
  <2> HIDE DEF y
  <2>8. \A d \in Dimension : y[d] = [b \in Bit |-> IF b <= L THEN bit(Coordinate(q, d), L - b) ELSE 0]
    BY <2>7 DEF to_int_r
  <2>9. y \in [Dimension -> [Bit -> {0, 1}]]
    <3>1. \A d \in Dimension, b \in Bit : b <= L => bit(Coordinate(q, d), L - b) \in {0, 1}
      <4>1. \A d \in Dimension : Coordinate(q, d) \in Nat
        BY BitsOfCoordinate
      <4>2. \A b \in Bit : b <= L => L - b \in Nat
        BY <1>1, BitsOfInteger
      <4> QED BY <4>1, <4>2, BitIsBit
    <3>2. \A d \in Dimension : y[d] \in [Bit -> {0, 1}]
      BY <2>8, <3>1
    <3> QED BY <2>7, <3>2
  <2>10. \A d \in Dimension, k \in 1 .. Len(q) : y[d][k] = bit(Coordinate(q, d), Len(q) - k)
    <3>1. \A k \in 1 .. L : k \in Bit /\ k <= L
      BY <1>1, FittingBits DEF L
    <3> QED BY <2>2, <2>8, <3>1
  <2>11. [f EXCEPT !.x = y] = [level |-> Len(q), x |-> y]
    <3>1. f = [level |-> L, x |-> f.x]
      BY DEF IsFast, L
    <3> QED BY <2>2, <3>1
  <2>12. IsFast([f EXCEPT !.x = y], q)
    <3>1. IsFast([level |-> Len(q), x |-> y], q)
      BY <2>9, <2>10, FastOfCoordinates
    <3> QED BY <2>11, <3>1
  <2>13. \A d \in Dimension : Coordinate(q, d) = Coordinate(n, d) + by[d]
    BY <2>1, <2>2 DEF X
  <2>14. /\ shift_location(n, by) = {q} /\ shift_slim(v, by) = {encode(xs, L)}
         /\ shift_fast(f, by) = {[f EXCEPT !.x = y]}
    BY <1>5, <1>6, <1>7, <1>9, <2>4
  <2>15. Shifted(n, by, v, f, q, encode(xs, L), [f EXCEPT !.x = y])
    BY <2>2, <2>5, <2>12, <2>13, <2>14, Zenon DEF Shifted, L
  <2> QED BY <2>15, Zenon
<1> QED BY <1>8, <1>9

(* What a location made from a point stands for. *)
LEMMA MadeFromPoint ==
  ASSUME NEW l \in 0 .. max_level_slim - 1, NEW x \in [Dimension -> 0 .. 2^l - 1], NEW junk \in Junk
  PROVE  /\ PathTo(l, x) \in Path /\ Fits(Len(PathTo(l, x)))
         /\ IsCode(encode(x, l), PathTo(l, x))
         /\ IsFast(from_point_fast(l, x, junk), PathTo(l, x))
<1>1. l \in Nat /\ Fits(l) /\ 2^l \in Nat
  <2>1. max_level_slim \in Int
    BY WidthAssumption, Positions DEF max_level_slim
  <2> QED BY <2>1, PowerOfTwo DEF Fits
<1>2. x \in [Dimension -> Nat] /\ \A d \in Dimension : x[d] < 2^l
  BY <1>1
<1>3. PICK n \in Path : Len(n) = l /\ \A d \in Dimension : Coordinate(n, d) = x[d]
  BY <1>1, <1>2, PathExists
<1>4. \A d \in Dimension : x[d] = Coordinate(n, d)
  BY <1>3
<1>5. PathTo(l, x) = n
  BY <1>3, <1>4, PathToCoordinates
<1>6. IsCode(encode(x, l), n)
  BY <1>1, <1>2, <1>3, <1>4, EncodeIsCode
<1> DEFINE y == [d \in Dimension |->
                   [b \in Bit |-> IF b \in 1 .. l THEN bit(x[d], l - b) ELSE junk[d][b]]]
<1>7. from_point_fast(l, x, junk) = [level |-> Len(n), x |-> y]
  BY <1>3 DEF from_point_fast
<1>8. y \in [Dimension -> [Bit -> {0, 1}]]
  <2>1. \A d \in Dimension, b \in Bit : junk[d][b] \in {0, 1}
    BY DEF Junk
  <2>2. \A d \in Dimension, b \in 1 .. l : bit(x[d], l - b) \in {0, 1}
    <3>1. \A b \in 1 .. l : l - b \in Nat
      BY <1>1
    <3> QED BY <1>2, <3>1, BitIsBit
  <2> QED BY <2>1, <2>2
<1>9. \A d \in Dimension, k \in 1 .. Len(n) : y[d][k] = bit(Coordinate(n, d), Len(n) - k)
  <2>1. \A k \in 1 .. l : k \in Bit
    BY <1>1, FittingBits
  <2> QED BY <1>3, <2>1
<1> HIDE DEF y
<1>10. IsFast([level |-> Len(n), x |-> y], n)
  BY <1>8, <1>9, FastOfCoordinates
<1> QED BY <1>1, <1>3, <1>5, <1>6, <1>7, <1>10

(* The offset to the opposite neighbour leads back. *)
Negated(o, back) == \A d \in Dimension : o[d] \in Int /\ back[d] \in Int /\ back[d] = -o[d]

(* Of the faces of a segment, *)
LEMMA OppositesOne ==
  ASSUME Nd = 1
  PROVE  \A M0 \in Manifold : \A i \in neighbor_idx(M0) :
           Negated(offset(M0, i), offset(M0, opposite(M0, i)))
<1>1. Dimension = {1} /\ Manifold = {1}
  BY Positions
<1>2. Nd - 1 = 0
  OBVIOUS
<1>3. neighbor_lookup_table[0] = <<<<-1>>, <<1>>>>
  BY DEF neighbor_lookup_table
<1>4. neighbor_idx(1) = 1 .. 2
  BY <1>2, <1>3 DEF neighbor_idx
<1>5. opposite(1, 1) = 2 /\ opposite(1, 2) = 1
  BY DEF opposite
<1>6. ASSUME NEW i \in 1 .. 2 PROVE Negated(offset(1, i), offset(1, opposite(1, i)))
  <2>1. i = 1 \/ i = 2
    OBVIOUS
  <2> QED BY <1>1, <1>2, <1>3, <1>5, <2>1 DEF offset, Negated
<1> QED BY <1>1, <1>4, <1>6

(* the faces and corners of a square, *)
LEMMA OppositesTwo ==
  ASSUME Nd = 2
  PROVE  \A M0 \in Manifold : \A i \in neighbor_idx(M0) :
           Negated(offset(M0, i), offset(M0, opposite(M0, i)))
<1>1. Dimension = {1, 2} /\ Manifold = {1, 2}
  BY Positions
<1>2. Nd - 1 = 1 /\ Nd - 2 = 0
  OBVIOUS
<1>3. /\ neighbor_lookup_table[1] = <<<<-1, 0>>, <<1, 0>>, <<0, -1>>, <<0, 1>>>>
      /\ neighbor_lookup_table[0] = <<<<-1, -1>>, <<1, -1>>, <<-1, 1>>, <<1, 1>>>>
  BY DEF neighbor_lookup_table
<1>4. neighbor_idx(1) = 1 .. 4 /\ neighbor_idx(2) = 1 .. 4
  BY <1>2, <1>3 DEF neighbor_idx
<1>5. /\ opposite(1, 1) = 2 /\ opposite(1, 2) = 1 /\ opposite(1, 3) = 4 /\ opposite(1, 4) = 3
      /\ opposite(2, 1) = 4 /\ opposite(2, 2) = 3 /\ opposite(2, 3) = 2 /\ opposite(2, 4) = 1
  BY DEF opposite
<1>6. ASSUME NEW i \in 1 .. 4 PROVE Negated(offset(1, i), offset(1, opposite(1, i)))
  <2>1. i = 1 \/ i = 2 \/ i = 3 \/ i = 4
    OBVIOUS
  <2> QED BY <1>1, <1>2, <1>3, <1>5, <2>1 DEF offset, Negated
<1>7. ASSUME NEW i \in 1 .. 4 PROVE Negated(offset(2, i), offset(2, opposite(2, i)))
  <2>1. i = 1 \/ i = 2 \/ i = 3 \/ i = 4
    OBVIOUS
  <2> QED BY <1>1, <1>2, <1>3, <1>5, <2>1 DEF offset, Negated
<1> QED BY <1>1, <1>4, <1>6, <1>7

(* and the faces, edges and corners of a cube, *)
LEMMA OppositesThree ==
  ASSUME Nd = 3
  PROVE  \A M0 \in Manifold : \A i \in neighbor_idx(M0) :
           Negated(offset(M0, i), offset(M0, opposite(M0, i)))
<1>1. Dimension = {1, 2, 3} /\ Manifold = {1, 2, 3}
  BY Positions
<1>2. Nd - 1 = 2 /\ Nd - 2 = 1 /\ Nd - 3 = 0 /\ no_children(Nd) = 8
  BY Powers DEF no_children
<1>3. /\ neighbor_lookup_table[2] =
           <<<<-1, 0, 0>>, <<1, 0, 0>>, <<0, -1, 0>>, <<0, 1, 0>>, <<0, 0, -1>>, <<0, 0, 1>>>>
      /\ neighbor_lookup_table[1] =
           <<<<-1, -1, 0>>, <<1, -1, 0>>, <<-1, 1, 0>>, <<1, 1, 0>>,
             <<-1, 0, -1>>, <<1, 0, -1>>, <<0, -1, -1>>, <<0, 1, -1>>,
             <<-1, 0, 1>>, <<1, 0, 1>>, <<0, -1, 1>>, <<0, 1, 1>>>>
      /\ neighbor_lookup_table[0] =
           <<<<-1, -1, -1>>, <<1, -1, -1>>, <<-1, 1, -1>>, <<1, 1, -1>>,
             <<-1, -1, 1>>, <<1, -1, 1>>, <<-1, 1, 1>>, <<1, 1, 1>>>>
  BY DEF neighbor_lookup_table
<1>4. neighbor_idx(1) = 1 .. 6 /\ neighbor_idx(2) = 1 .. 12 /\ neighbor_idx(3) = 1 .. 8
  BY <1>2, <1>3 DEF neighbor_idx
<1>5. ASSUME NEW i \in 1 .. 6 PROVE Negated(offset(1, i), offset(1, opposite(1, i)))
  <2>1. i = 1 \/ i = 2 \/ i = 3 \/ i = 4 \/ i = 5 \/ i = 6
    OBVIOUS
  <2>2. /\ opposite(1, 1) = 2 /\ opposite(1, 2) = 1 /\ opposite(1, 3) = 4
        /\ opposite(1, 4) = 3 /\ opposite(1, 5) = 6 /\ opposite(1, 6) = 5
    BY DEF opposite
  <2> QED BY <1>1, <1>2, <1>3, <2>1, <2>2 DEF offset, Negated
<1>6. ASSUME NEW i \in 1 .. 12 PROVE Negated(offset(2, i), offset(2, opposite(2, i)))
  <2>1. \/ i = 1 \/ i = 2 \/ i = 3 \/ i = 4 \/ i = 5 \/ i = 6
        \/ i = 7 \/ i = 8 \/ i = 9 \/ i = 10 \/ i = 11 \/ i = 12
    OBVIOUS
  <2>2. /\ opposite(2, 1) = 4 /\ opposite(2, 2) = 3 /\ opposite(2, 3) = 2
        /\ opposite(2, 4) = 1 /\ opposite(2, 5) = 10 /\ opposite(2, 6) = 9
        /\ opposite(2, 7) = 12 /\ opposite(2, 8) = 11 /\ opposite(2, 9) = 6
        /\ opposite(2, 10) = 5 /\ opposite(2, 11) = 8 /\ opposite(2, 12) = 7
    BY DEF opposite
  <2> QED BY <1>1, <1>2, <1>3, <2>1, <2>2 DEF offset, Negated
<1>7. ASSUME NEW i \in 1 .. 8 PROVE Negated(offset(3, i), offset(3, opposite(3, i)))
  <2>1. i = 1 \/ i = 2 \/ i = 3 \/ i = 4 \/ i = 5 \/ i = 6 \/ i = 7 \/ i = 8
    OBVIOUS
  <2>2. opposite(3, i) = 9 - i
    BY <1>2 DEF opposite
  <2>3. 9 - 1 = 8 /\ 9 - 2 = 7 /\ 9 - 3 = 6 /\ 9 - 4 = 5 /\ 9 - 5 = 4 /\ 9 - 6 = 3 /\ 9 - 7 = 2
    OBVIOUS
  <2> QED BY <1>1, <1>2, <1>3, <2>1, <2>2, <2>3 DEF offset, Negated
<1> QED BY <1>1, <1>4, <1>5, <1>6, <1>7

(* in each of them. *)
LEMMA Opposites ==
  ASSUME NEW at \in Neighbor
  PROVE  Negated(offset(at[1], at[2]), offset(at[1], opposite(at[1], at[2])))
<1>1. at[1] \in Manifold /\ at[2] \in neighbor_idx(at[1])
  BY DEF Neighbor
<1>2. \A M0 \in Manifold : \A i \in neighbor_idx(M0) :
        Negated(offset(M0, i), offset(M0, opposite(M0, i)))
  BY OppositesOne, OppositesTwo, OppositesThree, Positions
<1> QED BY <1>1, <1>2

(* The opposite neighbour's offset shifts slim back. *)
LEMMA ShiftsBack ==
  ASSUME NEW n \in Path, Fits(Len(n)), NEW v, IsCode(v, n), NEW f, IsFast(f, n),
         NEW o, NEW back, Negated(o, back), shift_slim(v, o) # {}
  PROVE  UNION {shift_slim(w, back) : w \in shift_slim(v, o)} = {v}
<1>0. PICK q \in Path : \E w, g : Shifted(n, o, v, f, q, w, g)
  <2>1. \A d \in Dimension : o[d] \in Int
    BY DEF Negated
  <2>2. ~OutOfBounds(n, o, v, f)
    BY DEF OutOfBounds
  <2> QED BY <2>1, <2>2, Shifts
<1>1. PICK w, g : Shifted(n, o, v, f, q, w, g)
  BY <1>0
<1>2. /\ Len(q) = Len(n) /\ Fits(Len(q)) /\ shift_slim(v, o) = {w} /\ IsCode(w, q) /\ IsFast(g, q)
      /\ \A d \in Dimension : Coordinate(q, d) = Coordinate(n, d) + o[d]
  BY <1>1 DEF Shifted
<1>3. /\ \A d \in Dimension : Coordinate(n, d) \in Nat /\ Coordinate(n, d) < 2^Len(n)
      /\ 2^Len(n) \in Nat
  BY CoordinateRange, PositionsOfPath, PowerOfTwo
<1>4. \A d \in Dimension : /\ back[d] \in Int
                           /\ Coordinate(q, d) + back[d] = Coordinate(n, d)
  BY <1>2, <1>3 DEF Negated
<1>5. ~OutOfBounds(q, back, w, g)
  <2>1. \A d \in Dimension : Coordinate(q, d) + back[d] \in 0 .. 2^Len(q) - 1
    BY <1>2, <1>3, <1>4
  <2> QED BY <2>1 DEF OutOfBounds
<1>6. PICK r \in Path : \E u, h : Shifted(q, back, w, g, r, u, h)
  BY <1>2, <1>4, <1>5, Shifts
<1>7. PICK u, h : Shifted(q, back, w, g, r, u, h)
  BY <1>6
<1>8. /\ Len(r) = Len(n) /\ shift_slim(w, back) = {u} /\ IsCode(u, r)
      /\ \A d \in Dimension : Coordinate(r, d) = Coordinate(n, d)
  BY <1>2, <1>4, <1>7 DEF Shifted
<1>9. r = n
  BY <1>8, CoordinateInjective
<1>10. u = v
  BY <1>8, <1>9, CodeUnique
<1>11. UNION {shift_slim(z, back) : z \in {w}} = shift_slim(w, back)
  OBVIOUS
<1> QED BY <1>2, <1>8, <1>10, <1>11

(* Powers of two multiply, and divide, by their exponents. *)
LEMMA PowerSum ==
  ASSUME NEW a \in Nat, NEW b \in Nat
  PROVE  2^(a + b) = 2^a * 2^b /\ 2^(a + b) \div 2^b = 2^a
<1> DEFINE S == {k \in Nat : 2^(a + k) = 2^a * 2^k}
<1>1. 0 \in S
  <2>1. a + 0 = a /\ 2^a \in Nat /\ 2^0 = 1
    BY PowerOfTwo, Powers
  <2>2. 2^(a + 0) = 2^a
    BY <2>1, Zenon
  <2> QED BY <2>1, <2>2
<1>2. ASSUME NEW k \in Nat, k \in S PROVE k + 1 \in S
  <2>1. PICK x \in Nat, y \in Nat : x = 2^a /\ y = 2^k /\ 2^(k + 1) = 2 * y
    BY PowerOfTwo
  <2>2. PICK z \in Nat : z = 2^(a + k) /\ 2^((a + k) + 1) = 2 * z
    <3>1. a + k \in Nat
      OBVIOUS
    <3> QED BY <3>1, PowerOfTwo
  <2>3. z = x * y
    BY <1>2, <2>1, <2>2
  <2>4. 2 * z = x * (2 * y)
    BY <2>3
  <2>5. (a + k) + 1 = a + (k + 1)
    OBVIOUS
  <2>6. 2^(a + (k + 1)) = x * (2 * y)
    BY <2>2, <2>4, <2>5
  <2> QED BY <2>1, <2>6
<1>3. b \in S
  <2>1. \A n \in Nat : n \in S => n + 1 \in S
    BY <1>2
  <2> HIDE DEF S
  <2> QED BY <1>1, <2>1, Induction
<1>4. PICK x \in Nat \ {0}, y \in Nat \ {0}, z \in Nat : x = 2^a /\ y = 2^b /\ z = 2^(a + b)
  <2>1. a + b \in Nat
    OBVIOUS
  <2> QED BY <2>1, PowerOfTwo
<1>5. z = x * y
  BY <1>3, <1>4
<1>6. z \div y = x
  <2>1. y * x <= z /\ z < y * x + y
    BY <1>5
  <2> QED BY <2>1, Quotient
<1> QED BY <1>4, <1>5, <1>6

(* The sum of a combination is the combination of the sums. *)
LEMMA CombinedSum ==
  ASSUME NEW S, IsFiniteSet(S), NEW h, NEW t \in [S -> Int], NEW u \in [S -> Int],
         \A x \in S : h[x] = 4 * t[x] - 2 * u[x],
         NEW ih, IsSum(ih, h, S), NEW it, IsSum(it, t, S), NEW iu, IsSum(iu, u, S)
  PROVE  it[S] \in Int /\ iu[S] \in Int /\ ih[S] = 4 * it[S] - 2 * iu[S]
<1> DEFINE C(T) == CHOOSE x \in T : TRUE
           G1 == {T \in SUBSET S : /\ it[T] \in Int /\ iu[T] \in Int
                                   /\ ih[T] = 4 * it[T] - 2 * iu[T]}
<1>1. /\ \A T \in SUBSET S : ih[T] = IF T = {} THEN 0 ELSE h[C(T)] + ih[T \ {C(T)}]
      /\ \A T \in SUBSET S : it[T] = IF T = {} THEN 0 ELSE t[C(T)] + it[T \ {C(T)}]
      /\ \A T \in SUBSET S : iu[T] = IF T = {} THEN 0 ELSE u[C(T)] + iu[T \ {C(T)}]
  BY DEF IsSum
<1>2. \A T \in SUBSET S : T # {} => C(T) \in S /\ T \ {C(T)} \in SUBSET S
  OBVIOUS
<1>3. \A T \in SUBSET S : T # {} /\ T \ {CHOOSE x \in T : TRUE} \in G1 => T \in G1
  <2> SUFFICES ASSUME NEW T \in SUBSET S, T # {}, T \ {C(T)} \in G1 PROVE T \in G1
    OBVIOUS
  <2>1. PICK x \in S, U \in SUBSET S : x = C(T) /\ U = T \ {x} /\ U \in G1
    BY <1>2
  <2> HIDE DEF C
  <2>2. ih[T] = h[x] + ih[U] /\ it[T] = t[x] + it[U] /\ iu[T] = u[x] + iu[U]
    BY <1>1, <2>1
  <2>3. t[x] \in Int /\ u[x] \in Int /\ h[x] = 4 * t[x] - 2 * u[x]
    OBVIOUS
  <2> QED BY <2>1, <2>2, <2>3
<1>4. {} \in G1
  <2>1. ih[{}] = 0 /\ it[{}] = 0 /\ iu[{}] = 0
    BY <1>1
  <2> QED BY <2>1
<1>5. SUBSET S \subseteq G1
  <2>1. G1 \in SUBSET SUBSET S
    OBVIOUS
  <2> HIDE DEF G1
  <2> QED BY <1>3, <1>4, <2>1, SubsetsByInduction
<1>6. S \in G1
  BY <1>5
<1> QED BY <1>6

(* The powers of two below one sum up to it, less one. *)
LEMMA PowersSum ==
  ASSUME NEW L \in Nat, NEW u, \A k \in 1 .. L : u[k] = 2^(L - k), NEW it, IsSum(it, u, 1 .. L)
  PROVE  it[1 .. L] \in Nat /\ it[1 .. L] + 1 = 2^L
<1> DEFINE S == 1 .. L
           e == [k \in S |-> 1]
           g == [k \in S |-> L - k]
<1>1. IsFiniteSet(S) /\ \A k \in S : L - k \in Nat /\ 2^(L - k) \in Nat
  BY FS_Interval, PowerOfTwo
<1>2. \A j \in Nat : (\E k \in S : L - k = j) <=> j < L
  <2>1. \A j \in Nat : \A k \in S : L - k = j => j < L
    OBVIOUS
  <2>2. \A j \in Nat : j < L => L - j \in S /\ L - (L - j) = j
    OBVIOUS
  <2> QED BY <2>1, <2>2
<1>3. \A x, y \in S : L - x = L - y => x = y
  OBVIOUS
<1>4. \A k \in S : g[k] = L - k /\ e[k] = 1 /\ u[k] = 2^(L - k)
  OBVIOUS
<1>5. e \in [S -> {0, 1}] /\ g \in [S -> Nat]
  BY <1>1
<1>6. IsSum(it, u, S) /\ S = 1 .. L
  OBVIOUS
<1> HIDE DEF S, e, g
<1>7. BinaryTerms(u, g, e, S)
  <2>1. \A x, y \in S : g[x] = g[y] => x = y
    BY <1>3, <1>4
  <2>2. \A k \in S : u[k] = e[k] * 2^g[k]
    BY <1>1, <1>4
  <2> QED BY <1>1, <1>5, <2>1, <2>2 DEF BinaryTerms
<1>8. BitsOfTerms(it[S], g, e, S)
  BY <1>6, <1>7, BinarySum, Zenon
<1>9. it[S] \in Nat /\ \A j \in Nat : bit(it[S], j) = IF j < L THEN 1 ELSE 0
  <2>1. \A j \in Nat : (\E k \in S : g[k] = j /\ e[k] = 1) <=> j < L
    BY <1>2, <1>4
  <2> QED BY <1>8, <2>1 DEF BitsOfTerms
<1> QED BY <1>6, <1>9, AllOnes

(* The centre of a cell. *)
LEMMA Centre ==
  ASSUME NEW n \in Path, NEW d \in Dimension
  PROVE  normalized_coordinates(n, 2^(Len(n) + 2))[d] = 4 * Coordinate(n, d) + 2
<1> DEFINE L == Len(n)
           unit == 2^(L + 2)
           S == DOMAIN n
           F(k) == relative_child_position(n[k])[d] * (node_length_at_level(k - 1, unit) \div 4)
           h == [k \in S |-> F(k)]
           t == [k \in S |-> bit(n[k], d - 1) * 2^(L - k)]
           u == [k \in S |-> 2^(L - k)]
           C(T) == CHOOSE x \in T : TRUE
           Summed(it) == it = [T \in SUBSET S |->
                                 IF T = {} THEN 0 ELSE F(C(T)) + it[T \ {C(T)}]]
<1>1. L \in Nat /\ S = 1 .. L /\ \A k \in S : n[k] \in child_pos
  BY PositionsOfPath
<1>2. \A k \in S : bit(n[k], d - 1) \in {0, 1} /\ L - k \in Nat /\ k - 1 \in Nat
  BY <1>1, BitOfPosition
<1>3. \A k \in S : 2^(L - k) \in Nat
  BY <1>2, PowerOfTwo
<1>4. IsFiniteSet(S)
  BY <1>1, FS_Interval
<1> HIDE DEF S, L
<1>5. ASSUME NEW k \in S PROVE node_length_at_level(k - 1, unit) \div 4 = 2 * 2^(L - k)
  <2>1. PICK a \in Nat : a = L - k
    BY <1>2
  <2>2. /\ (a + 3) + (k - 1) = L + 2 /\ a + 3 \in Nat /\ (a + 1) + 2 = a + 3 /\ a + 1 \in Nat
        /\ k - 1 \in Nat /\ k \in Int
    BY <1>1, <1>2, <2>1
  <2>3. 2^((a + 3) + (k - 1)) \div 2^(k - 1) = 2^(a + 3)
    BY <2>2, PowerSum
  <2>4. 2^((a + 1) + 2) \div 2^2 = 2^(a + 1)
    BY <2>2, PowerSum
  <2>5. 2^(a + 3) \div 4 = 2^(a + 1)
    BY <2>2, <2>4, Powers
  <2>6. 2^(a + 1) = 2 * 2^a
    BY PowerOfTwo
  <2>7. node_length_at_level(k - 1, unit) = 2^(a + 3)
    BY <2>2, <2>3 DEF node_length_at_level
  <2> QED BY <2>1, <2>5, <2>6, <2>7
<1>6. ASSUME NEW k \in S
      PROVE  F(k) \in Int /\ F(k) = 4 * (bit(n[k], d - 1) * 2^(L - k)) - 2 * 2^(L - k)
  <2>1. PICK w \in Nat : w = 2^(L - k)
    BY <1>3
  <2>2. relative_child_position(n[k])[d] = IF bit(n[k], d - 1) = 1 THEN 1 ELSE -1
    BY DEF relative_child_position
  <2>3. CASE bit(n[k], d - 1) = 1
    BY <1>5, <2>1, <2>2, <2>3
  <2>4. CASE bit(n[k], d - 1) = 0
    BY <1>5, <2>1, <2>2, <2>4
  <2> QED BY <1>2, <2>3, <2>4
<1> HIDE DEF F
<1>7. h \in [S -> Int] /\ t \in [S -> Int] /\ u \in [S -> Int]
  <2>1. \A k \in S : bit(n[k], d - 1) * 2^(L - k) \in Int
    BY <1>2, <1>3
  <2>2. h \in [S -> Int]
    BY <1>6
  <2>3. t \in [S -> Int]
    BY <2>1
  <2>4. u \in [S -> Int]
    BY <1>3
  <2> QED BY <2>2, <2>3, <2>4
<1>8. \A k \in S : /\ h[k] = F(k) /\ h[k] = 4 * t[k] - 2 * u[k]
                   /\ t[k] = bit(n[k], d - 1) * 2^(L - k) /\ u[k] = 2^(L - k)
  BY <1>6
<1> HIDE DEF h, t, u
<1>9. \A it : IsSum(it, h, S) <=> Summed(it)
  <2>1. \A T \in SUBSET S : T # {} => h[C(T)] = F(C(T))
    BY <1>8
  <2> SUFFICES ASSUME NEW it PROVE IsSum(it, h, S) <=> Summed(it)
    OBVIOUS
  <2>2. [T \in SUBSET S |-> IF T = {} THEN 0 ELSE h[C(T)] + it[T \ {C(T)}]]
          = [T \in SUBSET S |-> IF T = {} THEN 0 ELSE F(C(T)) + it[T \ {C(T)}]]
    <3> HIDE DEF C
    <3> QED BY <2>1
  <2> QED BY <2>2, Zenon DEF IsSum
<1>10. \E it : Summed(it)
  <2>1. PICK it : IsSum(it, h, S)
    BY <1>4, <1>7, SumExists
  <2>2. Summed(it)
    BY <2>1, <1>9, Zenon
  <2> HIDE DEF Summed
  <2> QED BY <2>2, Zenon
<1>11. PICK ih : Summed(ih) /\ normalized_coordinates(n, unit)[d] = unit \div 2 + ih[S]
  <2>1. normalized_coordinates(n, unit)[d] =
          unit \div 2 + MapThenSumSet(LAMBDA k : F(k), S)
    BY DEF normalized_coordinates, F, S
  <2>2. MapThenSumSet(LAMBDA k : F(k), S) = (CHOOSE it : Summed(it))[S]
    BY Zenon DEF MapThenSumSet, MapThenFoldSet
  <2>3. Summed(CHOOSE it : Summed(it))
    <3> HIDE DEF Summed
    <3> QED BY <1>10, Zenon
  <2> HIDE DEF Summed
  <2> QED BY <2>1, <2>2, <2>3, Zenon
<1>12. IsSum(ih, h, S)
  BY <1>9, <1>11, Zenon
<1> HIDE DEF Summed
<1>13. PICK it : IsSum(it, t, S)
  BY <1>4, <1>7, SumExists
<1>14. PICK iu : IsSum(iu, u, S)
  BY <1>4, <1>7, SumExists
<1>15. ih[S] = 4 * it[S] - 2 * iu[S]
  BY <1>4, <1>7, <1>8, <1>12, <1>13, <1>14, CombinedSum
<1>16. it[S] = Coordinate(n, d)
  <2>1. IsSum(it, t, 1 .. L) /\ \A k \in 1 .. L : t[k] = bit(n[k], d - 1) * 2^(L - k)
    BY <1>1, <1>8, <1>13
  <2>2. L = Len(n)
    BY DEF L
  <2>3. it[1 .. L] = Coordinate(n, d)
    BY <2>1, <2>2, CoordinateSum
  <2> QED BY <1>1, <2>3
<1>17. iu[S] \in Nat /\ iu[S] + 1 = 2^L
  <2>1. IsSum(iu, u, 1 .. L) /\ \A k \in 1 .. L : u[k] = 2^(L - k)
    BY <1>1, <1>8, <1>14
  <2>2. iu[1 .. L] \in Nat /\ iu[1 .. L] + 1 = 2^L
    BY <1>1, <2>1, PowersSum
  <2> QED BY <1>1, <2>2
<1>18. unit \div 2 = 2 * 2^L
  <2>1. 2^((L + 1) + 1) \div 2^1 = 2^(L + 1) /\ (L + 1) + 1 = L + 2 /\ 2^(L + 1) = 2 * 2^L
    BY <1>1, PowerSum, PowerOfTwo
  <2> QED BY <2>1, Powers
<1>19. Coordinate(n, d) \in Nat /\ 2^L \in Nat
  BY <1>1, BitsOfCoordinate, PowerOfTwo
<1>20. normalized_coordinates(n, unit)[d] = 4 * Coordinate(n, d) + 2
  BY <1>11, <1>15, <1>16, <1>17, <1>18, <1>19
<1> QED BY <1>20 DEF L

(* Both objects stand for the path, which slim has room for.  The indeterminate *)
(* bits of fast lie above its level.                                            *)
LocationInv ==
  /\ path \in Path /\ Fits(Len(path))
  /\ IsCode(slim, path)
  /\ IsFast(fast, path)

(* A location begins at the root. *)
LEMMA LocationInit == Init => LocationInv
<1> SUFFICES ASSUME Init PROVE LocationInv
  OBVIOUS
<1>1. <<>> \in Path /\ Len(<<>>) = 0
  BY DEF Path
<1>2. Fits(0)
  <2>1. max_level_slim >= 0
    <3>1. CASE Nd = 1
      BY <3>1, WidthAssumption DEF max_level_slim
    <3>2. CASE Nd = 2
      BY <3>2, WidthAssumption DEF max_level_slim
    <3>3. CASE Nd = 3
      BY <3>3, WidthAssumption DEF max_level_slim
    <3> QED BY <3>1, <3>2, <3>3, Positions
  <2> QED BY <2>1 DEF Fits
<1>3. IsFast(fast, <<>>)
  BY FastOfRoot DEF Init
<1> QED BY <1>1, <1>2, <1>3, CodeOfRoot DEF Init, LocationInv

(* push, pop, reverse, shift and from_point keep both objects standing for  *)
(* one path.                                                               *)
LEMMA LocationStep ==
  ASSUME LocationInv, Next
  PROVE  LocationInv'
<1>1. path \in Path /\ Fits(Len(path)) /\ IsCode(slim, path) /\ IsFast(fast, path)
  BY DEF LocationInv
<1>2. level_slim(slim) = Len(path) /\ Len(path) \in Nat
  BY <1>1, LevelOfCode, PositionsOfPath
<1>3. max_level_slim \in Int
  BY WidthAssumption, Positions DEF max_level_slim
<1>4. ASSUME NEW p \in child_pos, push(p) PROVE LocationInv'
  <2>1. path' = Append(path, p) /\ slim' = push_slim(slim, p) /\ fast' = push_fast(fast, p)
    BY <1>4 DEF push
  <2>2. path' \in Path /\ Len(path') = Len(path) + 1
    BY <1>1, <2>1, ChildPath
  <2>3. Fits(Len(path'))
    <3>1. level_slim(slim) # max_level_slim
      BY <1>4 DEF push
    <3> QED BY <1>1, <1>2, <1>3, <2>2, <3>1 DEF Fits
  <2>4. IsCode(slim', path') /\ IsFast(fast', path')
    <3>1. IsCode(push_slim(slim, p), Append(path, p))
      BY <1>1, CodeOfChild
    <3>2. IsFast(push_fast(fast, p), Append(path, p))
      BY <1>1, FastOfChild
    <3> QED BY <2>1, <3>1, <3>2
  <2> QED BY <2>2, <2>3, <2>4 DEF LocationInv, IsCode, IsFast, Fits
<1>5. ASSUME pop PROVE LocationInv'
  <2>1. /\ path' = SubSeq(path, 1, Len(path) - 1) /\ slim' = pop_slim(slim) /\ fast' = pop_fast(fast)
        /\ level_slim(slim) > 0
    BY <1>5 DEF pop
  <2>2. path # <<>>
    BY <1>2, <2>1
  <2>3. path' \in Path /\ Len(path') = Len(path) - 1
    BY <1>1, <2>1, <2>2, PathIsChild
  <2>4. Fits(Len(path'))
    BY <1>1, <1>2, <1>3, <2>1, <2>3 DEF Fits
  <2>5. IsCode(slim', path') /\ IsFast(fast', path')
    <3>1. IsCode(pop_slim(slim), SubSeq(path, 1, Len(path) - 1))
      BY <1>1, <2>2, CodeOfParent
    <3>2. IsFast(pop_fast(fast), SubSeq(path, 1, Len(path) - 1))
      BY <1>1, <2>2, FastOfParent
    <3> QED BY <2>1, <3>1, <3>2
  <2> QED BY <2>3, <2>4, <2>5 DEF LocationInv, IsCode, IsFast, Fits
<1>6. ASSUME reverse PROVE LocationInv'
  <2>1. path' = Reversed(path) /\ slim' = reverse_slim(slim) /\ fast' = reverse_fast(fast)
    BY <1>6 DEF reverse, Reversed
  <2>2. Reversed(path) \in Path /\ Len(Reversed(path)) = Len(path) /\ IsCode(reverse_slim(slim), Reversed(path))
    BY <1>1, CodeOfReverse
  <2>3. IsFast(reverse_fast(fast), Reversed(path))
    BY <1>1, FastOfReverse
  <2>4. path' \in Path /\ Fits(Len(path')) /\ IsCode(slim', path') /\ IsFast(fast', path')
    BY <1>1, <2>1, <2>2, <2>3
  <2> QED BY <2>4 DEF LocationInv, IsCode, IsFast, Fits
<1>7. ASSUME NEW by \in Offset, shift(by) PROVE LocationInv'
  <2>1. /\ path' \in shift_location(path, by) /\ slim' \in shift_slim(slim, by)
        /\ fast' \in shift_fast(fast, by)
    BY <1>7 DEF shift
  <2>2. \A d \in Dimension : by[d] \in Int
    BY ReachAssumption DEF Offset
  <2>3. ~OutOfBounds(path, by, slim, fast)
    BY <2>1 DEF OutOfBounds
  <2>4. PICK q \in Path : \E w, g : Shifted(path, by, slim, fast, q, w, g)
    BY <1>1, <2>2, <2>3, Shifts
  <2>5. PICK w, g : Shifted(path, by, slim, fast, q, w, g)
    BY <2>4
  <2>6. /\ path' = q /\ slim' = w /\ fast' = g /\ Len(q) = Len(path)
        /\ IsCode(w, q) /\ IsFast(g, q)
    BY <2>1, <2>5 DEF Shifted
  <2>7. path' \in Path /\ Fits(Len(path')) /\ IsCode(slim', path') /\ IsFast(fast', path')
    BY <1>1, <2>6
  <2> QED BY <2>7 DEF LocationInv, IsCode, IsFast, Fits
<1>8. ASSUME NEW l \in 0 .. max_level_slim - 1, NEW x \in [Dimension -> 0 .. 2^l - 1],
             NEW junk \in Junk, from_point(l, x, junk)
      PROVE  LocationInv'
  <2>1. path' = PathTo(l, x) /\ slim' = encode(x, l) /\ fast' = from_point_fast(l, x, junk)
    BY <1>8 DEF from_point
  <2>2. /\ PathTo(l, x) \in Path /\ Fits(Len(PathTo(l, x)))
        /\ IsCode(encode(x, l), PathTo(l, x))
        /\ IsFast(from_point_fast(l, x, junk), PathTo(l, x))
    BY MadeFromPoint
  <2>3. path' \in Path /\ Fits(Len(path')) /\ IsCode(slim', path') /\ IsFast(fast', path')
    BY <2>1, <2>2
  <2> QED BY <2>3 DEF LocationInv, IsCode, IsFast, Fits
<1> QED BY <1>4, <1>5, <1>6, <1>7, <1>8 DEF Next

(* What both representations of a path answer. *)
LEMMA LocationsRight ==
  ASSUME LocationInv
  PROVE  RepresentationsAgree /\ ShiftsAgree
<1>1. path \in Path /\ Fits(Len(path)) /\ IsCode(slim, path) /\ IsFast(fast, path)
  BY DEF LocationInv
<1>2. level_slim(slim) = Len(path) /\ fast.level = Len(path)
  <2>1. fast.level = Len(path)
    BY <1>1 DEF IsFast
  <2> QED BY <1>1, <2>1, LevelOfCode
<1>3. PathOfSlim(slim) = path /\ PathOfFast(fast) = path
  BY <1>1, PathOfCode, PathOfFastIs
<1>4. decode(slim, level_slim(slim)) = Coordinates(path)
  BY <1>1, <1>2, DecodeCode
<1>5. [d \in Dimension |-> to_int(fast, d)] = Coordinates(path)
  <2>1. \A d \in Dimension : to_int(fast, d) = Coordinate(path, d)
    BY <1>1, ToInt
  <2> QED BY <2>1 DEF Coordinates
<1>6. id(fast) = slim
  <2>1. Coordinates(path) \in [Dimension -> Nat]
        /\ \A d \in Dimension : Coordinates(path)[d] = Coordinate(path, d)
    BY <1>1, BitsOfCoordinate DEF Coordinates
  <2>2. IsCode(encode(Coordinates(path), Len(path)), path)
    BY <1>1, <2>1, EncodeIsCode
  <2>3. id(fast) = encode(Coordinates(path), Len(path))
    BY <1>2, <1>5 DEF id
  <2> QED BY <1>1, <2>2, <2>3, CodeUnique
<1>7. normalized_coordinates(path, 2^(Len(path) + 2))
        = [d \in Dimension |-> 4 * Coordinates(path)[d] + 2]
  <2>1. \A d \in Dimension :
          normalized_coordinates(path, 2^(Len(path) + 2))[d] = 4 * Coordinate(path, d) + 2
    BY <1>1, Centre
  <2>2. normalized_coordinates(path, 2^(Len(path) + 2))
          = [d \in Dimension |-> normalized_coordinates(path, 2^(Len(path) + 2))[d]]
    BY DEF normalized_coordinates
  <2>3. \A d \in Dimension : Coordinates(path)[d] = Coordinate(path, d)
    BY DEF Coordinates
  <2> QED BY <2>1, <2>2, <2>3
<1>8. RepresentationsAgree
  BY <1>3, <1>4, <1>5, <1>6, <1>7 DEF RepresentationsAgree
<1>9. ASSUME NEW by \in Offset
      PROVE  /\ {PathOfSlim(v) : v \in shift_slim(slim, by)} = shift_location(path, by)
             /\ {PathOfFast(f) : f \in shift_fast(fast, by)} = shift_location(path, by)
  <2>1. \A d \in Dimension : by[d] \in Int
    BY ReachAssumption DEF Offset
  <2>2. OutOfBounds(path, by, slim, fast)
          \/ \E q \in Path : \E w, g : Shifted(path, by, slim, fast, q, w, g)
    BY <1>1, <2>1, Shifts
  <2>3. CASE OutOfBounds(path, by, slim, fast)
    BY <2>3 DEF OutOfBounds
  <2>4. ASSUME NEW q \in Path, NEW w, NEW g, Shifted(path, by, slim, fast, q, w, g)
        PROVE  /\ {PathOfSlim(v) : v \in shift_slim(slim, by)} = shift_location(path, by)
               /\ {PathOfFast(f) : f \in shift_fast(fast, by)} = shift_location(path, by)
    <3>1. /\ shift_location(path, by) = {q} /\ shift_slim(slim, by) = {w}
          /\ shift_fast(fast, by) = {g} /\ Fits(Len(q)) /\ IsCode(w, q) /\ IsFast(g, q)
      BY <1>1, <2>4 DEF Shifted
    <3>2. PathOfSlim(w) = q /\ PathOfFast(g) = q
      BY <3>1, PathOfCode, PathOfFastIs
    <3> QED BY <3>1, <3>2
  <2> QED BY <2>2, <2>3, <2>4
<1>10. ASSUME NEW at \in Neighbor, shift_slim(slim, offset(at[1], at[2])) # {}
       PROVE  UNION {shift_slim(v, offset(at[1], opposite(at[1], at[2]))) :
                       v \in shift_slim(slim, offset(at[1], at[2]))} = {slim}
  <2>1. PICK o, back : /\ o = offset(at[1], at[2]) /\ back = offset(at[1], opposite(at[1], at[2]))
                       /\ Negated(o, back)
    BY Opposites
  <2>2. UNION {shift_slim(v, back) : v \in shift_slim(slim, o)} = {slim}
    BY <1>1, <1>10, <2>1, ShiftsBack
  <2> QED BY <2>1, <2>2
<1>11. ShiftsAgree
  BY <1>9, <1>10 DEF ShiftsAgree
<1> QED BY <1>8, <1>11

LocationsInv == subject = "locations" => LocationInv

(* Both representations of a location, slim.hpp and fast.hpp, stand for the     *)
(* path that the operations walked, find its coordinates, and shift to the cell *)
(* at an offset or find it out of bounds, in integers of any width and at every *)
(* level down to the deepest.                                                   *)
THEOREM LocationsStandForPath == PartsSpec => []LocationsAgree
<1>1. PartsInit => LocationsInv
  BY LocationInit DEF PartsInit, LocationsInv
<1>2. LocationsInv /\ [PartsNext]_<<subject, locations, neighbors, matrices, trees>> => LocationsInv'
  <2> SUFFICES ASSUME LocationsInv, [PartsNext]_<<subject, locations, neighbors, matrices, trees>>
               PROVE  LocationsInv'
    OBVIOUS
  <2>1. CASE PartsNext
    <3>1. CASE subject = "locations" /\ Next
      <4>1. LocationInv'
        BY <3>1, LocationStep DEF LocationsInv
      <4> QED BY <4>1 DEF LocationsInv
    <3>2. CASE subject # "locations" /\ subject' = subject
      BY <3>2 DEF LocationsInv
    <3> QED BY <2>1, <3>1, <3>2 DEF PartsNext
  <2>2. CASE UNCHANGED <<subject, locations, neighbors, matrices, trees>>
    BY <2>2 DEF LocationsInv, LocationInv, IsCode, IsFast, Fits, locations
  <2> QED BY <2>1, <2>2
<1>3. LocationsInv => LocationsAgree
  BY LocationsRight DEF LocationsInv, LocationsAgree
<1> QED BY <1>1, <1>2, <1>3, PTL DEF PartsSpec
=============================================================================
