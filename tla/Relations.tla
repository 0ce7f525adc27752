----------------------------- MODULE Relations -----------------------------
(***************************************************************************)
(* The relations between the nodes of an Nd-tree that follow from their    *)
(* positions alone (tree/relations/tree.hpp, tree/relations/neighbor.hpp). *)
(*                                                                         *)
(* A position is the path of child positions from the root; bit d of a     *)
(* child position tells in which half of its parent the child lies along   *)
(* dimension d.  The neighbours of a node across its faces of dimension    *)
(* Nd - M form the manifold M = 1, ..., Nd.  Dimensions, and the neighbours *)
(* of a manifold, are numbered from 1 here and from 0 in the code.         *)
(***************************************************************************)
EXTENDS Integers, Sequences, FiniteSetsExt

CONSTANT Nd   \* number of spatial dimensions

ASSUME NdAssumption == Nd \in 1 .. 3

Dimension == 1 .. Nd
Manifold == 1 .. Nd

no_children(nd) == 2^nd
child_pos == 0 .. no_children(Nd) - 1

bit(value, b) == (value \div 2^b) % 2

-----------------------------------------------------------------------------
(* How many faces of dimension m a node has, how many of its children share *)
(* one, and the neighbours at the children's level across all manifolds,    *)
(* for which the result of a search has room.                               *)

binomial_coefficient(n, k) ==
  Cardinality({s \in SUBSET (1 .. n) : Cardinality(s) = k})

no_faces(nd, m) ==
  IF m <= nd THEN 2^(nd - m) * binomial_coefficient(nd, m) ELSE 0

no_nodes_sharing_face(nd, m) == IF nd >= m THEN 2^m ELSE 0

no_neighbors(nd, m) == no_nodes_sharing_face(nd, m) * no_faces(nd, m)

(* A bug: room for the faces alone. *)
NoNeighborsAcrossFaces(nd) == no_neighbors(nd, nd - 1)

max_no_neighbors(nd) == MapThenSumSet(LAMBDA m : no_neighbors(nd, m), 1 .. nd)

-----------------------------------------------------------------------------
(* For each neighbour across a face of dimension m: its offset from the     *)
(* node in lengths of the node, and its children that share the face.       *)

neighbor_lookup_table == [m \in 0 .. Nd - 1 |->
  CASE Nd = 1 /\ m = 0 -> <<<<-1>>, <<1>>>>
    [] Nd = 2 /\ m = 1 -> <<<<-1, 0>>, <<1, 0>>, <<0, -1>>, <<0, 1>>>>
    [] Nd = 2 /\ m = 0 -> <<<<-1, -1>>, <<1, -1>>, <<-1, 1>>, <<1, 1>>>>
    [] Nd = 3 /\ m = 2 ->
         <<<<-1, 0, 0>>, <<1, 0, 0>>, <<0, -1, 0>>, <<0, 1, 0>>,
           <<0, 0, -1>>, <<0, 0, 1>>>>
    [] Nd = 3 /\ m = 1 ->
         <<<<-1, -1, 0>>, <<1, -1, 0>>, <<-1, 1, 0>>, <<1, 1, 0>>,
           <<-1, 0, -1>>, <<1, 0, -1>>, <<0, -1, -1>>, <<0, 1, -1>>,
           <<-1, 0, 1>>, <<1, 0, 1>>, <<0, -1, 1>>, <<0, 1, 1>>>>
    [] Nd = 3 /\ m = 0 ->
         <<<<-1, -1, -1>>, <<1, -1, -1>>, <<-1, 1, -1>>, <<1, 1, -1>>,
           <<-1, -1, 1>>, <<1, -1, 1>>, <<-1, 1, 1>>, <<1, 1, 1>>>>]

(* A bug: the children on the far side of the neighbour. *)
FarChildren == [m \in 0 .. Nd - 1 |->
  LET n == Len(neighbor_lookup_table[m]) IN
  [i \in 1 .. n |->
     {p \in child_pos : \A d \in Dimension :
        /\ neighbor_lookup_table[m][i][d] = 1 => bit(p, d - 1) = 1
        /\ neighbor_lookup_table[m][i][d] = -1 => bit(p, d - 1) = 0}]]

neighbor_children_sharing_face == [m \in 0 .. Nd - 1 |->
  CASE Nd = 1 /\ m = 0 -> <<{1}, {0}>>
    [] Nd = 2 /\ m = 1 -> <<{1, 3}, {0, 2}, {2, 3}, {0, 1}>>
    [] Nd = 2 /\ m = 0 -> <<{3}, {2}, {1}, {0}>>
    [] Nd = 3 /\ m = 2 ->
         <<{1, 3, 5, 7}, {0, 2, 4, 6}, {2, 3, 6, 7},
           {0, 1, 4, 5}, {4, 5, 6, 7}, {0, 1, 2, 3}>>
    [] Nd = 3 /\ m = 1 ->
         <<{3, 7}, {2, 6}, {1, 5}, {0, 4}, {5, 7}, {4, 6},
           {6, 7}, {4, 5}, {1, 3}, {0, 2}, {2, 3}, {0, 1}>>
    [] Nd = 3 /\ m = 0 -> <<{7}, {6}, {5}, {4}, {3}, {2}, {1}, {0}>>]

neighbor_idx(M) == DOMAIN neighbor_lookup_table[Nd - M]
offset(M, i) == neighbor_lookup_table[Nd - M][i]
children_sharing_face(M, i) == neighbor_children_sharing_face[Nd - M][i]

(* The neighbours of all manifolds. *)
Neighbor == UNION {{M} \X neighbor_idx(M) : M \in Manifold}

(* A bug: the edges in the reverse order. *)
OppositeReversed(M, i) ==
  CASE M = 1 -> IF i % 2 = 0 THEN i - 1 ELSE i + 1
    [] M = 2 -> no_faces(Nd, Nd - 2) + 1 - i
    [] M = 3 -> no_children(Nd) + 1 - i

(* The position under which a node is found from its neighbour i. *)
opposite(M, i) ==
  CASE M = 1 -> IF i % 2 = 0 THEN i - 1 ELSE i + 1
    [] M = 2 -> <<4, 3, 2, 1, 10, 9, 12, 11, 6, 5, 8, 7>>[i]
    [] M = 3 -> no_children(Nd) + 1 - i

-----------------------------------------------------------------------------
(* The cell of a path within the uniform grid of its level. *)

node_level(path) == Len(path)

Coordinate(path, d) ==
  LET x[k \in 0 .. Len(path)] ==
        IF k = 0 THEN 0 ELSE 2 * x[k - 1] + bit(path[k], d - 1)
  IN  x[Len(path)]

Coordinates(path) == [d \in Dimension |-> Coordinate(path, d)]

(* On which side of its parent's centre a child lies along each dimension. *)
relative_child_position(p) ==
  [d \in Dimension |-> IF bit(p, d - 1) = 1 THEN 1 ELSE -1]

(* The centre of a node: from that of the root, half a length of the child    *)
(* per level; lengths and coordinates in units of unit, the root's length.     *)
node_length_at_level(l, unit) == unit \div 2^l
normalized_coordinates(path, unit) ==
  [d \in Dimension |->
     unit \div 2 + MapThenSumSet(LAMBDA k :
       relative_child_position(path[k])[d] * (node_length_at_level(k - 1, unit) \div 4),
       DOMAIN path)]

(* The path to the cell with coordinates x at a level: a location made from  *)
(* them, whose positions are the bits of the coordinates.                     *)
PathTo(level, x) ==
  [k \in 1 .. level |->
     CHOOSE p \in child_pos :
       \A d \in Dimension : bit(p, d - 1) = bit(x[d], level - k)]

(* The path of the cell that lies at an offset, {} when it is out of bounds. *)
shift_location(path, by) ==
  LET x == [d \in Dimension |-> Coordinate(path, d) + by[d]]
  IN  IF \A d \in Dimension : x[d] \in 0 .. 2^Len(path) - 1
      THEN {PathTo(Len(path), x)} ELSE {}

=============================================================================
