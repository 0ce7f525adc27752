------------------------------ MODULE Balanced ------------------------------
(***************************************************************************)
(* Refining and coarsening a tree so that nodes that touch differ by one   *)
(* level at most (tree/algorithm/balanced_refine.hpp,                      *)
(* balanced_coarsen.hpp), and the neighbour search that decides it         *)
(* (node_neighbors.hpp).                                                   *)
(*                                                                         *)
(* The tree is the abstract one, which the storage implements (module      *)
(* TreeRefinement): a node is its path, in place of its index.  The search *)
(* returns nodes in the order of their indices, which the history of the   *)
(* storage decides: here any order.  The recursion of balanced_refine is a *)
(* stack of calls, so that the tree is seen in the states between.         *)
(***************************************************************************)
EXTENDS Relations

CONSTANT MaxRefined   \* how many nodes can have children, as in AbstractTree

ASSUME MaxRefinedAssumption == MaxRefined \in Nat

VARIABLES
  refined,   \* the nodes with children
  calls,     \* the calls of balanced_refine in progress, the innermost last
  before     \* history: what was refined before the outermost call

vars == <<refined, calls, before>>

Tree == INSTANCE AbstractTree WITH ChildPos <- child_pos

is_leaf(n) == n \notin refined
children(n) == {Append(n, p) : p \in child_pos}

-----------------------------------------------------------------------------
(* The neighbour search. *)

(* The smallest node that contains the cell of a path. *)
node_or_parent_at(path) ==
  SubSeq(path, 1,
         Max({l \in 0 .. Len(path) : Tree!Exists(SubSeq(path, 1, l))}))

(* What the search adds for neighbour i across manifold M.  A node found    *)
(* that has children is at the level of the node, a leaf may be above it.   *)
neighbors_at(n, M, i) ==
  LET found == {node_or_parent_at(path) : path \in shift_location(n, offset(M, i))}
  IN  {m \in found : is_leaf(m)}
        \cup {Append(m, p) : m \in {m \in found : ~is_leaf(m)},
                             p \in children_sharing_face(M, i)}

(* All neighbours; the root has none, for every shift of it is out of bounds. *)
node_neighbors(n) ==
  UNION {neighbors_at(n, at[1], at[2]) : at \in Neighbor}

(* Bug: a leaf that is not in the set ends the search. *)
NeighborsAtLeaves(nodes, n, M, i) ==
  LET found == {node_or_parent_at(path) : path \in shift_location(n, offset(M, i))}
  IN  {m \in found : is_leaf(m)}
        \cup {Append(m, p) : m \in {m \in found : ~is_leaf(m)},
                             p \in children_sharing_face(M, i)}

(* The search with a predicate, membership in a set of nodes (the cells of a *)
(* grid): a leaf stands for its parent if that is the member.                *)
neighbors_at_in(nodes, n, M, i) ==
  LET found == {node_or_parent_at(path) : path \in shift_location(n, offset(M, i))}
      leaves == {m \in found : is_leaf(m)}
  IN  (leaves \cap nodes)
        \cup {SubSeq(m, 1, Len(m) - 1) : m \in leaves \ (nodes \cup {<<>>})}
        \cup {Append(m, p) : m \in found \ leaves, p \in children_sharing_face(M, i)}

node_neighbors_in(nodes, n) ==
  nodes \cap UNION {neighbors_at_in(nodes, n, at[1], at[2]) : at \in Neighbor}

-----------------------------------------------------------------------------
(* balanced_refine, one action per step of its loop. *)

(* A bug: the neighbours across faces only. *)
CallAcrossFaces(n) ==
  [node |-> n,
   pending |-> {m \in UNION {neighbors_at(n, 1, i) : i \in neighbor_idx(1)} :
                  node_level(m) = node_level(n) - 1}]

(* The neighbours that a call is going to look at are found at its start;    *)
(* their level does not change, whether they are leaves is looked up later.  *)
Call(n) ==
  [node |-> n,
   pending |-> {m \in node_neighbors(n) : node_level(m) = node_level(n) - 1}]

top == calls[Len(calls)]
Returned == SubSeq(calls, 1, Len(calls) - 1)

balanced_refine(n) ==
  /\ calls = <<>>
  /\ is_leaf(n)
  /\ calls' = <<Call(n)>>
  /\ before' = refined
  /\ UNCHANGED refined

(* The loop comes to a neighbour that is a leaf (still, or because its        *)
(* refinement failed elsewhere): it is refined first.                         *)
VisitNeighbor ==
  /\ calls # <<>>
  /\ \E m \in {m \in top.pending : is_leaf(m)} :
       calls' = Returned \o <<[top EXCEPT !.pending = @ \ {m}], Call(m)>>
  /\ UNCHANGED <<refined, before>>

(* Bugs: a node too few is refined; a full tree is tried again. *)
RefineNodeEarlyFull ==
  /\ calls # <<>>
  /\ \A m \in top.pending : ~is_leaf(m)
  /\ \/ Cardinality(refined) < MaxRefined - 1 /\ Tree!Refine(top.node)
     \/ Cardinality(refined) >= MaxRefined - 1 /\ UNCHANGED refined
  /\ calls' = Returned
  /\ before' = IF Returned = <<>> THEN {} ELSE before

RefineNodeRetried ==
  /\ calls # <<>>
  /\ \A m \in top.pending : ~is_leaf(m)
  /\ \/ /\ Tree!Refine(top.node)
        /\ calls' = Returned
        /\ before' = IF Returned = <<>> THEN {} ELSE before
     \/ Cardinality(refined) >= MaxRefined /\ UNCHANGED vars

(* No neighbour left: refine the node.   In a full tree refine does nothing, *)
(* and the call returns all the same.                                        *)
RefineNode ==
  /\ calls # <<>>
  /\ \A m \in top.pending : ~is_leaf(m)
  /\ \/ Tree!Refine(top.node)
     \/ Cardinality(refined) >= MaxRefined /\ UNCHANGED refined
  /\ calls' = Returned
  /\ before' = IF Returned = <<>> THEN {} ELSE before

-----------------------------------------------------------------------------
(* balanced_coarsen *)

(* A bug: any neighbour finer than the node refuses. *)
CanCoarsenStrict(n) ==
  /\ \A c \in children(n) : is_leaf(c)
  /\ \A c \in children(n) : \A m \in node_neighbors(c) \ children(n) :
       node_level(m) <= node_level(n)

(* It looks for a neighbour of a child that is finer than the child. *)
CanCoarsen(n) ==
  /\ \A c \in children(n) : is_leaf(c)
  /\ \A c \in children(n) : \A m \in node_neighbors(c) :
       node_level(m) <= node_level(n) + 1

balanced_coarsen(n) ==
  /\ calls = <<>>
  /\ CanCoarsen(n)
  /\ Tree!Coarsen(n)
  /\ UNCHANGED <<calls, before>>

-----------------------------------------------------------------------------
Init ==
  /\ Tree!Init
  /\ calls = <<>>
  /\ before = {}

Next ==
  \/ \E n \in Tree!Leaves : balanced_refine(n)
  \/ VisitNeighbor
  \/ RefineNode
  \/ \E n \in refined : balanced_coarsen(n)

(* A call runs to its end on the thread that made it. *)
Fairness == WF_vars(VisitNeighbor) /\ WF_vars(RefineNode)

Spec == Init /\ [][Next]_vars /\ Fairness

(* Only calls that find no neighbour to refine first.  They reach every       *)
(* balanced tree, for one whose finest nodes go last can be built by them.    *)
NextFlat == Next /\ \A k \in DOMAIN calls' : calls'[k].pending = {}

-----------------------------------------------------------------------------
(* Properties.  Touching nodes are defined by their extents, with none of    *)
(* the tables the search uses.                                               *)

(* The ends of the interval a node covers along d, in units that make them   *)
(* whole for any two nodes.                                                  *)
Lower(n, other, d) == Coordinate(n, d) * 2^node_level(other)
Upper(n, other, d) == (Coordinate(n, d) + 1) * 2^node_level(other)

Touch(a, b) ==
  \A d \in Dimension :
    Lower(a, b, d) <= Upper(b, a, d) /\ Lower(b, a, d) <= Upper(a, b, d)

Balanced(nodes) ==
  LET leaves == {n \in {Append(r, p) : r \in nodes, p \in child_pos} : n \notin nodes}
  IN  \A a, b \in leaves :
        node_level(a) > node_level(b) + 1 => ~Touch(a, b)

(* Nodes that touch, be it in a corner, differ by one level at most: after   *)
(* every operation, in the middle of the recursion, and also when the tree   *)
(* is full and a neighbour could not be refined.                             *)
TwoToOne == Balanced(refined)

(* Between two operations the search finds the leaves that touch a leaf and  *)
(* no other node.                                                            *)
NeighborsExact ==
  calls = <<>> =>
  \A n \in Tree!Leaves :
    node_neighbors(n) = {m \in Tree!Leaves \ {n} : Touch(n, m)}

(* The result of a search has room for the neighbours of every manifold,     *)
(* which it holds before the duplicates are removed.                         *)
NeighborsFit ==
  calls = <<>> =>
  \A n \in Tree!Leaves :
    MapThenSumSet(
      LAMBDA Mi : Cardinality(neighbors_at(n, Mi[1], Mi[2])), Neighbor)
        <= max_no_neighbors(Nd)

(* balanced_refine refines its node unless the tree is full, and then no more *)
(* nodes than the balance asks for: with any of the others left out the tree  *)
(* is not balanced.  Balanced trees are closed under intersection, so that    *)
(* this makes the result the smallest one.                                    *)
RefinesWhatItMust ==
  [][\A n \in {calls[1].node : k \in DOMAIN calls \cap {1}} :
       calls' = <<>> =>
         \/ n \notin refined' /\ Cardinality(refined') = MaxRefined
         \/ /\ n \in refined'
            /\ \A m \in refined' \ (before \cup {n}) : ~Balanced(refined' \ {m})]_vars

(* balanced_coarsen coarsens every node that can go without losing the        *)
(* balance, and no other.                                                     *)
CoarsensWhatItMay ==
  calls = <<>> =>
    \A n \in refined :
      (\A c \in children(n) : is_leaf(c)) =>
        (CanCoarsen(n) <=> Balanced(refined \ {n}))

(* Every call comes to its end, however far the refinement spreads.          *)
CallReturns == calls # <<>> ~> calls = <<>>

=============================================================================
