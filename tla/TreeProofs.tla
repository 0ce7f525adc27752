----------------------------- MODULE TreeProofs -----------------------------
(***************************************************************************)
(* Proofs about the storage of module Tree, for every number of children   *)
(* and every capacity: the invariants of the storage, and that it          *)
(* implements the abstract tree. Each step of Tree is a step of            *)
(* AbstractTree at the path of its node, or leaves the paths that are      *)
(* refined as they are.                                                    *)
(*                                                                         *)
(* Then dfs_sort: the storage stays a tree through every swap of a sort,   *)
(* the data follows its node, and a sort that ends leaves the groups in    *)
(* use first in memory and in depth-first order.                           *)
(***************************************************************************)
EXTENDS DfsSort, FiniteSetTheorems, SequenceTheorems, WellFoundedInduction, TLAPS

(* The capacity in groups is positive, and the nodes that fit are the root *)
(* and NC for every other group (constructor and no_nodes of tree.hpp).    *)
LEMMA CapacityOfGroups ==
  /\ sg_capacity_ \in Nat \ {0}
  /\ capacity \in Nat \ {0}
  /\ capacity = 1 + NC * (sg_capacity_ - 1)
<1> USE NCAssumption, NodeCapacityAssumption
    DEF sg_capacity_, capacity, no_nodes, no_sibling_groups, sibling_group
<1>1. CASE NC = 2 BY <1>1
<1>2. CASE NC = 4 BY <1>2
<1>3. CASE NC = 8 BY <1>3
<1> QED BY <1>1, <1>2, <1>3

(* sibling_group is the inverse of nodes: the nodes of a group exist and *)
(* have that group.                                                      *)
LEMMA NodesOfGroup ==
  ASSUME NEW s \in SiblingGroup
  PROVE  /\ first_node(s) \in nodes(s)
         /\ nodes(s) \subseteq Node
         /\ \A n \in nodes(s) : sibling_group(n) = s
<1> USE NCAssumption, CapacityOfGroups
    DEF SiblingGroup, Node, nodes, first_node, sibling_group
<1> SUFFICES ASSUME NEW n \in nodes(s)
             PROVE  first_node(s) \in nodes(s) /\ n \in Node
                      /\ sibling_group(n) = s
  OBVIOUS
<1>1. CASE NC = 2 BY <1>1
<1>2. CASE NC = 4 BY <1>2
<1>3. CASE NC = 8 BY <1>3
<1> QED BY <1>1, <1>2, <1>3

(* Every node belongs to the nodes of its sibling group. *)
LEMMA GroupOfNode ==
  ASSUME NEW n \in Node
  PROVE  sibling_group(n) \in SiblingGroup /\ n \in nodes(sibling_group(n))
<1> USE NCAssumption, CapacityOfGroups
    DEF SiblingGroup, Node, nodes, first_node, sibling_group
<1>1. CASE NC = 2 BY <1>1
<1>2. CASE NC = 4 BY <1>2
<1>3. CASE NC = 8 BY <1>3
<1> QED BY <1>1, <1>2, <1>3

(* The first node of a group identifies it. *)
LEMMA FirstNodeOfGroup ==
  ASSUME NEW s \in SiblingGroup
  PROVE  /\ first_node(s) \in Node
         /\ first_node(s) # None
         /\ sibling_group(first_node(s)) = s
BY NodesOfGroup, CapacityOfGroups DEF Node, None

-----------------------------------------------------------------------------
(* The inductive invariant: the four facts about the edges and the size need *)
(* one another (which group coarsen frees follows from EdgesAgree, that its  *)
(* nodes are leaves from the precondition, that no other group hangs from    *)
(* them from FreeNodesAreLeaves, and the bound of size_ from the count).     *)

Storage ==
  TypeOK /\ EdgesAgree /\ FreeNodesAreLeaves /\ SizeCountsNodes /\ NoOrphans

(* A node that has children is the parent of the group they are in. *)
LEMMA ChildrenGroup ==
  ASSUME EdgesAgree, NEW n \in Node, ~is_leaf(n)
  PROVE  /\ sibling_group(first_children_[n]) \in SiblingGroup \ {0}
         /\ first_children_[n] = first_node(sibling_group(first_children_[n]))
         /\ parents_[sibling_group(first_children_[n])] = n
<1>1. PICK s \in SiblingGroup \ {0} :
         first_children_[n] = first_node(s) /\ parents_[s] = n
  BY DEF EdgesAgree
<1>2. sibling_group(first_children_[n]) = s
  BY <1>1, FirstNodeOfGroup
<1> QED BY <1>1, <1>2

(* The groups in use are finitely many, the root's among them, and the nodes *)
(* they hold fit.                                                            *)
LEMMA GroupsInUse ==
  /\ IsFiniteSet(sibling_groups)
  /\ Cardinality(sibling_groups) \in 1 .. sg_capacity_
  /\ no_nodes(Cardinality(sibling_groups)) \in 1 .. capacity
<1>1. IsFiniteSet(SiblingGroup) /\ Cardinality(SiblingGroup) = sg_capacity_
  BY FS_Interval, CapacityOfGroups DEF SiblingGroup
<1>2. sibling_groups \subseteq SiblingGroup /\ 0 \in sibling_groups
  BY CapacityOfGroups DEF sibling_groups, is_free, SiblingGroup
<1>3. /\ IsFiniteSet(sibling_groups)
      /\ Cardinality(sibling_groups) <= sg_capacity_
  BY <1>1, <1>2, FS_Subset
<1>4. Cardinality(sibling_groups) \in Nat \ {0}
  BY <1>2, <1>3, FS_CardinalityType, FS_EmptySet
<1>5. Cardinality(sibling_groups) \in 1 .. sg_capacity_
  BY <1>3, <1>4, CapacityOfGroups
<1>6. ASSUME NEW k \in 1 .. sg_capacity_
      PROVE  no_nodes(k) \in 1 .. capacity
  <2> USE <1>6, NCAssumption, CapacityOfGroups DEF no_nodes
  <2>1. CASE NC = 2 BY <2>1
  <2>2. CASE NC = 4 BY <2>2
  <2>3. CASE NC = 8 BY <2>3
  <2> QED BY <2>1, <2>2, <2>3
<1> QED BY <1>3, <1>5, <1>6

(* The same facts about the next state. *)
LEMMA NextGroupsInUse ==
  (/\ IsFiniteSet(sibling_groups)
   /\ Cardinality(sibling_groups) \in 1 .. sg_capacity_
   /\ no_nodes(Cardinality(sibling_groups)) \in 1 .. capacity)'
BY GroupsInUse, PTL

(* The constructor establishes the invariant. *)
LEMMA InitStorage == Init => Storage
<1> SUFFICES ASSUME Init PROVE Storage
  OBVIOUS
<1> USE DEF Init, None
<1>1. sibling_groups = {0}
  BY CapacityOfGroups DEF sibling_groups, is_free, SiblingGroup
<1>2. SizeCountsNodes
  <2>1. Cardinality(sibling_groups) = 1
    BY <1>1, FS_Singleton
  <2> QED BY <2>1, NCAssumption DEF SizeCountsNodes, no_nodes
<1>3. TypeOK
  BY CapacityOfGroups DEF TypeOK
<1>4. EdgesAgree
  BY CapacityOfGroups DEF EdgesAgree, SiblingGroup, is_leaf
<1>5. FreeNodesAreLeaves
  BY DEF FreeNodesAreLeaves, is_leaf
<1>6. NoOrphans
  BY <1>1 DEF NoOrphans
<1> QED BY <1>2, <1>3, <1>4, <1>5, <1>6 DEF Storage

-----------------------------------------------------------------------------
(* refine keeps the invariant. *)

(* The number of nodes grows and shrinks by NC with the groups in use. *)
LEMMA NoNodesStep ==
  ASSUME NEW k \in Nat \ {0}
  PROVE  no_nodes(k + 1) = no_nodes(k) + NC
<1> USE DEF no_nodes
<1>1. CASE NC = 2 BY <1>1
<1>2. CASE NC = 4 BY <1>2
<1>3. CASE NC = 8 BY <1>3
<1> QED BY <1>1, <1>2, <1>3, NCAssumption

(* refine keeps the invariant when it takes a free group. *)
LEMMA RefineStorage ==
  ASSUME Storage, NEW p \in Node, RefineTakes(p)
  PROVE  Storage'
<1> DEFINE s == first_free_sibling_group_
<1> USE DEF Storage
<1>1. /\ s \in SiblingGroup \ {0}
      /\ parents_[s] = None
      /\ parents_' = [parents_ EXCEPT ![s] = p]
      /\ first_children_' = [first_children_ EXCEPT ![p] = first_node(s)]
      /\ size_' = size_ + NC
      /\ first_free_sibling_group_' \in s + 1 .. sg_capacity_
      /\ failed' = failed
  <2>1. s \in 1 .. sg_capacity_ /\ s < sg_capacity_ /\ is_free(s)
    BY DEF TypeOK, RefineTakes
  <2>2. s \in SiblingGroup \ {0} /\ parents_[s] = None
    BY <2>1, CapacityOfGroups DEF is_free, SiblingGroup
  <2>3. first_free_sibling_group_' \in s + 1 .. sg_capacity_
    BY DEF RefineTakes
  <2> QED BY <2>2, <2>3 DEF RefineTakes
<1>2. ~is_free(sibling_group(p)) /\ is_leaf(p)
  BY DEF RefineTakes, CanRefine
<1>3. /\ parents_ \in [SiblingGroup -> Node \cup {None}]
      /\ first_children_ \in [Node -> Node \cup {None}]
  BY DEF TypeOK
<1>4. first_node(s) \in Node /\ first_node(s) # None /\ p # None
  BY <1>1, FirstNodeOfGroup DEF Node, None
<1>5. ASSUME NEW t \in SiblingGroup \ {0}, parents_[t] # None
      PROVE  t # s /\ parents_[t] \in Node /\ ~is_leaf(parents_[t])
               /\ parents_[t] # p
  BY <1>1, <1>2, <1>3, <1>5, FirstNodeOfGroup DEF EdgesAgree, is_leaf
<1>6. EdgesAgree'
  <2>1. parents_'[0] = None
    BY <1>1, <1>3 DEF EdgesAgree
  <2>2. ASSUME NEW t \in SiblingGroup \ {0}, parents_'[t] # None
        PROVE  first_children_'[parents_'[t]] = first_node(t)
    <3>1. CASE t = s BY <3>1, <1>1, <1>3
    <3>2. CASE t # s BY <3>2, <2>2, <1>1, <1>3, <1>5 DEF EdgesAgree
    <3> QED BY <3>1, <3>2
  <2>3. ASSUME NEW n \in Node, first_children_'[n] # None
        PROVE  \E t \in SiblingGroup \ {0} :
                 first_children_'[n] = first_node(t) /\ parents_'[t] = n
    <3>1. CASE n = p BY <3>1, <1>1, <1>3
    <3>2. CASE n # p
      <4>1. PICK t \in SiblingGroup \ {0} :
              first_children_[n] = first_node(t) /\ parents_[t] = n
        BY <3>2, <2>3, <1>1, <1>3 DEF EdgesAgree, is_leaf
      <4>2. t # s BY <4>1, <1>1 DEF Node, None
      <4> QED BY <4>1, <4>2, <3>2, <1>1, <1>3
    <3> QED BY <3>1, <3>2
  <2> QED BY <2>1, <2>2, <2>3 DEF EdgesAgree, is_leaf
<1>7. \A t \in SiblingGroup : is_free(t)' <=> is_free(t) /\ t # s
  BY <1>1, <1>3, <1>4 DEF is_free
<1>8. FreeNodesAreLeaves'
  BY <1>1, <1>2, <1>3, <1>7, GroupOfNode
    DEF FreeNodesAreLeaves, is_leaf
<1>9. sibling_groups' = sibling_groups \cup {s} /\ s \notin sibling_groups
  BY <1>1, <1>7 DEF sibling_groups, is_free
<1>10. SizeCountsNodes'
  <2>1. Cardinality(sibling_groups') = Cardinality(sibling_groups) + 1
    BY <1>9, GroupsInUse, FS_AddElement
  <2> QED BY <2>1, <1>1, GroupsInUse, NoNodesStep DEF SizeCountsNodes
<1>11. NoOrphans'
  <2> SUFFICES ASSUME NEW X \in SUBSET (sibling_groups' \ {0}), X # {}
               PROVE  \E t \in X : sibling_group(parents_'[t]) \notin X
    BY DEF NoOrphans
  <2>1. \A t \in X \ {s} : /\ t \in sibling_groups \ {0}
                          /\ parents_'[t] = parents_[t]
                          /\ sibling_group(parents_[t]) # s
    <3> TAKE t \in X \ {s}
    <3>1. t \in sibling_groups \ {0} /\ t \in SiblingGroup \ {0}
      BY <1>9 DEF sibling_groups
    <3>2. parents_[t] # None /\ parents_'[t] = parents_[t]
      BY <3>1, <1>1, <1>3 DEF sibling_groups, is_free
    <3>3. sibling_group(parents_[t]) # s
      BY <3>1, <3>2, <1>1, <1>5 DEF FreeNodesAreLeaves, is_free
    <3> QED BY <3>1, <3>2, <3>3
  <2>2. CASE X \ {s} = {}
    BY <2>2, <1>1, <1>2, <1>3 DEF is_free
  <2>3. CASE X \ {s} # {}
    <3>1. PICK t \in X \ {s} : sibling_group(parents_[t]) \notin X \ {s}
      BY <2>1, <2>3 DEF NoOrphans
    <3> QED BY <3>1, <2>1
  <2> QED BY <2>2, <2>3
<1>12. TypeOK'
  <2>1. size_' \in 1 .. capacity
    <3>1. no_nodes(Cardinality(sibling_groups'))  \in 1 .. capacity
      BY <1>10, GroupsInUse, NextGroupsInUse
    <3> QED BY <3>1, <1>10 DEF SizeCountsNodes
  <2>2. parents_' \in [SiblingGroup -> Node \cup {None}]
    BY <1>1, <1>3
  <2>3. first_children_' \in [Node -> Node \cup {None}]
    BY <1>1, <1>3, <1>4
  <2>4. first_free_sibling_group_' \in 1 .. sg_capacity_
    BY <1>1, CapacityOfGroups DEF SiblingGroup
  <2> QED BY <2>1, <2>2, <2>3, <2>4, <1>1 DEF TypeOK
<1> QED BY <1>6, <1>8, <1>10, <1>11, <1>12

-----------------------------------------------------------------------------
(* coarsen keeps the invariant. *)

(* The children of p are the nodes of the group that coarsen frees. *)
LEMMA ChildrenAreGroup ==
  ASSUME EdgesAgree, NEW p \in Node, ~is_leaf(p)
  PROVE  children(p) = nodes(children_group(p))
<1> DEFINE cg == sibling_group(first_children_[p])
<1>1. cg \in SiblingGroup \ {0} /\ first_children_[p] = first_node(cg)
  BY ChildrenGroup
<1>2. nodes(cg) = first_node(cg) .. first_node(cg) + NC - 1
  BY <1>1 DEF nodes
<1>3. children_group(p) = cg
  BY DEF children_group
<1> QED BY <1>1, <1>2, <1>3 DEF children

(* coarsen of a node whose children are leaves keeps the invariant. *)
LEMMA CoarsenStorage ==
  ASSUME Storage, NEW p \in Node, coarsen(p)
  PROVE  Storage'
<1> DEFINE cg == children_group(p)
<1> USE DEF Storage
<1>1. /\ ~is_free(sibling_group(p))
      /\ ~is_leaf(p)
      /\ \A c \in children(p) : is_leaf(c)
      /\ parents_' = [parents_ EXCEPT ![cg] = None]
      /\ first_children_' = [first_children_ EXCEPT ![p] = None]
      /\ size_' = size_ - NC
      /\ failed' = failed
      /\ first_free_sibling_group_' \in {cg, first_free_sibling_group_}
  BY DEF coarsen, CanCoarsen, FirstFreeAfterCoarsen
<1>2. /\ cg \in SiblingGroup \ {0}
      /\ first_children_[p] = first_node(cg)
      /\ parents_[cg] = p
  BY <1>1, ChildrenGroup DEF children_group
<1>3. /\ parents_ \in [SiblingGroup -> Node \cup {None}]
      /\ first_children_ \in [Node -> Node \cup {None}]
  BY DEF TypeOK
<1>4. p # None
  BY DEF Node, None
<1>5. EdgesAgree'
  <2>1. parents_'[0] = None
    BY <1>1, <1>2, <1>3 DEF EdgesAgree
  <2>2. ASSUME NEW t \in SiblingGroup \ {0}, parents_'[t] # None
        PROVE  first_children_'[parents_'[t]] = first_node(t)
    <3>1. t # cg /\ parents_'[t] = parents_[t] /\ parents_[t] \in Node
      BY <2>2, <1>1, <1>2, <1>3
    <3>2. first_children_[parents_[t]] = first_node(t)
      BY <3>1, <2>2 DEF EdgesAgree
    <3>3. parents_[t] # p
      BY <3>1, <3>2, <1>2, FirstNodeOfGroup
    <3> QED BY <3>1, <3>2, <3>3, <1>1, <1>3
  <2>3. ASSUME NEW n \in Node, first_children_'[n] # None
        PROVE  \E t \in SiblingGroup \ {0} :
                 first_children_'[n] = first_node(t) /\ parents_'[t] = n
    <3>1. n # p /\ first_children_'[n] = first_children_[n]
      BY <2>3, <1>1, <1>3
    <3>2. PICK t \in SiblingGroup \ {0} :
            first_children_[n] = first_node(t) /\ parents_[t] = n
      BY <3>1, <2>3 DEF EdgesAgree, is_leaf
    <3>3. t # cg BY <3>1, <3>2, <1>2
    <3> QED BY <3>1, <3>2, <3>3, <1>1, <1>3
  <2> QED BY <2>1, <2>2, <2>3 DEF EdgesAgree, is_leaf
<1>6. \A t \in SiblingGroup : is_free(t)' <=> is_free(t) \/ t = cg
  BY <1>1, <1>2, <1>3 DEF is_free
<1>7. FreeNodesAreLeaves'
  <2> SUFFICES ASSUME NEW n \in Node, is_free(sibling_group(n))'
               PROVE  first_children_'[n] = None
    BY DEF FreeNodesAreLeaves, is_leaf
  <2>1. CASE is_free(sibling_group(n))
    BY <2>1, <1>1, <1>3 DEF FreeNodesAreLeaves, is_leaf
  <2>2. CASE sibling_group(n) = cg
    <3>1. n \in children(p)
      BY <2>2, <1>1, GroupOfNode, ChildrenAreGroup
    <3> QED BY <3>1, <1>1, <1>3 DEF is_leaf
  <2> QED BY <2>1, <2>2, <1>6, GroupOfNode DEF is_free
<1>8. sibling_groups' = sibling_groups \ {cg} /\ cg \in sibling_groups
  BY <1>2, <1>4, <1>6 DEF sibling_groups, is_free
<1>9. SizeCountsNodes'
  <2>1. Cardinality(sibling_groups') = Cardinality(sibling_groups) - 1
    BY <1>8, GroupsInUse, FS_RemoveElement
  <2>2. Cardinality(sibling_groups') \in Nat \ {0}
    BY NextGroupsInUse, CapacityOfGroups
  <2>3. no_nodes(Cardinality(sibling_groups))
          = no_nodes(Cardinality(sibling_groups')) + NC
    BY <2>1, <2>2, GroupsInUse, NoNodesStep
  <2>4. no_nodes(Cardinality(sibling_groups')) \in Int
    BY NextGroupsInUse, CapacityOfGroups
  <2> QED BY <2>3, <2>4, <1>1, NCAssumption DEF SizeCountsNodes
<1>10. NoOrphans'
  <2> SUFFICES ASSUME NEW X \in SUBSET (sibling_groups' \ {0}), X # {}
               PROVE  \E t \in X : sibling_group(parents_'[t]) \notin X
    BY DEF NoOrphans
  <2>1. X \in SUBSET (sibling_groups \ {0}) /\ cg \notin X
    BY <1>8
  <2>2. PICK t \in X : sibling_group(parents_[t]) \notin X
    BY <2>1 DEF NoOrphans
  <2>3. parents_'[t] = parents_[t]
    BY <2>1, <1>1, <1>3 DEF sibling_groups
  <2> QED BY <2>2, <2>3
<1>11. TypeOK'
  <2>1. size_' \in 1 .. capacity
    BY <1>9, NextGroupsInUse DEF SizeCountsNodes
  <2>2. parents_' \in [SiblingGroup -> Node \cup {None}]
    BY <1>1, <1>3
  <2>3. first_children_' \in [Node -> Node \cup {None}]
    BY <1>1, <1>3
  <2>4. first_free_sibling_group_' \in 1 .. sg_capacity_
    <3>1. cg \in 1 .. sg_capacity_
      BY <1>2, CapacityOfGroups DEF SiblingGroup
    <3>2. first_free_sibling_group_ \in 1 .. sg_capacity_
      BY DEF TypeOK
    <3> QED BY <3>1, <3>2, <1>1
  <2> QED BY <2>1, <2>2, <2>3, <2>4, <1>1 DEF TypeOK
<1> QED BY <1>5, <1>7, <1>9, <1>10, <1>11

-----------------------------------------------------------------------------
(* swap keeps the invariant.  It is a renaming: of the two groups among the *)
(* groups, and of their nodes among the nodes, each its own inverse.        *)

OtherGroup(a, b, s) == IF s = a THEN b ELSE IF s = b THEN a ELSE s
OtherNode(a, b, n) ==
  IF n \in nodes(a) \cup nodes(b) THEN Peer(a, b, n) ELSE n

LEMMA OtherGroupInverse ==
  ASSUME NEW a \in SiblingGroup \ {0}, NEW b \in SiblingGroup \ {0}, a # b,
         NEW s \in SiblingGroup
  PROVE  /\ OtherGroup(a, b, s) \in SiblingGroup
         /\ OtherGroup(a, b, OtherGroup(a, b, s)) = s
         /\ s # 0 <=> OtherGroup(a, b, s) # 0
BY DEF OtherGroup

LEMMA OtherNodeInverse ==
  ASSUME NEW a \in SiblingGroup \ {0}, NEW b \in SiblingGroup \ {0}, a # b,
         NEW n \in Node
  PROVE  /\ OtherNode(a, b, n) \in Node
         /\ OtherNode(a, b, OtherNode(a, b, n)) = n
         /\ sibling_group(OtherNode(a, b, n))
               = OtherGroup(a, b, sibling_group(n))
<1>1. /\ nodes(a) = first_node(a) .. first_node(a) + NC - 1
      /\ nodes(b) = first_node(b) .. first_node(b) + NC - 1
      /\ first_node(a) \in Int /\ first_node(b) \in Int
  BY FirstNodeOfGroup, CapacityOfGroups DEF nodes, Node
<1>2. /\ nodes(a) \subseteq Node /\ nodes(b) \subseteq Node
      /\ \A m \in nodes(a) : sibling_group(m) = a
      /\ \A m \in nodes(b) : sibling_group(m) = b
  BY NodesOfGroup
<1>3. CASE n \in nodes(a)
  <2>1. n \notin nodes(b) BY <1>2, <1>3
  <2>2. /\ OtherNode(a, b, n) = n - first_node(a) + first_node(b)
        /\ OtherNode(a, b, n) \in nodes(b)
    BY <1>1, <1>3, NCAssumption DEF OtherNode, Peer
  <2>3. OtherNode(a, b, n) \notin nodes(a) BY <2>2, <1>2
  <2>4. OtherNode(a, b, OtherNode(a, b, n)) = n
    BY <2>2, <2>3, <1>1, <1>3 DEF OtherNode, Peer
  <2> QED BY <2>2, <2>4, <1>2, <1>3 DEF OtherGroup
<1>4. CASE n \in nodes(b)
  <2>1. n \notin nodes(a) BY <1>2, <1>4
  <2>2. /\ OtherNode(a, b, n) = n - first_node(b) + first_node(a)
        /\ OtherNode(a, b, n) \in nodes(a)
    BY <2>1, <1>1, <1>4, NCAssumption DEF OtherNode, Peer
  <2>3. OtherNode(a, b, OtherNode(a, b, n)) = n
    BY <2>2, <1>1, <1>4 DEF OtherNode, Peer
  <2> QED BY <2>2, <2>3, <1>2, <1>4 DEF OtherGroup
<1>5. CASE n \notin nodes(a) \cup nodes(b)
  <2>1. sibling_group(n) # a /\ sibling_group(n) # b
    BY <1>5, GroupOfNode
  <2> QED BY <2>1, <1>5 DEF OtherNode, OtherGroup
<1> QED BY <1>3, <1>4, <1>5

(* The sequence of updates in swap amounts to the renaming, also when one *)
(* group hangs from a node of the other.                                  *)
LEMMA SwapRenames ==
  ASSUME Storage,
         NEW a \in SiblingGroup \ {0}, NEW b \in SiblingGroup \ {0}, a # b,
         SwapEdges(a, b)
  PROVE  /\ parents_' =
              [s \in SiblingGroup |->
                 LET p == parents_[OtherGroup(a, b, s)]
                 IN  IF p = None THEN None ELSE OtherNode(a, b, p)]
         /\ first_children_' =
              [n \in Node |->
                 LET c == first_children_[OtherNode(a, b, n)]
                 IN  IF c = None THEN None
                     ELSE first_node(OtherGroup(a, b, sibling_group(c)))]
<1> USE DEF Storage
<1> DEFINE O(n) == OtherNode(a, b, n)
           fc == SwappedChildren(a, b)
           pa == ChildrenReparented(a, b)
<1>1. /\ parents_ \in [SiblingGroup -> Node \cup {None}]
      /\ first_children_ \in [Node -> Node \cup {None}]
  BY DEF TypeOK
<1>2. fc = [n \in Node |-> first_children_[O(n)]]
  BY DEF SwappedChildren, OtherNode
<1>3. pa = [s \in SiblingGroup |->
              IF parents_[s] = None THEN None ELSE O(parents_[s])]
  <2> DEFINE owners(s) == {n \in nodes(a) \cup nodes(b) :
                             fc[n] # None /\ sibling_group(fc[n]) = s}
  <2>1. nodes(a) \subseteq Node /\ nodes(b) \subseteq Node
    BY NodesOfGroup
  <2>2. ASSUME NEW s \in SiblingGroup, NEW n \in owners(s)
        PROVE  parents_[s] # None /\ n = O(parents_[s])
    <3>1. n \in Node /\ O(n) \in Node /\ O(O(n)) = n
      BY <2>1, OtherNodeInverse
    <3>2. first_children_[O(n)] # None
            /\ sibling_group(first_children_[O(n)]) = s
      BY <3>1, <1>2
    <3>3. parents_[s] = O(n)
      BY <3>1, <3>2, ChildrenGroup DEF is_leaf
    <3> QED BY <3>1, <3>3 DEF Node, None
  <2>3. ASSUME NEW s \in SiblingGroup, owners(s) = {}
        PROVE  parents_[s] = None \/ O(parents_[s]) = parents_[s]
    <3> SUFFICES ASSUME parents_[s] # None,
                        parents_[s] \in nodes(a) \cup nodes(b)
                 PROVE  FALSE
      BY DEF OtherNode
    <3>1. s # 0 /\ parents_[s] \in Node
      BY <1>1 DEF EdgesAgree
    <3>2. first_children_[parents_[s]] = first_node(s)
      BY <3>1 DEF EdgesAgree
    <3>3. /\ O(parents_[s]) \in nodes(a) \cup nodes(b)
          /\ O(parents_[s]) \in Node
          /\ O(O(parents_[s])) = parents_[s]
      <4>1. /\ O(parents_[s]) \in Node
            /\ O(O(parents_[s])) = parents_[s]
            /\ sibling_group(O(parents_[s]))
                  = OtherGroup(a, b, sibling_group(parents_[s]))
        BY <3>1, OtherNodeInverse
      <4>2. sibling_group(parents_[s]) \in {a, b}
        BY NodesOfGroup
      <4>3. sibling_group(O(parents_[s])) \in {a, b}
        BY <4>1, <4>2 DEF OtherGroup
      <4> QED BY <4>1, <4>3, GroupOfNode
    <3>4. fc[O(parents_[s])] = first_node(s)
      BY <3>2, <3>3, <1>2
    <3>5. O(parents_[s]) \in owners(s)
      BY <3>3, <3>4, FirstNodeOfGroup
    <3> QED BY <3>5, <2>3
  <2>4. pa = [s \in SiblingGroup |-> IF owners(s) = {} THEN parents_[s]
                                     ELSE CHOOSE n \in owners(s) : TRUE]
    BY DEF ChildrenReparented
  <2>5. ASSUME NEW s \in SiblingGroup
        PROVE  pa[s] = IF parents_[s] = None THEN None ELSE O(parents_[s])
    <3>1. CASE owners(s) = {} BY <3>1, <2>3, <2>4
    <3>2. CASE owners(s) # {}
      <4>1. pa[s] \in owners(s) BY <3>2, <2>4
      <4> QED BY <4>1, <2>2
    <3> QED BY <3>1, <3>2
  <2> QED BY <2>4, <2>5
<1>4. parents_' = [pa EXCEPT ![a] = pa[b], ![b] = pa[a]]
  BY DEF SwapEdges
<1>5. first_children_' =
        SetFirstChild(SetFirstChild(fc, pa[a], b), pa[b], a)
  BY DEF SwapEdges
<1> HIDE DEF fc, pa, O
<1>6. parents_' = [s \in SiblingGroup |->
                     IF parents_[OtherGroup(a, b, s)] = None THEN None
                     ELSE O(parents_[OtherGroup(a, b, s)])]
  BY <1>3, <1>4 DEF OtherGroup
<1>7. ASSUME NEW s \in {a, b}
      PROVE  /\ pa[s] # None => /\ pa[s] \in Node
                               /\ fc[pa[s]] = first_node(s)
             /\ \A n \in Node : fc[n] = first_node(s) => pa[s] = n
  <2>1. s \in SiblingGroup \ {0}
    OBVIOUS
  <2>2. ASSUME pa[s] # None
        PROVE  pa[s] \in Node /\ fc[pa[s]] = first_node(s)
    <3>1. /\ parents_[s] \in Node /\ parents_[s] # None
          /\ pa[s] = O(parents_[s])
      BY <2>2, <1>1, <1>3
    <3>2. first_children_[parents_[s]] = first_node(s)
      BY <2>1, <3>1 DEF EdgesAgree
    <3>3. O(parents_[s]) \in Node /\ O(O(parents_[s])) = parents_[s]
      BY <3>1, OtherNodeInverse DEF O
    <3> QED BY <3>1, <3>2, <3>3, <1>2
  <2>3. ASSUME NEW n \in Node, fc[n] = first_node(s)
        PROVE  pa[s] = n
    <3>1. O(n) \in Node /\ O(O(n)) = n /\ O(n) # None
      BY OtherNodeInverse DEF O, Node, None
    <3>2. first_children_[O(n)] = first_node(s)
      BY <2>3, <1>2
    <3>3. parents_[s] = O(n)
      BY <3>1, <3>2, ChildrenGroup, FirstNodeOfGroup DEF is_leaf
    <3> QED BY <3>1, <3>3, <1>3
  <2> QED BY <2>2, <2>3
<1>8. first_children_' =
        [n \in Node |-> IF n = pa[b] THEN first_node(a)
                        ELSE IF n = pa[a] THEN first_node(b) ELSE fc[n]]
  <2>1. \A n \in Node : n # None
    BY DEF Node, None
  <2>2. fc = [n \in Node |-> fc[n]]
    BY <1>2
  <2> QED BY <2>1, <2>2, <1>5, <1>7 DEF SetFirstChild
<1>9. ASSUME NEW n \in Node
      PROVE  first_children_'[n] =
               IF fc[n] = None THEN None
               ELSE first_node(OtherGroup(a, b, sibling_group(fc[n])))
  <2>1. n # None
    BY DEF Node, None
  <2>2. CASE n = pa[a]
    <3>1. fc[n] = first_node(a)
      BY <2>1, <2>2, <1>7
    <3>2. n # pa[b]
      BY <2>1, <3>1, <1>7, FirstNodeOfGroup
    <3> QED BY <2>2, <3>1, <3>2, <1>8, FirstNodeOfGroup DEF OtherGroup
  <2>3. CASE n = pa[b]
    <3>1. fc[n] = first_node(b)
      BY <2>1, <2>3, <1>7
    <3> QED BY <2>3, <3>1, <1>8, FirstNodeOfGroup DEF OtherGroup
  <2>4. CASE n # pa[a] /\ n # pa[b]
    <3>1. first_children_'[n] = fc[n]
      BY <2>4, <1>8
    <3>2. CASE fc[n] # None
      <4>1. O(n) \in Node /\ fc[n] = first_children_[O(n)]
        BY <1>2, OtherNodeInverse DEF O
      <4>2. fc[n] = first_node(sibling_group(fc[n]))
        BY <3>2, <4>1, ChildrenGroup DEF is_leaf
      <4>3. sibling_group(fc[n]) # a /\ sibling_group(fc[n]) # b
        BY <2>4, <4>2, <1>7
      <4> QED BY <3>1, <3>2, <4>2, <4>3 DEF OtherGroup
    <3> QED BY <3>1, <3>2
  <2> QED BY <2>2, <2>3, <2>4
<1>10. first_children_' =
         [n \in Node |->
            IF first_children_[O(n)] = None THEN None
            ELSE first_node(OtherGroup(a, b,
                              sibling_group(first_children_[O(n)])))]
  BY <1>2, <1>8, <1>9
<1> QED BY <1>6, <1>10 DEF O

(* Exchanging a group in use for a free one keeps their number. *)
LEMMA SameCardinality ==
  ASSUME NEW a \in sibling_groups, NEW b, b \notin sibling_groups
  PROVE  Cardinality((sibling_groups \ {a}) \cup {b})
           = Cardinality(sibling_groups)
<1>1. /\ IsFiniteSet(sibling_groups \ {a})
      /\ Cardinality(sibling_groups \ {a}) = Cardinality(sibling_groups) - 1
  BY GroupsInUse, FS_RemoveElement
<1>2. Cardinality((sibling_groups \ {a}) \cup {b})
        = Cardinality(sibling_groups \ {a}) + 1
  BY <1>1, FS_AddElement
<1>3. Cardinality(sibling_groups) \in Nat
  BY GroupsInUse, FS_CardinalityType
<1> QED BY <1>1, <1>2, <1>3

(* swap of any two groups but the root's keeps the invariant: it renames *)
(* groups and nodes, and every conjunct is closed under the renaming.     *)
LEMMA SwapStorage ==
  ASSUME Storage, NEW a \in SiblingGroup, NEW b \in SiblingGroup, swap(a, b)
  PROVE  Storage'
<1> USE DEF Storage
<1> DEFINE G(s) == OtherGroup(a, b, s)
           O(n) == OtherNode(a, b, n)
<1>1. CASE UNCHANGED vars
  BY <1>1 DEF vars, TypeOK, EdgesAgree, FreeNodesAreLeaves, SizeCountsNodes,
              NoOrphans, sibling_groups, is_free, is_leaf
<1>2. CASE ~UNCHANGED vars
  <2>1. /\ a \in SiblingGroup \ {0} /\ b \in SiblingGroup \ {0} /\ a # b
        /\ SwapEdges(a, b)
        /\ size_' = size_ /\ failed' = failed
        /\ first_free_sibling_group_' \in {a, b, first_free_sibling_group_}
    BY <1>2 DEF swap, MovedFirstFree
  <2>2. \A s \in SiblingGroup : /\ G(s) \in SiblingGroup
                                /\ G(G(s)) = s
                                /\ s # 0 <=> G(s) # 0
    BY <2>1, OtherGroupInverse
  <2>3. \A n \in Node : /\ O(n) \in Node /\ O(n) # None
                        /\ O(O(n)) = n
                        /\ sibling_group(O(n)) = G(sibling_group(n))
    BY <2>1, OtherNodeInverse DEF Node, None
  <2>4. parents_' = [s \in SiblingGroup |->
                       IF parents_[G(s)] = None THEN None
                       ELSE O(parents_[G(s)])]
    BY <2>1, SwapRenames
  <2>5. first_children_' =
          [n \in Node |->
             IF first_children_[O(n)] = None THEN None
             ELSE first_node(G(sibling_group(first_children_[O(n)])))]
    BY <2>1, SwapRenames
  <2>6. /\ parents_ \in [SiblingGroup -> Node \cup {None}]
        /\ first_children_ \in [Node -> Node \cup {None}]
    BY DEF TypeOK
  <2> HIDE DEF G, O
  <2>7. ASSUME NEW n \in Node, first_children_[n] # None
        PROVE  /\ sibling_group(first_children_[n]) \in SiblingGroup \ {0}
               /\ parents_[sibling_group(first_children_[n])] = n
    BY <2>7, ChildrenGroup DEF is_leaf
  <2>8. EdgesAgree'
    <3>1. parents_'[0] = None
      <4>1. 0 \in SiblingGroup /\ G(0) = 0
        BY <2>2, CapacityOfGroups DEF SiblingGroup
      <4> QED BY <4>1, <2>4 DEF EdgesAgree
    <3>2. ASSUME NEW s \in SiblingGroup \ {0}, parents_'[s] # None
          PROVE  first_children_'[parents_'[s]] = first_node(s)
      <4> DEFINE p == parents_[G(s)]
      <4>1. G(s) \in SiblingGroup \ {0} /\ G(G(s)) = s
        BY <2>2
      <4>2. p # None /\ p \in Node /\ parents_'[s] = O(p)
        BY <4>1, <3>2, <2>4, <2>6
      <4>3. first_children_[p] = first_node(G(s))
        BY <4>1, <4>2 DEF EdgesAgree
      <4>4. first_children_'[O(p)]
              = first_node(G(sibling_group(first_node(G(s)))))
        BY <4>1, <4>2, <4>3, <2>3, <2>5, FirstNodeOfGroup
      <4> QED BY <4>1, <4>2, <4>4, FirstNodeOfGroup
    <3>3. ASSUME NEW n \in Node, first_children_'[n] # None
          PROVE  \E s \in SiblingGroup \ {0} :
                   first_children_'[n] = first_node(s) /\ parents_'[s] = n
      <4> DEFINE u == sibling_group(first_children_[O(n)])
      <4>1. O(n) \in Node /\ first_children_[O(n)] # None
              /\ first_children_'[n] = first_node(G(u))
        BY <3>3, <2>3, <2>5
      <4>2. u \in SiblingGroup \ {0} /\ parents_[u] = O(n)
        BY <4>1, <2>7
      <4>3. G(u) \in SiblingGroup \ {0} /\ G(G(u)) = u
        BY <4>2, <2>2
      <4>4. parents_'[G(u)] = n
        BY <4>2, <4>3, <2>3, <2>4
      <4> QED BY <4>1, <4>3, <4>4
    <3> QED BY <3>1, <3>2, <3>3 DEF EdgesAgree, is_leaf
  <2>9. \A s \in SiblingGroup : is_free(s)' <=> is_free(G(s))
    BY <2>2, <2>3, <2>4, <2>6 DEF is_free
  <2>10. FreeNodesAreLeaves'
    BY <2>3, <2>5, <2>9, GroupOfNode DEF FreeNodesAreLeaves, is_leaf
  <2>11. Cardinality(sibling_groups') = Cardinality(sibling_groups)
    <3>1. \A s \in SiblingGroup :
            s \in sibling_groups' <=> G(s) \in sibling_groups
      BY <2>2, <2>9 DEF sibling_groups
    <3>2. CASE a \in sibling_groups <=> b \in sibling_groups
      <4>1. sibling_groups' = sibling_groups
        BY <3>1, <3>2 DEF sibling_groups, G, OtherGroup
      <4> QED BY <4>1
    <3>3. CASE a \in sibling_groups /\ b \notin sibling_groups
      <4>1. sibling_groups' = (sibling_groups \ {a}) \cup {b}
        BY <2>1, <3>1, <3>3 DEF sibling_groups, G, OtherGroup
      <4> QED BY <4>1, <3>3, SameCardinality
    <3>4. CASE b \in sibling_groups /\ a \notin sibling_groups
      <4>1. sibling_groups' = (sibling_groups \ {b}) \cup {a}
        BY <2>1, <3>1, <3>4 DEF sibling_groups, G, OtherGroup
      <4> QED BY <4>1, <3>4, SameCardinality
    <3> QED BY <3>2, <3>3, <3>4
  <2>12. SizeCountsNodes'
    BY <2>1, <2>11 DEF SizeCountsNodes
  <2>13. NoOrphans'
    <3> SUFFICES ASSUME NEW X \in SUBSET (sibling_groups' \ {0}), X # {}
                 PROVE  \E s \in X : sibling_group(parents_'[s]) \notin X
      BY DEF NoOrphans
    <3> DEFINE Y == {G(s) : s \in X}
    <3>1. \A s \in X : s \in SiblingGroup \ {0} /\ ~is_free(G(s))
      BY <2>9 DEF sibling_groups
    <3>2. Y \in SUBSET (sibling_groups \ {0}) /\ Y # {}
      BY <3>1, <2>2 DEF sibling_groups
    <3>3. PICK u \in Y : sibling_group(parents_[u]) \notin Y
      BY <3>2 DEF NoOrphans
    <3>4. PICK s \in X : u = G(s)
      BY <3>3
    <3>5. parents_[u] # None /\ parents_[u] \in Node
      BY <3>2, <3>3, <2>6 DEF sibling_groups, is_free
    <3>6. parents_'[s] = O(parents_[u])
      BY <3>1, <3>4, <3>5, <2>4
    <3>7. /\ sibling_group(parents_'[s]) = G(sibling_group(parents_[u]))
          /\ G(G(sibling_group(parents_[u]))) = sibling_group(parents_[u])
      BY <3>5, <3>6, <2>2, <2>3, GroupOfNode
    <3>8. sibling_group(parents_'[s]) \notin X
      BY <3>3, <3>7
    <3> QED BY <3>8
  <2>14. TypeOK'
    <3>1. parents_' \in [SiblingGroup -> Node \cup {None}]
      BY <2>2, <2>3, <2>4, <2>6
    <3>2. first_children_' \in [Node -> Node \cup {None}]
      BY <2>2, <2>3, <2>5, <2>7, FirstNodeOfGroup
    <3>3. first_free_sibling_group_' \in 1 .. sg_capacity_
      <4>1. a \in 1 .. sg_capacity_ /\ b \in 1 .. sg_capacity_
        BY <2>1, CapacityOfGroups DEF SiblingGroup
      <4>2. first_free_sibling_group_ \in 1 .. sg_capacity_
        BY DEF TypeOK
      <4> QED BY <4>1, <4>2, <2>1
    <3>4. size_' \in 1 .. capacity
      BY <2>1 DEF TypeOK
    <3>5. TypeOK /\ failed' = failed
      BY <2>1
    <3> HIDE DEF Storage
    <3> QED BY <3>1, <3>2, <3>3, <3>4, <3>5 DEF TypeOK
  <2> QED BY <2>8, <2>10, <2>12, <2>13, <2>14
<1> QED BY <1>1, <1>2

-----------------------------------------------------------------------------
(* The theorems about the storage. *)

(* An operation that changes nothing keeps the invariant, and so does a *)
(* failing assertion, which only stops the program.                     *)
LEMMA StopStorage ==
  ASSUME Storage,
         \/ UNCHANGED vars
         \/ Stop("refine: first free sg is not free")
         \/ Stop("is_compact: first free sibling group is wrong")
  PROVE  Storage'
<1>1. /\ parents_' = parents_ /\ first_children_' = first_children_
      /\ size_' = size_
      /\ first_free_sibling_group_' = first_free_sibling_group_
      /\ failed' \in {failed, "refine: first free sg is not free",
                     "is_compact: first free sibling group is wrong"}
  BY DEF vars, Stop
<1>2. TypeOK'
  BY <1>1 DEF Storage, TypeOK
<1>3. EdgesAgree' /\ FreeNodesAreLeaves'
  BY <1>1 DEF Storage, EdgesAgree, FreeNodesAreLeaves, is_free, is_leaf
<1>4. sibling_groups' = sibling_groups
  BY <1>1 DEF sibling_groups, is_free
<1>5. SizeCountsNodes' /\ NoOrphans'
  BY <1>1, <1>4 DEF Storage, SizeCountsNodes, NoOrphans
<1> QED BY <1>2, <1>3, <1>5 DEF Storage

(* Every public operation keeps the invariant. *)
LEMMA NextStorage == Storage /\ [NextPublic]_vars => Storage'
<1> SUFFICES ASSUME Storage, [NextPublic]_vars PROVE Storage'
  OBVIOUS
<1>1. ASSUME NEW p \in Node, refine(p) PROVE Storage'
  <2>1. CASE RefineFull(p) BY <2>1, StopStorage DEF RefineFull
  <2>2. CASE RefineStops(p) BY <2>2, StopStorage DEF RefineStops
  <2>3. CASE RefineTakes(p) BY <2>3, RefineStorage
  <2> QED BY <1>1, <2>1, <2>2, <2>3 DEF refine
<1>2. ASSUME NEW p \in Node, coarsen(p) PROVE Storage'
  BY <1>2, CoarsenStorage
<1>3. ASSUME NEW a \in SiblingGroup, NEW b \in SiblingGroup, swap(a, b)
      PROVE  Storage'
  BY <1>3, SwapStorage
<1>4. CASE is_compact BY <1>4, StopStorage DEF is_compact
<1>5. CASE UNCHANGED vars BY <1>5, StopStorage
<1> QED BY <1>1, <1>2, <1>3, <1>4, <1>5 DEF NextPublic

(* Whatever sequence of refine, coarsen and swap a client calls, of any tree, *)
(* the storage describes a tree and size_ counts its nodes.                   *)
THEOREM StorageInvariant == SpecPublic => []Storage
<1>1. Storage /\ [NextPublic]_vars => Storage'
  BY NextStorage
<1> QED BY <1>1, InitStorage, PTL DEF SpecPublic

(* Sizes and indices stay within the capacity. *)
THEOREM TypeCorrect == SpecPublic => []TypeOK
<1>1. Storage => TypeOK BY DEF Storage
<1> QED BY <1>1, StorageInvariant, PTL

(* The two arrays of edges agree. *)
THEOREM EdgesCorrect == SpecPublic => []EdgesAgree
<1>1. Storage => EdgesAgree BY DEF Storage
<1> QED BY <1>1, StorageInvariant, PTL

(* No edge leads out of free memory. *)
THEOREM FreeNodesCorrect == SpecPublic => []FreeNodesAreLeaves
<1>1. Storage => FreeNodesAreLeaves BY DEF Storage
<1> QED BY <1>1, StorageInvariant, PTL

(* size() is the number of nodes in use. *)
THEOREM SizeCorrect == SpecPublic => []SizeCountsNodes
<1>1. Storage => SizeCountsNodes BY DEF Storage
<1> QED BY <1>1, StorageInvariant, PTL

(* No cycle and no subtree that is cut off. *)
THEOREM OrphansExcluded == SpecPublic => []NoOrphans
<1>1. Storage => NoOrphans BY DEF Storage
<1> QED BY <1>1, StorageInvariant, PTL

-----------------------------------------------------------------------------
(* The first free group.  Spec allows swap on groups in use only, so its *)
(* steps are steps of SpecPublic.                                        *)
LEMMA NextIsPublic == [Next]_vars => [NextPublic]_vars
BY DEF Next, NextPublic, sibling_groups

(* The step of the proof that no group below the first free one is free. *)
LEMMA NextNoFreeBelowFirst ==
  ASSUME Storage, NoFreeBelowFirst, [Next]_vars, Storage'
  PROVE  NoFreeBelowFirst'
<1> DEFINE first == first_free_sibling_group_
<1>1. /\ parents_ \in [SiblingGroup -> Node \cup {None}]
      /\ first \in 1 .. sg_capacity_
  BY DEF Storage, TypeOK
<1>2. ASSUME NEW p \in Node, RefineTakes(p)
      PROVE  NoFreeBelowFirst'
  <2>1. PICK next \in first + 1 .. sg_capacity_ :
          NextFree(first, next) /\ first' = next
    BY <1>2 DEF RefineTakes
  <2>2. /\ parents_' = [parents_ EXCEPT ![first] = p]
        /\ first \in SiblingGroup /\ p # None
    BY <1>1, <1>2, CapacityOfGroups
      DEF RefineTakes, SiblingGroup, Node, None
  <2>3. ASSUME NEW s \in SiblingGroup, s < first'
        PROVE  ~is_free(s)'
    <3>1. CASE s < first
      BY <3>1, <1>1, <2>2, CapacityOfGroups
        DEF NoFreeBelowFirst, is_free, SiblingGroup
    <3>2. CASE s = first
      BY <3>2, <1>1, <2>2 DEF is_free
    <3>3. CASE s > first
      <4>1. s \in first + 1 .. sg_capacity_ - 1 /\ s < next
        BY <3>3, <2>1, <2>3, <1>1, CapacityOfGroups DEF SiblingGroup
      <4>2. ~is_free(s)
        BY <4>1, <2>1, <1>1, CapacityOfGroups DEF NextFree
      <4> QED BY <4>1, <4>2, <3>3, <1>1, <2>2 DEF is_free
    <3> QED BY <3>1, <3>2, <3>3, <1>1, CapacityOfGroups DEF SiblingGroup
  <2> QED BY <2>1, <2>3, <1>1, CapacityOfGroups
           DEF NoFreeBelowFirst, SiblingGroup
<1>3. ASSUME NEW p \in Node, coarsen(p)
      PROVE  NoFreeBelowFirst'
  <2> DEFINE cg == children_group(p)
  <2>1. /\ parents_' = [parents_ EXCEPT ![cg] = None]
        /\ first' = IF cg < first THEN cg ELSE first
    BY <1>3 DEF coarsen, FirstFreeAfterCoarsen
  <2>2. cg \in SiblingGroup
    BY <1>3, ChildrenGroup
      DEF coarsen, CanCoarsen, children_group, Storage
  <2>3. cg \in Int /\ first \in Int
    BY <2>2, <1>1, CapacityOfGroups DEF SiblingGroup
  <2>4. ASSUME NEW s \in 0 .. first' - 1
        PROVE  s \in 0 .. first - 1 /\ s # cg
    BY <2>1, <2>3
  <2>5. ASSUME NEW s \in 0 .. first' - 1
        PROVE  ~is_free(s)'
    <3>1. s \in 0 .. first - 1 /\ s # cg
      BY <2>4
    <3>2. ~is_free(s)
      BY <3>1 DEF NoFreeBelowFirst
    <3> QED BY <3>1, <3>2, <2>1, <1>1 DEF is_free
  <2> QED BY <2>5 DEF NoFreeBelowFirst
<1>4. ASSUME NEW a \in sibling_groups, NEW b \in sibling_groups, swap(a, b)
      PROVE  NoFreeBelowFirst'
  <2>1. CASE UNCHANGED vars
    BY <2>1 DEF vars, NoFreeBelowFirst, is_free
  <2>2. CASE ~UNCHANGED vars
    <3>1. /\ a \in SiblingGroup \ {0} /\ b \in SiblingGroup \ {0} /\ a # b
          /\ ~is_free(a) /\ ~is_free(b)
          /\ SwapEdges(a, b)
      BY <1>4, <2>2 DEF swap, sibling_groups
    <3>2. ASSUME NEW s \in SiblingGroup, ~is_free(s)
          PROVE  ~is_free(s)'
      <4> DEFINE p == parents_[OtherGroup(a, b, s)]
      <4>1. OtherGroup(a, b, s) \in SiblingGroup
              /\ ~is_free(OtherGroup(a, b, s))
        BY <3>1, <3>2 DEF OtherGroup
      <4>2. CASE s = 0 BY <4>2 DEF is_free
      <4>3. CASE s # 0
        <5>1. p \in Node /\ p # None
          BY <4>1, <4>3, <3>1, <1>1, OtherGroupInverse DEF is_free
        <5>2. parents_'[s] = OtherNode(a, b, p)
          BY <5>1, <3>1, SwapRenames
        <5>3. OtherNode(a, b, p) # None
          BY <5>1, <3>1, OtherNodeInverse DEF Node, None
        <5> QED BY <5>2, <5>3 DEF is_free
      <4> QED BY <4>2, <4>3
    <3>3. first' = first
      <4>1. parents_'[a] # None /\ parents_'[b] # None
        BY <3>1, <3>2 DEF is_free
      <4> QED BY <4>1, <1>4, <2>2 DEF swap, MovedFirstFree
    <3> QED BY <3>2, <3>3, <1>1, CapacityOfGroups
          DEF NoFreeBelowFirst, SiblingGroup
  <2> QED BY <2>1, <2>2
<1>5. CASE parents_' = parents_ /\ first' = first
  BY <1>5 DEF NoFreeBelowFirst, is_free
<1> QED BY <1>2, <1>3, <1>4, <1>5
        DEF Next, vars, refine, RefineFull, RefineStops, Stop, is_compact

(* refine's search and coarsen's comparison keep every group below the first *)
(* free one in use: a tree never keeps a hole it has lost track of below it. *)
THEOREM FirstFreeCorrect == Spec => []NoFreeBelowFirst
<1>1. Init => NoFreeBelowFirst
  BY DEF Init, NoFreeBelowFirst, is_free
<1>2. (Storage /\ NoFreeBelowFirst) /\ [Next]_vars
        => (Storage /\ NoFreeBelowFirst)'
  BY NextIsPublic, NextStorage, NextNoFreeBelowFirst
<1> QED BY <1>1, <1>2, InitStorage, PTL DEF Spec

(* And step by step, in a tree whose groups anyone swaps: only a swap with a *)
(* free group can make the storage lose track of a hole.                      *)
THEOREM FirstFreeStepwise == SpecPublic => FirstFreeKept
<1>1. [NextPublic]_vars /\ Storage /\ Storage'
        => [NoFreeBelowFirst /\ Next => NoFreeBelowFirst']_vars
  BY NextNoFreeBelowFirst
<1> QED BY <1>1, StorageInvariant, PTL DEF SpecPublic, FirstFreeKept

-----------------------------------------------------------------------------
(* The refinement of the abstract tree. *)

(* What the recursion says of the paths. *)
PathAt(f, n) ==
  IF n = 0 THEN <<>> ELSE Append(f[parent(n)], position_in_parent(n))
IsPath(f) == f = [n \in UsedNodes |-> PathAt(f, n)]

(* The root is in use, and so is the parent of every other node in use, whose *)
(* children are the nodes of the group.                                       *)
LEMMA ParentOfNode ==
  ASSUME Storage
  PROVE  /\ 0 \in UsedNodes
         /\ sibling_group(0) = 0
         /\ \A n \in UsedNodes \ {0} :
              /\ n \in Node
              /\ sibling_group(n) \in sibling_groups \ {0}
              /\ parent(n) \in UsedNodes
              /\ ~is_leaf(parent(n))
              /\ first_children_[parent(n)] = first_node(sibling_group(n))
<1> USE DEF Storage
<1>1. 0 \in Node /\ 0 \in SiblingGroup /\ nodes(0) = {0}
  BY CapacityOfGroups DEF Node, SiblingGroup, nodes
<1>2. sibling_group(0) = 0
  BY <1>1, NodesOfGroup
<1>3. ASSUME NEW n \in UsedNodes \ {0}
      PROVE  /\ n \in Node
             /\ sibling_group(n) \in sibling_groups \ {0}
             /\ parent(n) \in UsedNodes
             /\ ~is_leaf(parent(n))
             /\ first_children_[parent(n)] = first_node(sibling_group(n))
  <2> DEFINE s == sibling_group(n)
  <2>1. n \in Node /\ s \in SiblingGroup /\ n \in nodes(s) /\ ~is_free(s)
    BY GroupOfNode DEF UsedNodes
  <2>2. s # 0
    BY <2>1, <1>1
  <2>3. parents_[s] \in Node /\ parents_[s] # None
    BY <2>1, <2>2 DEF is_free, TypeOK
  <2>4. first_children_[parents_[s]] = first_node(s)
    BY <2>1, <2>2, <2>3 DEF EdgesAgree
  <2>5. ~is_leaf(parents_[s])
    BY <2>1, <2>4, FirstNodeOfGroup DEF is_leaf
  <2>6. parents_[s] \in UsedNodes
    BY <2>3, <2>5 DEF UsedNodes, FreeNodesAreLeaves
  <2> QED BY <2>1, <2>2, <2>4, <2>5, <2>6 DEF parent, sibling_groups
<1> QED BY <1>1, <1>2, <1>3 DEF UsedNodes, is_free

(* Induction from the root: a set of nodes in use other than the root has a *)
(* member whose parent is not in the set.                                   *)
LEMMA OutermostNode ==
  ASSUME Storage, NEW X \in SUBSET (UsedNodes \ {0}), X # {}
  PROVE  \E n \in X : parent(n) \in UsedNodes \ X
<1> DEFINE Y == {sibling_group(n) : n \in X}
<1>1. Y \in SUBSET (sibling_groups \ {0}) /\ Y # {}
  BY ParentOfNode
<1>2. PICK s \in Y : sibling_group(parents_[s]) \notin Y
  BY <1>1 DEF Storage, NoOrphans
<1>3. PICK n \in X : s = sibling_group(n)
  BY <1>2
<1>4. parent(n) \notin X
  BY <1>2, <1>3 DEF parent
<1> QED BY <1>4, ParentOfNode

(* Two functions that satisfy the recursion on sets of nodes closed under  *)
(* parent agree where both are defined.                                    *)
Upward(D) ==
  /\ D \subseteq UsedNodes
  /\ \A n \in D \ {0} : parent(n) \in D

LEMMA PathsAgree ==
  ASSUME Storage, NEW D, NEW E, Upward(D), Upward(E), NEW f, NEW g,
         \A n \in D : f[n] = PathAt(f, n),
         \A n \in E : g[n] = PathAt(g, n),
         NEW m \in D \cap E
  PROVE  f[m] = g[m]
<1> DEFINE X == {n \in D \cap E : f[n] # g[n]}
<1> SUFFICES ASSUME X # {} PROVE FALSE
  OBVIOUS
<1>1. X \in SUBSET (UsedNodes \ {0})
  BY DEF Upward, PathAt
<1>2. PICK n \in X : parent(n) \notin X
  BY <1>1, OutermostNode
<1>3. n # 0 /\ parent(n) \in D \cap E
  BY <1>1 DEF Upward
<1>4. f[parent(n)] = g[parent(n)]
  BY <1>2, <1>3
<1>5. f[n] = g[n]
  BY <1>3, <1>4 DEF PathAt
<1> QED BY <1>5

(* Every node in use lies in a set closed under parent that has paths. *)
LEMMA PathsReach ==
  ASSUME Storage, NEW m \in UsedNodes
  PROVE  \E D \in SUBSET UsedNodes : \E f :
            Upward(D) /\ m \in D /\ \A n \in D : f[n] = PathAt(f, n)
<1> DEFINE Reached(x) == \E D \in SUBSET UsedNodes : \E f :
             Upward(D) /\ x \in D /\ \A n \in D : f[n] = PathAt(f, n)
           X == {x \in UsedNodes : ~Reached(x)}
<1>1. Reached(0)
  <2> DEFINE f == [n \in {0} |-> <<>>]
  <2>1. {0} \in SUBSET UsedNodes /\ Upward({0})
    BY ParentOfNode DEF Upward
  <2>2. \A n \in {0} : f[n] = PathAt(f, n)
    BY DEF PathAt
  <2> QED BY <2>1, <2>2
<1> SUFFICES ASSUME X # {} PROVE FALSE
  OBVIOUS
<1>2. X \in SUBSET (UsedNodes \ {0})
  BY <1>1
<1>3. PICK x \in X : parent(x) \in UsedNodes \ X
  BY <1>2, OutermostNode
<1>4. PICK D, f : /\ D \in SUBSET UsedNodes
                  /\ Upward(D) /\ parent(x) \in D
                  /\ \A n \in D : f[n] = PathAt(f, n)
  BY <1>3
<1> DEFINE E == D \cup {x}
           g == [n \in E |-> IF n \in D THEN f[n] ELSE PathAt(f, n)]
<1>5. Upward(E) /\ E \in SUBSET UsedNodes
  BY <1>2, <1>4 DEF Upward
<1>6. ASSUME NEW n \in E PROVE g[n] = PathAt(g, n)
  <2>1. n = 0 \/ parent(n) \in D
    BY <1>4 DEF Upward
  <2>2. n = 0 \/ g[parent(n)] = f[parent(n)]
    BY <2>1
  <2>3. PathAt(g, n) = PathAt(f, n)
    BY <2>2 DEF PathAt
  <2>4. n \in D => f[n] = PathAt(f, n)
    BY <1>4
  <2>5. g[n] = PathAt(f, n)
    BY <2>4
  <2> QED BY <2>3, <2>5
<1>7. Reached(x)
  BY <1>5, <1>6, Zenon
<1> QED BY <1>3, <1>7

(* The recursion that reads off the paths ends: Path is what it says. *)
LEMMA PathRecursion == Storage => IsPath(Path)
<1> SUFFICES ASSUME Storage PROVE IsPath(Path)
  OBVIOUS
<1> DEFINE Good(D, f) == Upward(D) /\ \A n \in D : f[n] = PathAt(f, n)
           At(m, p) == \E D \in SUBSET UsedNodes : \E f :
                         Good(D, f) /\ m \in D /\ p = f[m]
           h == [m \in UsedNodes |-> CHOOSE p : At(m, p)]
<1>1. ASSUME NEW D \in SUBSET UsedNodes, NEW f, Good(D, f), NEW m \in D
      PROVE  h[m] = f[m]
  <2>1. At(m, f[m])
    BY <1>1
  <2>2. At(m, h[m])
    BY <2>1
  <2>3. PICK E, g : E \in SUBSET UsedNodes /\ Good(E, g) /\ m \in E /\ h[m] = g[m]
    BY <2>2
  <2> QED BY <2>3, <1>1, PathsAgree
<1>2. ASSUME NEW m \in UsedNodes PROVE h[m] = PathAt(h, m)
  <2>1. PICK D, f : D \in SUBSET UsedNodes /\ Good(D, f) /\ m \in D
    BY PathsReach
  <2>2. h[m] = f[m] /\ f[m] = PathAt(f, m)
    BY <2>1, <1>1
  <2>3. m = 0 \/ h[parent(m)] = f[parent(m)]
    <3>1. m = 0 \/ parent(m) \in D
      BY <2>1 DEF Upward
    <3> HIDE DEF h
    <3> QED BY <3>1, <2>1, <1>1
  <2> QED BY <2>2, <2>3 DEF PathAt
<1>3. h = [m \in UsedNodes |-> PathAt(h, m)]
  <2> HIDE DEF At
  <2>1. h = [m \in UsedNodes |-> h[m]]
    OBVIOUS
  <2> HIDE DEF h
  <2> QED BY <2>1, <1>2
<1>4. IsPath(h)
  BY <1>3 DEF IsPath
<1>5. Path = CHOOSE f : IsPath(f)
  BY Zenon DEF Path, IsPath, PathAt
<1> HIDE DEF h
<1> QED BY <1>4, <1>5

-----------------------------------------------------------------------------
(* The next path from the last one. *)
LEMMA PathOfNode ==
  ASSUME Storage, NEW n \in UsedNodes
  PROVE  Path[n] = IF n = 0 THEN <<>>
                   ELSE Append(Path[parent(n)], position_in_parent(n))
BY PathRecursion, Zenon DEF IsPath, PathAt

(* The position of a node among its siblings, and the node at a position. *)
LEMMA PositionOfNode ==
  ASSUME NEW s \in SiblingGroup \ {0}
  PROVE  /\ \A n \in nodes(s) : /\ position_in_parent(n) \in 0 .. NC - 1
                               /\ n = first_node(s) + position_in_parent(n)
         /\ \A c \in 0 .. NC - 1 : /\ first_node(s) + c \in nodes(s)
                                  /\ position_in_parent(first_node(s) + c) = c
<1> USE NCAssumption, CapacityOfGroups
    DEF SiblingGroup, nodes, first_node, position_in_parent
<1>1. CASE NC = 2 BY <1>1
<1>2. CASE NC = 4 BY <1>2
<1>3. CASE NC = 8 BY <1>3
<1> QED BY <1>1, <1>2, <1>3

(* A path is a sequence of child positions. *)
LEMMA PathType ==
  ASSUME Storage, NEW m \in UsedNodes
  PROVE  Path[m] \in Seq(0 .. NC - 1)
<1> DEFINE X == {n \in UsedNodes : Path[n] \notin Seq(0 .. NC - 1)}
<1> SUFFICES ASSUME X # {} PROVE FALSE
  OBVIOUS
<1>1. X \in SUBSET (UsedNodes \ {0})
  <2>1. <<>> \in Seq(0 .. NC - 1)
    OBVIOUS
  <2>2. 0 \in UsedNodes => Path[0] = <<>>
    BY PathOfNode
  <2> QED BY <2>1, <2>2
<1>2. PICK n \in X : parent(n) \in UsedNodes \ X
  BY <1>1, OutermostNode
<1>3. position_in_parent(n) \in 0 .. NC - 1
  BY <1>1, ParentOfNode, GroupOfNode, PositionOfNode DEF sibling_groups
<1>4. Path[n] = Append(Path[parent(n)], position_in_parent(n))
  BY <1>1, PathOfNode
<1>5. Path[n] \in Seq(0 .. NC - 1)
  <2> HIDE DEF X
  <2> DEFINE r == Path[parent(n)]
             c == position_in_parent(n)
             S == 0 .. NC - 1
  <2>1. r \in Seq(S) /\ c \in S /\ Path[n] = Append(r, c)
    BY <1>2, <1>3, <1>4 DEF X
  <2> HIDE DEF r, c, S
  <2>2. Path[n] \in Seq(S)
    BY <2>1
  <2> QED BY <2>2 DEF S
<1> QED BY <1>5

(* The last position of a path and what is before it. *)
LEMMA AppendOneToOne ==
  ASSUME NEW S, NEW p \in Seq(S), NEW q \in Seq(S), NEW c \in S, NEW d \in S
  PROVE  /\ Append(p, c) = Append(q, d) => p = q /\ c = d
         /\ Append(p, c) # <<>>
<1>1. Append(p, c) # <<>>
  OBVIOUS
<1>2. ASSUME Append(p, c) = Append(q, d) PROVE p = q /\ c = d
  <2>1. Len(Append(p, c)) = Len(p) + 1 /\ Len(Append(q, d)) = Len(q) + 1
          /\ Len(p) \in Nat /\ Len(q) \in Nat
    OBVIOUS
  <2>2. Len(p) = Len(q)
    BY <2>1, <1>2
  <2>3. c = d
    BY <2>1, <2>2, <1>2
  <2>4. \A i \in 1 .. Len(p) : p[i] = q[i]
    <3> TAKE i \in 1 .. Len(p)
    <3>1. Append(p, c)[i] = p[i]
      OBVIOUS
    <3>2. Append(q, d)[i] = q[i]
      BY <2>2
    <3> QED BY <3>1, <3>2, <1>2
  <2> QED BY <2>2, <2>3, <2>4
<1> QED BY <1>1, <1>2

(* No two nodes have the same path. *)
LEMMA PathInjective ==
  ASSUME Storage, NEW m \in UsedNodes, NEW k \in UsedNodes, Path[m] = Path[k]
  PROVE  m = k
<1> DEFINE X == {n \in UsedNodes : \E o \in UsedNodes \ {n} : Path[o] = Path[n]}
<1> SUFFICES ASSUME X # {} PROVE FALSE
  OBVIOUS
<1>1. ASSUME NEW n \in UsedNodes \ {0}
      PROVE  /\ Path[n] = Append(Path[parent(n)], position_in_parent(n))
             /\ Path[parent(n)] \in Seq(0 .. NC - 1)
             /\ position_in_parent(n) \in 0 .. NC - 1
             /\ n = first_node(sibling_group(n)) + position_in_parent(n)
             /\ Path[n] # <<>>
  <2>1. position_in_parent(n) \in 0 .. NC - 1
          /\ n = first_node(sibling_group(n)) + position_in_parent(n)
    BY ParentOfNode, GroupOfNode, PositionOfNode DEF sibling_groups
  <2>2. Path[parent(n)] \in Seq(0 .. NC - 1)
    BY ParentOfNode, PathType
  <2>3. Path[n] = Append(Path[parent(n)], position_in_parent(n))
    BY PathOfNode
  <2> HIDE DEF X
  <2>4. Append(Path[parent(n)], position_in_parent(n)) # <<>>
    BY <2>1, <2>2, AppendOneToOne
  <2> QED BY <2>1, <2>2, <2>3, <2>4
<1>2. X \in SUBSET (UsedNodes \ {0})
  BY <1>1, PathOfNode
<1>3. PICK n \in X : parent(n) \in UsedNodes \ X
  BY <1>2, OutermostNode
<1>4. PICK o \in UsedNodes \ {n} : Path[o] = Path[n]
  BY <1>3
<1>5. n \in UsedNodes \ {0} /\ o \in UsedNodes \ {0}
  BY <1>1, <1>2, <1>4, PathOfNode
<1>6. /\ Path[parent(o)] = Path[parent(n)]
      /\ position_in_parent(o) = position_in_parent(n)
  <2> HIDE DEF X
  <2> DEFINE S == 0 .. NC - 1
             p == Path[parent(n)]
             q == Path[parent(o)]
             c == position_in_parent(n)
             d == position_in_parent(o)
  <2>1. /\ p \in Seq(S) /\ q \in Seq(S) /\ c \in S /\ d \in S
        /\ Append(p, c) = Append(q, d)
    BY <1>1, <1>4, <1>5
  <2> HIDE DEF S, p, q, c, d
  <2>2. p = q /\ c = d
    BY <2>1, AppendOneToOne
  <2> QED BY <2>2 DEF p, q, c, d
<1>7. parent(o) = parent(n)
  BY <1>3, <1>5, <1>6, ParentOfNode
<1>8. sibling_group(o) = sibling_group(n)
  <2>1. first_node(sibling_group(o)) = first_node(sibling_group(n))
    BY <1>5, <1>7, ParentOfNode
  <2> QED BY <2>1, <1>5, ParentOfNode, FirstNodeOfGroup DEF sibling_groups
<1>9. o = n
  BY <1>1, <1>5, <1>6, <1>8
<1> QED BY <1>4, <1>9

-----------------------------------------------------------------------------
(* The positions that are refined. *)
RefinedPaths == {Path[n] : n \in {m \in UsedNodes : ~is_leaf(m)}}

(* The same about the next state. *)
LEMMA NextPath ==
  Storage' => (\A n \in UsedNodes :
                 Path[n] = IF n = 0 THEN <<>>
                           ELSE Append(Path[parent(n)], position_in_parent(n)))'
<1>1. Storage => \A n \in UsedNodes :
                   Path[n] = IF n = 0 THEN <<>>
                             ELSE Append(Path[parent(n)], position_in_parent(n))
  BY PathOfNode
<1> QED BY <1>1, PTL

(* The path of a node stays what it is while the nodes above it stay. *)
LEMMA PathKept ==
  ASSUME Storage, Storage', NEW D, D \subseteq UsedNodes, D \subseteq UsedNodes',
         \A n \in D \ {0} : parent(n) \in D /\ parent(n)' = parent(n)
  PROVE  \A n \in D : Path'[n] = Path[n]
<1> DEFINE X == {n \in D : Path'[n] # Path[n]}
<1> SUFFICES ASSUME X # {} PROVE FALSE
  OBVIOUS
<1>1. X \in SUBSET (UsedNodes \ {0})
  BY NextPath, PathOfNode
<1>2. PICK n \in X : parent(n) \in UsedNodes \ X
  BY <1>1, OutermostNode
<1>3. n \in D \ {0} /\ Path'[parent(n)'] = Path[parent(n)]
  BY <1>1, <1>2
<1>4. Path[n] = Append(Path[parent(n)], position_in_parent(n))
  BY <1>3, PathOfNode
<1>5. Path'[n] = Append(Path'[parent(n)'], position_in_parent(n))
  BY <1>3, NextPath
<1> QED BY <1>2, <1>3, <1>4, <1>5

(* A root without children is the whole tree. *)
LEMMA RootAlone ==
  ASSUME Storage, is_leaf(0)
  PROVE  UsedNodes = {0}
<1> DEFINE X == UsedNodes \ {0}
<1> SUFFICES ASSUME X # {} PROVE FALSE
  BY ParentOfNode
<1>1. PICK n \in X : parent(n) \in UsedNodes \ X
  BY OutermostNode
<1>2. parent(n) = 0 /\ ~is_leaf(parent(n))
  BY <1>1, ParentOfNode
<1> QED BY <1>2

(* The leaves of the tree are the leaves of the abstract one. *)
LEMMA LeafIsLeaf ==
  ASSUME Storage, NEW p \in UsedNodes, is_leaf(p)
  PROVE  Path[p] \in Abstract!Leaves /\ Path[p] \notin RefinedPaths
<1>1. Path[p] \notin RefinedPaths
  BY PathInjective DEF RefinedPaths
<1>2. CASE p = 0
  <2>1. Path[p] = <<>>
    BY <1>2, PathOfNode
  <2>2. RefinedPaths = {}
    BY <1>2, RootAlone DEF RefinedPaths
  <2> QED BY <1>1, <2>1, <2>2 DEF Abstract!Leaves, RefinedPaths
<1>3. CASE p # 0
  <2>1. Path[p] = Append(Path[parent(p)], position_in_parent(p))
    BY <1>3, PathOfNode
  <2>2. Path[parent(p)] \in RefinedPaths
    BY <1>3, ParentOfNode DEF RefinedPaths
  <2>3. position_in_parent(p) \in 0 .. NC - 1
    BY <1>3, ParentOfNode, GroupOfNode, PositionOfNode DEF sibling_groups
  <2>4. Path[p] \in {Append(r, c) : r \in RefinedPaths, c \in 0 .. NC - 1}
    BY <2>1, <2>2, <2>3
  <2> QED BY <1>1, <2>4 DEF Abstract!Leaves, RefinedPaths
<1> QED BY <1>1, <1>2, <1>3

(* While the tree is not full, the abstract one has room: every group in use *)
(* but the root's stands for one refined position.                           *)
LEMMA RoomLeft ==
  ASSUME Storage, size_ # capacity
  PROVE  Cardinality(RefinedPaths) < sg_capacity_ - 1
<1> DEFINE G == sibling_groups \ {0}
           k == Cardinality(sibling_groups)
<1>1. 0 \in sibling_groups
  BY CapacityOfGroups DEF sibling_groups, is_free, SiblingGroup
<1>2. IsFiniteSet(G) /\ Cardinality(G) = k - 1
  BY <1>1, GroupsInUse, FS_RemoveElement
<1>3. RefinedPaths \subseteq {Path[parents_[s]] : s \in G}
  <2> SUFFICES ASSUME NEW n \in UsedNodes, ~is_leaf(n)
               PROVE  \E s \in G : n = parents_[s]
    BY DEF RefinedPaths
  <2>1. n \in Node
    BY DEF UsedNodes
  <2>2. PICK s \in SiblingGroup \ {0} : parents_[s] = n
    BY <2>1, ChildrenGroup DEF Storage
  <2>3. s \in G
    BY <2>1, <2>2 DEF sibling_groups, is_free, Node, None
  <2> QED BY <2>2, <2>3
<1>4. /\ IsFiniteSet({Path[parents_[s]] : s \in G})
      /\ Cardinality({Path[parents_[s]] : s \in G}) <= k - 1
  <2> DEFINE f == [s \in G |-> Path[parents_[s]]]
  <2>1. {f[s] : s \in G} = {Path[parents_[s]] : s \in G}
    OBVIOUS
  <2>2. f \in Surjection(G, {f[s] : s \in G})
    BY DEF Surjection
  <2> HIDE DEF G, f
  <2> QED BY <1>2, <2>1, <2>2, FS_Surjection
<1>5. Cardinality(RefinedPaths) <= k - 1 /\ Cardinality(RefinedPaths) \in Nat
  BY <1>2, <1>3, <1>4, GroupsInUse, FS_Subset, FS_CardinalityType
<1>6. k \in 1 .. sg_capacity_ /\ k # sg_capacity_
  <2>1. size_ = no_nodes(k)
    BY DEF Storage, SizeCountsNodes
  <2> QED BY <2>1, GroupsInUse DEF capacity
<1> QED BY <1>5, <1>6, CapacityOfGroups

-----------------------------------------------------------------------------
(* The steps. *)

(* refine adds the nodes of the group it takes below its node and keeps the *)
(* paths there were.                                                        *)
LEMMA RefinePaths ==
  ASSUME Storage, Storage', NEW p \in Node, RefineTakes(p)
  PROVE  LET s == first_free_sibling_group_
         IN  /\ s \in SiblingGroup \ {0} /\ is_free(s)
             /\ first_children_' = [first_children_ EXCEPT ![p] = first_node(s)]
             /\ UsedNodes' = UsedNodes \cup nodes(s)
             /\ \A n \in UsedNodes : Path'[n] = Path[n]
             /\ \A n \in nodes(s) :
                  Path'[n] = Append(Path[p], position_in_parent(n))
<1> DEFINE s == first_free_sibling_group_
<1>1. /\ s \in SiblingGroup \ {0}
      /\ is_free(s)
      /\ parents_' = [parents_ EXCEPT ![s] = p]
      /\ first_children_' = [first_children_ EXCEPT ![p] = first_node(s)]
      /\ p \in UsedNodes /\ p # None
  <2>1. s \in 1 .. sg_capacity_ /\ s < sg_capacity_
    BY DEF Storage, TypeOK, RefineTakes
  <2>2. s \in SiblingGroup \ {0}
    BY <2>1, CapacityOfGroups DEF SiblingGroup
  <2> QED BY <2>2 DEF RefineTakes, CanRefine, UsedNodes, Node, None
<1>2. /\ parents_ \in [SiblingGroup -> Node \cup {None}]
      /\ first_children_ \in [Node -> Node \cup {None}]
  BY DEF Storage, TypeOK
<1>3. \A t \in SiblingGroup : is_free(t)' <=> is_free(t) /\ t # s
  BY <1>1, <1>2 DEF is_free
<1>4. UsedNodes' = UsedNodes \cup nodes(s)
  <2>1. \A n \in Node : sibling_group(n) = s <=> n \in nodes(s)
    BY <1>1, GroupOfNode, NodesOfGroup
  <2>2. nodes(s) \subseteq Node
    BY <1>1, NodesOfGroup
  <2> QED BY <1>1, <1>3, <2>1, <2>2, GroupOfNode DEF UsedNodes
<1>5. \A n \in UsedNodes : Path'[n] = Path[n]
  <2>1. \A n \in UsedNodes \ {0} : parent(n)' = parent(n)
    BY <1>1, <1>2, ParentOfNode DEF parent, sibling_groups
  <2>2. \A n \in UsedNodes \ {0} : parent(n) \in UsedNodes
    BY ParentOfNode
  <2> QED BY <2>1, <2>2, <1>4, PathKept
<1>6. ASSUME NEW n \in nodes(s)
      PROVE  Path'[n] = Append(Path[p], position_in_parent(n))
  <2>1. n \in UsedNodes' /\ sibling_group(n) = s /\ n # 0
    BY <1>1, <1>4, NodesOfGroup, ParentOfNode
  <2>2. parent(n)' = p
    BY <2>1, <1>1, <1>2 DEF parent
  <2> QED BY <2>1, <2>2, <1>1, <1>5, NextPath
<1> QED BY <1>1, <1>4, <1>5, <1>6

(* refine that takes a group refines the position of its node. *)
LEMMA RefineRefines ==
  ASSUME Storage, Storage', NEW p \in Node, RefineTakes(p)
  PROVE  Path[p] \in Abstract!Leaves /\ Abstract!Refine(Path[p])
<1> DEFINE s == first_free_sibling_group_
<1>1. /\ s \in SiblingGroup \ {0} /\ is_free(s)
      /\ first_children_' = [first_children_ EXCEPT ![p] = first_node(s)]
      /\ UsedNodes' = UsedNodes \cup nodes(s)
      /\ \A n \in UsedNodes : Path'[n] = Path[n]
  BY RefinePaths
<1>2. p \in UsedNodes /\ is_leaf(p) /\ size_ # capacity
  BY DEF RefineTakes, CanRefine, UsedNodes
<1>3. \A n \in nodes(s) : is_leaf(n) /\ n # p
  BY <1>1, <1>2, NodesOfGroup DEF Storage, FreeNodesAreLeaves, UsedNodes
<1>4. \A n \in Node : ~is_leaf(n)' <=> ~is_leaf(n) \/ n = p
  BY <1>1, FirstNodeOfGroup DEF Storage, TypeOK, is_leaf
<1>5. {n \in UsedNodes : ~is_leaf(n)}' = {n \in UsedNodes : ~is_leaf(n)} \cup {p}
  <2>1. nodes(s) \subseteq Node
    BY <1>1, NodesOfGroup
  <2> QED BY <2>1, <1>1, <1>2, <1>3, <1>4 DEF UsedNodes
<1>6. RefinedPaths' = RefinedPaths \cup {Path[p]}
  BY <1>1, <1>2, <1>5 DEF RefinedPaths
<1>7. Path[p] \in Abstract!Leaves
  BY <1>2, LeafIsLeaf
<1>8. Cardinality(RefinedPaths) < sg_capacity_ - 1
  BY <1>2, RoomLeft
<1>9. Abstract!Cardinality(RefinedPaths) = Cardinality(RefinedPaths)
  BY DEF Abstract!Cardinality, Cardinality
<1> QED BY <1>6, <1>7, <1>8, <1>9 DEF Abstract!Refine, RefinedPaths

(* coarsen takes away the nodes of the group it frees and keeps the paths of *)
(* the others.                                                               *)
LEMMA CoarsenPaths ==
  ASSUME Storage, Storage', NEW p \in Node, coarsen(p)
  PROVE  LET cg == children_group(p)
         IN  /\ p \in UsedNodes' /\ p \in UsedNodes
             /\ cg \in SiblingGroup \ {0} /\ parents_[cg] = p
             /\ children(p) = nodes(cg)
             /\ first_children_' = [first_children_ EXCEPT ![p] = None]
             /\ UsedNodes' = UsedNodes \ nodes(cg)
             /\ nodes(cg) \subseteq UsedNodes
             /\ \A n \in UsedNodes' : Path'[n] = Path[n]
<1> DEFINE cg == children_group(p)
<1>1. /\ p \in UsedNodes /\ ~is_leaf(p) /\ p # None
      /\ \A c \in children(p) : is_leaf(c)
      /\ parents_' = [parents_ EXCEPT ![cg] = None]
      /\ first_children_' = [first_children_ EXCEPT ![p] = None]
  BY DEF coarsen, CanCoarsen, UsedNodes, Node, None
<1>2. /\ cg \in SiblingGroup \ {0}
      /\ first_children_[p] = first_node(cg)
      /\ parents_[cg] = p
      /\ children(p) = nodes(cg)
  BY <1>1, ChildrenGroup, ChildrenAreGroup DEF Storage, children_group
<1>3. /\ parents_ \in [SiblingGroup -> Node \cup {None}]
      /\ first_children_ \in [Node -> Node \cup {None}]
  BY DEF Storage, TypeOK
<1>4. \A t \in SiblingGroup : is_free(t)' <=> is_free(t) \/ t = cg
  BY <1>1, <1>2, <1>3 DEF is_free
<1>5. UsedNodes' = UsedNodes \ nodes(cg) /\ nodes(cg) \subseteq UsedNodes
  <2>1. \A n \in Node : sibling_group(n) = cg <=> n \in nodes(cg)
    BY <1>2, GroupOfNode, NodesOfGroup
  <2>2. ~is_free(cg)
    BY <1>1, <1>2 DEF is_free
  <2> QED BY <1>2, <1>4, <2>1, <2>2, GroupOfNode, NodesOfGroup DEF UsedNodes
<1>6. \A n \in UsedNodes' : Path'[n] = Path[n]
  <2>1. \A n \in UsedNodes' \ {0} : parent(n)' = parent(n)
    <3> TAKE n \in UsedNodes' \ {0}
    <3>1. sibling_group(n) \in SiblingGroup /\ sibling_group(n) # cg
      BY <1>4, GroupOfNode DEF UsedNodes
    <3> QED BY <3>1, <1>1, <1>3 DEF parent
  <2>2. \A n \in UsedNodes' \ {0} : parent(n) \in UsedNodes'
    BY <1>1, <1>2, <1>5, ParentOfNode
  <2>3. UsedNodes' \subseteq UsedNodes
    BY <1>5
  <2> QED BY <2>1, <2>2, <2>3, PathKept
<1>7. p \in UsedNodes'
  BY <1>1, <1>2, <1>5
<1> QED BY <1>1, <1>2, <1>5, <1>6, <1>7

(* coarsen coarsens the position of its node. *)
LEMMA CoarsenCoarsens ==
  ASSUME Storage, Storage', NEW p \in Node, coarsen(p)
  PROVE  Path[p] \in RefinedPaths /\ Abstract!Coarsen(Path[p])
<1> DEFINE cg == children_group(p)
<1>1. /\ p \in UsedNodes
      /\ cg \in SiblingGroup \ {0} /\ parents_[cg] = p
      /\ children(p) = nodes(cg)
      /\ first_children_' = [first_children_ EXCEPT ![p] = None]
      /\ UsedNodes' = UsedNodes \ nodes(cg)
      /\ nodes(cg) \subseteq UsedNodes
      /\ \A n \in UsedNodes' : Path'[n] = Path[n]
  BY CoarsenPaths
<1>2. ~is_leaf(p) /\ \A c \in children(p) : is_leaf(c)
  BY DEF coarsen, CanCoarsen
<1>3. {n \in UsedNodes : ~is_leaf(n)}' = {n \in UsedNodes : ~is_leaf(n)} \ {p}
  <2>1. \A n \in Node : ~is_leaf(n)' <=> ~is_leaf(n) /\ n # p
    BY <1>1 DEF Storage, TypeOK, is_leaf
  <2>2. \A n \in UsedNodes' : n \in Node
    BY DEF UsedNodes
  <2> QED BY <2>1, <2>2, <1>1, <1>2
<1>4. RefinedPaths' = RefinedPaths \ {Path[p]}
  <2>1. \A n \in {m \in UsedNodes : ~is_leaf(m)}' : Path'[n] = Path[n]
    BY <1>1
  <2>2. RefinedPaths' = {Path[n] : n \in {m \in UsedNodes : ~is_leaf(m)}'}
    BY <2>1 DEF RefinedPaths
  <2>3. \A n \in UsedNodes : Path[n] = Path[p] => n = p
    BY <1>1, PathInjective
  <2> QED BY <2>2, <2>3, <1>3 DEF RefinedPaths
<1>5. Path[p] \in RefinedPaths
  BY <1>1, <1>2 DEF RefinedPaths
<1>6. ASSUME NEW c \in 0 .. NC - 1
      PROVE  Append(Path[p], c) \notin RefinedPaths
  <2> DEFINE k == first_node(cg) + c
  <2>1. k \in nodes(cg) /\ position_in_parent(k) = c
    BY <1>1, PositionOfNode
  <2>2. k \in UsedNodes /\ k # 0 /\ parent(k) = p /\ is_leaf(k)
    BY <2>1, <1>1, <1>2, NodesOfGroup, ParentOfNode DEF parent
  <2>3. Path[k] = Append(Path[p], c)
    <3> HIDE DEF k
    <3> QED BY <2>1, <2>2, PathOfNode
  <2> QED BY <2>2, <2>3, LeafIsLeaf
<1> QED BY <1>4, <1>5, <1>6 DEF Abstract!Coarsen, RefinedPaths

(* swap moves nodes in memory and keeps every path. *)
LEMMA SwapMovesPaths ==
  ASSUME Storage, Storage', NEW a \in SiblingGroup \ {0},
         NEW b \in SiblingGroup \ {0}, a # b, SwapEdges(a, b)
  PROVE  /\ \A n \in Node : OtherNode(a, b, n) \in UsedNodes' <=> n \in UsedNodes
         /\ \A n \in UsedNodes : Path'[OtherNode(a, b, n)] = Path[n]
         /\ \A n \in Node : is_leaf(OtherNode(a, b, n))' <=> is_leaf(n)
<1> DEFINE G(s) == OtherGroup(a, b, s)
           O(n) == OtherNode(a, b, n)
<1>1. \A s \in SiblingGroup : /\ G(s) \in SiblingGroup
                              /\ G(G(s)) = s
                              /\ s # 0 <=> G(s) # 0
  BY OtherGroupInverse
<1>2. \A n \in Node : /\ O(n) \in Node /\ O(n) # None
                      /\ O(O(n)) = n
                      /\ sibling_group(O(n)) = G(sibling_group(n))
  BY OtherNodeInverse DEF Node, None
<1>3. parents_' = [s \in SiblingGroup |->
                     IF parents_[G(s)] = None THEN None ELSE O(parents_[G(s)])]
  BY SwapRenames
<1>4. first_children_' =
        [n \in Node |->
           IF first_children_[O(n)] = None THEN None
           ELSE first_node(G(sibling_group(first_children_[O(n)])))]
  BY SwapRenames
<1>5. /\ parents_ \in [SiblingGroup -> Node \cup {None}]
      /\ first_children_ \in [Node -> Node \cup {None}]
  BY DEF Storage, TypeOK
<1>6. O(0) = 0
  <2>1. sibling_group(0) = 0 /\ 0 \in Node
    BY ParentOfNode DEF UsedNodes
  <2> QED BY <2>1, NodesOfGroup DEF OtherNode
<1>7. \A n \in Node \ {0} : position_in_parent(O(n)) = position_in_parent(n)
  <2> SUFFICES ASSUME NEW n \in Node \ {0}, n \in nodes(a) \cup nodes(b)
               PROVE  position_in_parent(O(n)) = position_in_parent(n)
    BY DEF OtherNode
  <2> USE DEF SiblingGroup, nodes, first_node, position_in_parent
  <2>1. O(n) \in {n - first_node(a) + first_node(b),
                  n - first_node(b) + first_node(a)}
    BY DEF OtherNode, Peer
  <2>2. O(n) = n + NC * (b - a) \/ O(n) = n + NC * (a - b)
    <3>1. CASE NC = 2 BY <3>1, <2>1, CapacityOfGroups
    <3>2. CASE NC = 4 BY <3>2, <2>1, CapacityOfGroups
    <3>3. CASE NC = 8 BY <3>3, <2>1, CapacityOfGroups
    <3> QED BY <3>1, <3>2, <3>3, NCAssumption
  <2>3. n \in Nat /\ a \in Nat /\ b \in Nat
    BY CapacityOfGroups DEF Node
  <2> HIDE DEF O
  <2>4. CASE NC = 2 BY <2>4, <2>2, <2>3
  <2>5. CASE NC = 4 BY <2>5, <2>2, <2>3
  <2>6. CASE NC = 8 BY <2>6, <2>2, <2>3
  <2> QED BY <2>4, <2>5, <2>6, NCAssumption
<1> HIDE DEF G, O
<1>8. \A s \in SiblingGroup : is_free(G(s))' <=> is_free(s)
  BY <1>1, <1>2, <1>3, <1>5 DEF is_free
<1>9. ASSUME NEW n \in Node
      PROVE  O(n) \in UsedNodes' <=> n \in UsedNodes
  <2>1. is_free(G(sibling_group(n)))' <=> is_free(sibling_group(n))
    BY <1>8, GroupOfNode
  <2> QED BY <2>1, <1>2 DEF UsedNodes
<1>10. ASSUME NEW n \in Node
       PROVE  is_leaf(O(n))' <=> is_leaf(n)
  <2>1. first_children_'[O(n)]
          = IF first_children_[n] = None THEN None
            ELSE first_node(G(sibling_group(first_children_[n])))
    BY <1>2, <1>4
  <2>2. ASSUME first_children_[n] # None
        PROVE  first_node(G(sibling_group(first_children_[n]))) # None
    BY <2>2, <1>1, ChildrenGroup, FirstNodeOfGroup DEF Storage, is_leaf
  <2> QED BY <2>1, <2>2 DEF is_leaf
<1>11. ASSUME NEW m \in UsedNodes
       PROVE  Path'[O(m)] = Path[m]
  <2> DEFINE X == {n \in UsedNodes : Path'[O(n)] # Path[n]}
  <2> SUFFICES ASSUME X # {} PROVE FALSE
    BY <1>11
  <2>1. \A n \in UsedNodes : n \in Node /\ O(n) \in UsedNodes'
    BY <1>9 DEF UsedNodes
  <2>2. 0 \notin X
    BY <2>1, <1>6, NextPath, PathOfNode, ParentOfNode
  <2>3. PICK n \in X : parent(n) \in UsedNodes \ X
    <3>1. X \in SUBSET (UsedNodes \ {0})
      BY <2>2
    <3> QED BY <3>1, OutermostNode
  <2>4. n \in UsedNodes \ {0} /\ n \in Node
    BY <2>1, <2>2
  <2>5. O(n) \in UsedNodes' \ {0} /\ sibling_group(n) \in SiblingGroup \ {0}
    BY <2>1, <2>4, <1>2, <1>6, ParentOfNode DEF sibling_groups
  <2>6. parent(O(n))' = O(parent(n))
    <3>1. parents_[sibling_group(n)] \in UsedNodes
      BY <2>3 DEF parent
    <3>2. parents_[sibling_group(n)] # None
      BY <3>1 DEF UsedNodes, Node, None
    <3>3. parents_'[G(sibling_group(n))] = O(parents_[sibling_group(n)])
      BY <3>2, <2>5, <1>1, <1>3
    <3> QED BY <3>3, <2>4, <1>2 DEF parent
  <2>7. Path'[O(n)] = Append(Path'[O(parent(n))], position_in_parent(O(n)))
    BY <2>5, <2>6, NextPath
  <2>8. Path'[O(parent(n))] = Path[parent(n)]
    BY <2>3
  <2>9. Path[n] = Append(Path[parent(n)], position_in_parent(n))
    BY <2>4, PathOfNode
  <2>10. Path'[O(n)] = Path[n]
    BY <2>4, <2>7, <2>8, <2>9, <1>7
  <2> QED BY <2>3, <2>10
<1> QED BY <1>9, <1>10, <1>11 DEF O

(* A step of the storage that leaves the arrays alone leaves the paths alone. *)
LEMMA PathsUnchanged ==
  ASSUME Storage, Storage',
         parents_' = parents_, first_children_' = first_children_
  PROVE  RefinedPaths' = RefinedPaths
<1>1. UsedNodes' = UsedNodes /\ \A n \in Node : is_leaf(n)' <=> is_leaf(n)
  BY DEF UsedNodes, is_free, is_leaf
<1>2. \A n \in UsedNodes \ {0} : parent(n) \in UsedNodes /\ parent(n)' = parent(n)
  BY ParentOfNode DEF parent
<1>3. \A n \in UsedNodes : Path'[n] = Path[n]
  BY <1>1, <1>2, PathKept
<1>4. {n \in UsedNodes : ~is_leaf(n)}' = {n \in UsedNodes : ~is_leaf(n)}
  BY <1>1 DEF UsedNodes
<1>5. RefinedPaths' = {Path'[n] : n \in {m \in UsedNodes : ~is_leaf(m)}'}
  BY DEF RefinedPaths
<1> QED BY <1>3, <1>4, <1>5 DEF RefinedPaths

(* swap keeps the positions that are refined. *)
LEMMA SwapStutters ==
  ASSUME Storage, Storage', NEW a \in SiblingGroup, NEW b \in SiblingGroup,
         swap(a, b)
  PROVE  RefinedPaths' = RefinedPaths
<1>1. CASE UNCHANGED vars
  BY <1>1, PathsUnchanged DEF vars
<1>2. CASE ~UNCHANGED vars
  <2> DEFINE O(n) == OtherNode(a, b, n)
  <2>1. /\ a \in SiblingGroup \ {0} /\ b \in SiblingGroup \ {0} /\ a # b
        /\ SwapEdges(a, b)
    BY <1>2 DEF swap
  <2>2. \A n \in Node : O(n) \in Node /\ O(O(n)) = n
    BY <2>1, OtherNodeInverse
  <2>3. /\ \A n \in Node : O(n) \in UsedNodes' <=> n \in UsedNodes
        /\ \A n \in UsedNodes : Path'[O(n)] = Path[n]
        /\ \A n \in Node : is_leaf(O(n))' <=> is_leaf(n)
    BY <2>1, SwapMovesPaths
  <2> HIDE DEF O
  <2>4. UsedNodes \subseteq Node /\ UsedNodes' \subseteq Node
    BY DEF UsedNodes
  <2>5. {n \in UsedNodes : ~is_leaf(n)}'
          = {O(n) : n \in {m \in UsedNodes : ~is_leaf(m)}}
    BY <2>2, <2>3, <2>4
  <2>6. RefinedPaths' = {Path'[n] : n \in {m \in UsedNodes : ~is_leaf(m)}'}
    BY DEF RefinedPaths
  <2>7. RefinedPaths' = {Path'[O(n)] : n \in {m \in UsedNodes : ~is_leaf(m)}}
    BY <2>5, <2>6
  <2> QED BY <2>3, <2>7 DEF RefinedPaths
<1> QED BY <1>1, <1>2

(* A new tree is the root, which has no children. *)
LEMMA InitRefines == Init => Abstract!Init
<1> SUFFICES ASSUME Init PROVE Abstract!Init
  OBVIOUS
<1>1. \A n \in UsedNodes : is_leaf(n)
  BY DEF Init, UsedNodes, is_leaf
<1> QED BY <1>1 DEF Abstract!Init

(* Every step of the storage is a step of the abstract tree or none. *)
LEMMA StepRefines ==
  ASSUME Storage, Storage', [NextPublic]_vars
  PROVE  Abstract!Next \/ RefinedPaths' = RefinedPaths
<1>1. ASSUME NEW p \in Node, refine(p)
      PROVE  Abstract!Next \/ RefinedPaths' = RefinedPaths
  <2>1. CASE RefineTakes(p)
    BY <2>1, RefineRefines DEF Abstract!Next, Abstract!Refine
  <2>2. CASE RefineFull(p) \/ RefineStops(p)
    BY <2>2, PathsUnchanged DEF RefineFull, RefineStops, Stop, vars
  <2> QED BY <1>1, <2>1, <2>2 DEF refine
<1>2. ASSUME NEW p \in Node, coarsen(p)
      PROVE  Abstract!Next
  BY <1>2, CoarsenCoarsens DEF Abstract!Next, Abstract!Coarsen, RefinedPaths
<1>3. ASSUME NEW a \in SiblingGroup, NEW b \in SiblingGroup, swap(a, b)
      PROVE  RefinedPaths' = RefinedPaths
  BY <1>3, SwapStutters
<1>4. CASE is_compact \/ UNCHANGED vars
  BY <1>4, PathsUnchanged DEF is_compact, Stop, vars
<1> QED BY <1>1, <1>2, <1>3, <1>4 DEF NextPublic

(* Every refine and coarsen of the storage changes the graph at the position *)
(* of its node and nowhere else; a swap of any two groups, a refine of a     *)
(* full tree and a failing assertion change it nowhere.                      *)
THEOREM StorageRefines == SpecPublic => ImplementsAbstractTree
<1>1. Storage /\ Storage' /\ [NextPublic]_vars
        => [Abstract!Next]_{Path[n] : n \in {m \in UsedNodes : ~is_leaf(m)}}
  BY StepRefines DEF RefinedPaths
<1> QED BY <1>1, InitRefines, StorageInvariant, PTL
        DEF SpecPublic, ImplementsAbstractTree, Abstract!Spec

-----------------------------------------------------------------------------
(* The order of the paths. *)

(* p leaves the way to q to the left; q is p or lies below it. *)
LeftOf(p, q) ==
  \E i \in 1 .. Len(p) : /\ i <= Len(q)
                         /\ p[i] < q[i]
                         /\ \A j \in 1 .. i - 1 : p[j] = q[j]
Under(p, q) == Len(p) <= Len(q) /\ \A j \in 1 .. Len(p) : p[j] = q[j]

Paths == Seq(0 .. NC - 1)

(* Beginnings of sequences are equal when their elements are. *)
LEMMA SameBeginning ==
  ASSUME NEW p \in Paths, NEW q \in Paths, NEW i \in Int,
         i <= Len(p), i <= Len(q)
  PROVE  SubSeq(p, 1, i) = SubSeq(q, 1, i) <=> \A j \in 1 .. i : p[j] = q[j]
<1> DEFINE S == 0 .. NC - 1
           m == IF 1 <= i THEN i ELSE 0
<1>0. p \in Seq(S) /\ q \in Seq(S)
  BY DEF Paths
<1> HIDE DEF S
<1>1. /\ p \in Seq(S) /\ q \in Seq(S)
      /\ Len(p) \in Nat /\ Len(q) \in Nat
      /\ \A j \in 1 .. i : p[j] \in S /\ q[j] \in S
  <2>1. Len(p) \in Nat /\ Len(q) \in Nat
    BY <1>0
  <2>2. \A j \in 1 .. i : j \in 1 .. Len(p) /\ j \in 1 .. Len(q)
    BY <2>1
  <2> QED BY <1>0, <2>1, <2>2
<1>2. /\ SubSeq(p, 1, i) \in Seq(S) /\ SubSeq(q, 1, i) \in Seq(S)
      /\ Len(SubSeq(p, 1, i)) = m /\ Len(SubSeq(q, 1, i)) = m
      /\ \A j \in 1 .. i : SubSeq(p, 1, i)[j] = p[j] /\ SubSeq(q, 1, i)[j] = q[j]
  <2>1. /\ SubSeq(p, 1, i) \in Seq(S)
        /\ Len(SubSeq(p, 1, i)) = m
        /\ \A j \in 1 .. i : SubSeq(p, 1, i)[j] = p[j]
    BY <1>1, SubSeqProperties
  <2>2. /\ SubSeq(q, 1, i) \in Seq(S)
        /\ Len(SubSeq(q, 1, i)) = m
        /\ \A j \in 1 .. i : SubSeq(q, 1, i)[j] = q[j]
    BY <1>1, SubSeqProperties
  <2> QED BY <2>1, <2>2
<1>3. ASSUME \A j \in 1 .. i : p[j] = q[j]
      PROVE  SubSeq(p, 1, i) = SubSeq(q, 1, i)
  <2> DEFINE u == SubSeq(p, 1, i)
             v == SubSeq(q, 1, i)
  <2>1. u \in Seq(S) /\ v \in Seq(S) /\ Len(u) = m /\ Len(v) = m
    BY <1>2
  <2>2. \A j \in 1 .. m : u[j] = v[j]
    BY <1>2, <1>3
  <2> HIDE DEF u, v, m
  <2>3. u = v
    BY <2>1, <2>2, SeqEqual
  <2> QED BY <2>3 DEF u, v
<1> QED BY <1>2, <1>3

(* Before is: to the left, or above. *)
LEMMA BeforeCases ==
  ASSUME NEW p \in Paths, NEW q \in Paths
  PROVE  /\ LeftOf(p, q) => Before(p, q)
         /\ Under(p, q) /\ p # q => Before(p, q)
<1>1. Len(p) \in Nat /\ Len(q) \in Nat
        /\ DOMAIN p = 1 .. Len(p) /\ DOMAIN q = 1 .. Len(q)
  BY DEF Paths
<1>2. ASSUME LeftOf(p, q) PROVE Before(p, q)
  <2>1. PICK i \in 1 .. Len(p) : /\ i <= Len(q)
                                /\ p[i] < q[i]
                                /\ \A j \in 1 .. i - 1 : p[j] = q[j]
    BY <1>2 DEF LeftOf
  <2>2. SubSeq(p, 1, i - 1) = SubSeq(q, 1, i - 1)
    BY <2>1, <1>1, SameBeginning
  <2>3. i \in DOMAIN p \cap DOMAIN q
    BY <2>1, <1>1
  <2> QED BY <2>1, <2>2, <2>3, Zenon DEF Before
<1>3. ASSUME Under(p, q), p # q PROVE Before(p, q)
  <2>1. SubSeq(p, 1, Len(p)) = p
    BY SubSeqFull DEF Paths
  <2>2. SubSeq(p, 1, Len(p)) = SubSeq(q, 1, Len(p))
    BY <1>1, <1>3, SameBeginning DEF Under
  <2>3. Len(p) # Len(q)
    <3>1. Len(p) = Len(q) => SubSeq(q, 1, Len(p)) = q
      BY SubSeqFull DEF Paths
    <3> QED BY <3>1, <2>1, <2>2, <1>3
  <2>4. Len(p) < Len(q)
    <3>1. Len(p) \in Nat /\ Len(q) \in Nat /\ Len(p) <= Len(q)
      BY <1>1, <1>3, Zenon DEF Under
    <3> QED BY <3>1, <2>3
  <2>5. p = SubSeq(q, 1, Len(p))
    BY <2>1, <2>2, Zenon
  <2> QED BY <2>4, <2>5, Zenon DEF Before
<1> QED BY <1>2, <1>3

(* What Append does to a path. *)
LEMMA AppendPath ==
  ASSUME NEW p \in Paths, NEW c \in 0 .. NC - 1
  PROVE  /\ Append(p, c) \in Paths
         /\ Len(p) \in Nat
         /\ Len(Append(p, c)) = Len(p) + 1
         /\ \A j \in 1 .. Len(p) : Append(p, c)[j] = p[j]
         /\ Append(p, c)[Len(p) + 1] = c
BY DEF Paths

(* A path lies below itself, and what is below a path stays below it. *)
LEMMA UnderAppend ==
  ASSUME NEW p \in Paths, NEW q \in Paths, NEW c \in 0 .. NC - 1
  PROVE  /\ Under(p, p)
         /\ Under(p, Append(p, c))
         /\ Under(p, q) => Under(p, Append(q, c))
<1>1. Len(p) \in Nat /\ Len(q) \in Nat
  BY AppendPath
<1>2. Under(p, p)
  BY <1>1 DEF Under
<1>3. ASSUME NEW r \in Paths, Under(p, r)
      PROVE  Under(p, Append(r, c))
  BY <1>1, <1>3, AppendPath DEF Under
<1> QED BY <1>2, <1>3

(* Siblings come in the order of their positions. *)
LEMMA SiblingsOrdered ==
  ASSUME NEW p \in Paths, NEW c \in 0 .. NC - 1, NEW d \in 0 .. NC - 1, c < d
  PROVE  LeftOf(Append(p, c), Append(p, d))
<1>1. /\ Len(p) \in Nat
      /\ Len(Append(p, c)) = Len(p) + 1 /\ Len(Append(p, d)) = Len(p) + 1
      /\ \A j \in 1 .. Len(p) : Append(p, c)[j] = p[j] /\ Append(p, d)[j] = p[j]
      /\ Append(p, c)[Len(p) + 1] = c /\ Append(p, d)[Len(p) + 1] = d
  BY AppendPath
<1>2. Len(p) + 1 \in 1 .. Len(Append(p, c))
  BY <1>1
<1> QED BY <1>1, <1>2 DEF LeftOf

(* To the left of a path is to the left of everything below it. *)
LEMMA LeftOfBelow ==
  ASSUME NEW p \in Paths, NEW q \in Paths, NEW u \in Paths, NEW v \in Paths,
         LeftOf(p, q), Under(p, u), Under(q, v)
  PROVE  LeftOf(u, v)
<1>1. Len(p) \in Nat /\ Len(q) \in Nat /\ Len(u) \in Nat /\ Len(v) \in Nat
  BY DEF Paths
<1>2. PICK i \in 1 .. Len(p) : /\ i <= Len(q)
                              /\ p[i] < q[i]
                              /\ \A j \in 1 .. i - 1 : p[j] = q[j]
  BY DEF LeftOf
<1>3. i \in 1 .. Len(u) /\ i <= Len(v)
  BY <1>1, <1>2 DEF Under
<1>4. u[i] = p[i] /\ v[i] = q[i]
  BY <1>1, <1>2 DEF Under
<1>5. \A j \in 1 .. i - 1 : u[j] = v[j]
  BY <1>1, <1>2 DEF Under
<1> QED BY <1>2, <1>3, <1>4, <1>5 DEF LeftOf

-----------------------------------------------------------------------------
(* What one turn of the sort does to the storage: it renames groups and     *)
(* nodes, by the exchange of a and b when they differ and not at all when   *)
(* the children are in their place already.                                 *)
Moves(a, b) ==
  /\ \A s \in SiblingGroup : is_free(OtherGroup(a, b, s))' <=> is_free(s)
  /\ \A s \in sibling_groups \ {0} :
       parents_'[OtherGroup(a, b, s)] = OtherNode(a, b, parents_[s])
  /\ \A n \in Node : is_leaf(OtherNode(a, b, n))' <=> is_leaf(n)
  /\ \A n \in Node :
       ~is_leaf(n) => children_group(OtherNode(a, b, n))'
                        = OtherGroup(a, b, children_group(n))
  /\ \A n \in Node : OtherNode(a, b, n) \in UsedNodes' <=> n \in UsedNodes
  /\ \A n \in UsedNodes : Path'[OtherNode(a, b, n)] = Path[n]

LEMMA TurnMoves ==
  ASSUME Storage, NEW a \in SiblingGroup \ {0}, NEW b \in SiblingGroup \ {0},
         ~is_free(a),
         (a # b /\ swap(a, b)) \/ (a = b /\ UNCHANGED vars)
  PROVE  Storage' /\ Moves(a, b)
<1> DEFINE G(s) == OtherGroup(a, b, s)
           O(n) == OtherNode(a, b, n)
<1>1. /\ parents_ \in [SiblingGroup -> Node \cup {None}]
      /\ first_children_ \in [Node -> Node \cup {None}]
  BY DEF Storage, TypeOK
<1>2. CASE a # b /\ swap(a, b)
  <2>1. Storage'
    BY <1>2, SwapStorage
  <2>2. SwapEdges(a, b)
    BY <1>2 DEF swap
  <2>3. /\ \A n \in Node : O(n) \in UsedNodes' <=> n \in UsedNodes
        /\ \A n \in UsedNodes : Path'[O(n)] = Path[n]
        /\ \A n \in Node : is_leaf(O(n))' <=> is_leaf(n)
    BY <1>2, <2>1, <2>2, SwapMovesPaths
  <2>4. \A s \in SiblingGroup : /\ G(s) \in SiblingGroup
                                /\ G(G(s)) = s
                                /\ s # 0 <=> G(s) # 0
    BY <1>2, OtherGroupInverse
  <2>5. \A n \in Node : O(n) \in Node /\ O(n) # None /\ O(O(n)) = n
    BY <1>2, OtherNodeInverse DEF Node, None
  <2>6. parents_' = [s \in SiblingGroup |->
                       IF parents_[G(s)] = None THEN None ELSE O(parents_[G(s)])]
    BY <1>2, <2>2, SwapRenames
  <2>7. first_children_' =
          [n \in Node |->
             IF first_children_[O(n)] = None THEN None
             ELSE first_node(G(sibling_group(first_children_[O(n)])))]
    BY <1>2, <2>2, SwapRenames
  <2> HIDE DEF G, O
  <2>8. \A s \in SiblingGroup : is_free(G(s))' <=> is_free(s)
    BY <2>4, <2>5, <2>6, <1>1 DEF is_free
  <2>9. \A s \in sibling_groups \ {0} : parents_'[G(s)] = O(parents_[s])
    BY <2>4, <2>6 DEF sibling_groups, is_free
  <2>10. ASSUME NEW n \in Node, ~is_leaf(n)
         PROVE  children_group(O(n))' = G(children_group(n))
    <3>1. first_children_'[O(n)] = first_node(G(sibling_group(first_children_[n])))
      BY <2>5, <2>7, <2>10 DEF is_leaf
    <3>2. sibling_group(first_children_[n]) \in SiblingGroup \ {0}
      BY <2>10, ChildrenGroup DEF Storage
    <3>3. sibling_group(first_children_'[O(n)]) = G(sibling_group(first_children_[n]))
      BY <3>1, <3>2, <2>4, FirstNodeOfGroup
    <3>4. ~is_leaf(O(n))'
      BY <2>3, <2>10
    <3> QED BY <3>3, <3>4, <2>10 DEF children_group
  <2> QED BY <2>1, <2>3, <2>8, <2>9, <2>10 DEF Moves, G, O
<1>3. CASE a = b /\ UNCHANGED vars
  <2>1. Storage'
    BY <1>3, StopStorage
  <2>2. \A s : G(s) = s
    BY <1>3 DEF OtherGroup
  <2>3. \A n \in Node : O(n) = n
    BY <1>3, FirstNodeOfGroup, CapacityOfGroups DEF OtherNode, Peer, Node
  <2>4. UsedNodes' = UsedNodes /\ UsedNodes \subseteq Node
    BY <1>3 DEF vars, UsedNodes, is_free
  <2>5. \A n \in UsedNodes \ {0} :
          parent(n) \in UsedNodes /\ parent(n)' = parent(n)
    BY <1>3, ParentOfNode DEF vars, parent
  <2>6. \A n \in UsedNodes : Path'[n] = Path[n]
    BY <2>1, <2>4, <2>5, PathKept
  <2>7. \A s \in sibling_groups \ {0} : parents_[s] \in Node
    BY <1>1 DEF sibling_groups, is_free
  <2> HIDE DEF G, O
  <2>8. /\ \A s \in SiblingGroup : is_free(G(s))' <=> is_free(s)
        /\ \A s \in sibling_groups \ {0} : parents_'[G(s)] = O(parents_[s])
    BY <1>3, <2>2, <2>3, <2>7 DEF vars, is_free
  <2>9. /\ \A n \in Node : is_leaf(O(n))' <=> is_leaf(n)
        /\ \A n \in Node : children_group(O(n))' = G(children_group(n))
    BY <1>3, <2>2, <2>3 DEF vars, is_leaf, children_group
  <2> QED BY <2>1, <2>3, <2>4, <2>6, <2>8, <2>9 DEF Moves, G, O
<1> QED BY <1>2, <1>3

-----------------------------------------------------------------------------
(* The invariant of a sort.  The groups up to should are placed; those that *)
(* are not hang below a node that a call in progress still has to visit.    *)

(* The nodes with children that call i has not visited yet. *)
Pending(i) ==
  {n \in nodes(stack[i].group) :
     n >= first_node(stack[i].group) + stack[i].next /\ ~is_leaf(n)}

(* The calls in progress are for placed groups, each placed after the group *)
(* of its caller.                                                           *)
CallsPlaced ==
  /\ stack \in Seq(Frame)
  /\ should \in SiblingGroup
  /\ \A i \in 1 .. Len(stack) : stack[i].group <= should
  /\ \A i, j \in 1 .. Len(stack) : i < j => stack[i].group < stack[j].group

(* A placed group is in use, and so is the group it hangs from, placed too. *)
PlacedFromRoot ==
  /\ \A s \in 0 .. should : ~is_free(s)
  /\ \A s \in 1 .. should : sibling_group(parents_[s]) <= should

(* Of the nodes of placed groups, those pending are the ones whose children *)
(* are not placed.                                                          *)
PendingUnplaced ==
  \A n \in UsedNodes :
    ~is_leaf(n) /\ sibling_group(n) <= should
      => (children_group(n) > should
            <=> \E i \in 1 .. Len(stack) : n \in Pending(i))

(* Where an inner call works comes before what its callers have to visit. *)
InnerFirst ==
  \A i, j \in 1 .. Len(stack) :
    i < j => \A m \in Pending(i), x \in nodes(stack[j].group) :
               LeftOf(Path[x], Path[m])

Sorting ==
  /\ CallsPlaced /\ PlacedFromRoot /\ PendingUnplaced /\ InnerFirst
  /\ PlacedGroupsInOrder

SortStorage ==
  /\ Storage
  /\ sorting \in BOOLEAN
  /\ sorting => Sorting

(* The data of the client: one value for every node. *)
DataInv == DOMAIN data = Node /\ DataFollowsNode

(* A node of a placed group is in use, with a path. *)
LEMMA PlacedNodes ==
  ASSUME Storage, NEW s \in SiblingGroup, ~is_free(s), NEW n \in nodes(s)
  PROVE  /\ n \in UsedNodes /\ n \in Node /\ sibling_group(n) = s
         /\ Path[n] \in Paths
BY NodesOfGroup, PathType DEF UsedNodes, Paths

(* The parent of a group in use is in use, and its children are the group. *)
LEMMA ParentOfGroup ==
  ASSUME Storage, NEW s \in sibling_groups \ {0}
  PROVE  /\ parents_[s] \in UsedNodes /\ parents_[s] \in Node
         /\ sibling_group(parents_[s]) \in sibling_groups
         /\ ~is_leaf(parents_[s]) /\ children_group(parents_[s]) = s
         /\ Path[parents_[s]] \in Paths
<1> DEFINE n == first_node(s)
<1>1. s \in SiblingGroup /\ ~is_free(s) /\ n \in nodes(s)
  BY NodesOfGroup DEF sibling_groups
<1>2. n \in UsedNodes /\ sibling_group(n) = s
  BY <1>1, PlacedNodes
<1>3. n # 0
  BY <1>2, ParentOfNode
<1>4. /\ parent(n) \in UsedNodes /\ ~is_leaf(parent(n))
      /\ first_children_[parent(n)] = first_node(s)
  BY <1>2, <1>3, ParentOfNode
<1>5. parent(n) = parents_[s]
  BY <1>2 DEF parent
<1>6. children_group(parents_[s]) = s
  BY <1>1, <1>4, <1>5, FirstNodeOfGroup DEF children_group
<1> QED BY <1>4, <1>5, <1>6, GroupOfNode, PathType
        DEF UsedNodes, sibling_groups, Paths

(* The children group of a node in use hangs from it. *)
LEMMA GroupOfChildren ==
  ASSUME Storage, NEW n \in UsedNodes, ~is_leaf(n)
  PROVE  /\ children_group(n) \in sibling_groups \ {0}
         /\ children_group(n) \in SiblingGroup \ {0}
         /\ parents_[children_group(n)] = n
         /\ \A x \in nodes(children_group(n)) :
              /\ x \in UsedNodes
              /\ position_in_parent(x) \in 0 .. NC - 1
              /\ Path[x] = Append(Path[n], position_in_parent(x))
<1> DEFINE s == children_group(n)
<1>1. n \in Node /\ n # None
  BY DEF UsedNodes, Node, None
<1>2. s \in SiblingGroup \ {0} /\ parents_[s] = n
  BY <1>1, ChildrenGroup DEF Storage, children_group
<1>3. s \in sibling_groups \ {0}
  BY <1>1, <1>2 DEF sibling_groups, is_free
<1>4. ASSUME NEW x \in nodes(s)
      PROVE  /\ x \in UsedNodes
             /\ position_in_parent(x) \in 0 .. NC - 1
             /\ Path[x] = Append(Path[n], position_in_parent(x))
  <2>1. x \in UsedNodes /\ sibling_group(x) = s
    BY <1>3, PlacedNodes DEF sibling_groups
  <2>2. x # 0 /\ parent(x) = n
    BY <2>1, <1>2, ParentOfNode DEF parent
  <2> QED BY <2>1, <2>2, <1>2, PositionOfNode, PathOfNode
<1> QED BY <1>2, <1>3, <1>4

(* The number of nodes of a group. *)
LEMMA NumberOfNodes ==
  ASSUME NEW s \in SiblingGroup
  PROVE  /\ Cardinality(nodes(s)) = IF s = 0 THEN 1 ELSE NC
         /\ first_node(s) \in Nat
         /\ nodes(s) = first_node(s) .. first_node(s) + Cardinality(nodes(s)) - 1
<1>1. first_node(s) \in Nat
  BY FirstNodeOfGroup, CapacityOfGroups DEF Node
<1>2. CASE s = 0
  <2>1. nodes(s) = {0} /\ first_node(s) = 0
    BY <1>2 DEF nodes, first_node
  <2>2. Cardinality(nodes(s)) = 1
    BY <2>1, FS_Singleton
  <2> QED BY <2>1, <2>2, <1>2
<1>3. CASE s # 0
  <2>1. nodes(s) = first_node(s) .. first_node(s) + NC - 1
    BY <1>3 DEF nodes
  <2>2. Cardinality(first_node(s) .. first_node(s) + NC - 1) = NC
    BY <1>1, NCAssumption, FS_Interval
  <2> QED BY <2>1, <2>2, <1>1, <1>3
<1> QED BY <1>1, <1>2, <1>3

(* with_children(), as the loop of a call reads it, are its pending nodes. *)
LEMMA RemainingPending ==
  ASSUME CallsPlaced, NEW i \in 1 .. Len(stack)
  PROVE  LET f == first_node(stack[i].group)
         IN  /\ stack[i].group \in SiblingGroup
             /\ stack[i].next \in 0 .. NC
             /\ f \in Nat
             /\ Remaining(stack[i]) \subseteq 0 .. NC - 1
             /\ Pending(i) = {f + k : k \in Remaining(stack[i])}
<1> DEFINE f == first_node(stack[i].group)
           c == Cardinality(nodes(stack[i].group))
<1>1. stack[i] \in Frame
  BY DEF CallsPlaced
<1>2. stack[i].group \in SiblingGroup /\ stack[i].next \in 0 .. NC
  BY <1>1 DEF Frame
<1>3. /\ f \in Nat /\ c \in 1 .. NC
      /\ nodes(stack[i].group) = f .. f + c - 1
  BY <1>2, NumberOfNodes, NCAssumption
<1>4. Remaining(stack[i])
        = {k \in stack[i].next .. c - 1 : ~is_leaf(f + k)}
  BY DEF Remaining
<1>5. Remaining(stack[i]) \subseteq 0 .. NC - 1
  BY <1>2, <1>3, <1>4, NCAssumption
<1>6. Pending(i) = {f + k : k \in Remaining(stack[i])}
  <2>1. Pending(i) = {n \in f .. f + c - 1 : n >= f + stack[i].next /\ ~is_leaf(n)}
    BY <1>3 DEF Pending
  <2> HIDE DEF f, c
  <2>2. ASSUME NEW n \in Pending(i)
        PROVE  n \in {f + k : k \in Remaining(stack[i])}
    <3>1. /\ n \in f .. f + c - 1 /\ n >= f + stack[i].next /\ ~is_leaf(n)
          /\ n = f + (n - f)
      BY <2>1, <1>3
    <3>2. n - f \in stack[i].next .. c - 1
      BY <3>1, <1>2, <1>3
    <3> QED BY <3>1, <3>2, <1>4
  <2>3. ASSUME NEW k \in Remaining(stack[i])
        PROVE  f + k \in Pending(i)
    BY <2>1, <1>2, <1>3, <1>4
  <2> QED BY <2>2, <2>3
<1> QED BY <1>2, <1>3, <1>5, <1>6

(* A set of natural numbers that is not empty has a smallest member. *)
LEMMA SmallestMember ==
  ASSUME NEW T \in SUBSET Nat, T # {}
  PROVE  \E i \in T : \A j \in T : i <= j
<1>1. PICK i \in T : \A j \in T : ~(<<j, i>> \in OpToRel(<, Nat))
  BY NatLessThanWellFounded, WFMin
<1>2. ASSUME NEW j \in T PROVE i <= j
  <2>1. i \in Nat /\ j \in Nat
    OBVIOUS
  <2>2. ~(j < i)
    BY <2>1, <1>1, Zenon DEF OpToRel
  <2> QED BY <2>1, <2>2
<1> QED BY <1>2

(* A group that is not placed hangs below a node that is pending. *)
LEMMA UnplacedBelowPending ==
  ASSUME Storage, CallsPlaced, PlacedFromRoot, PendingUnplaced,
         NEW t \in sibling_groups, t > should
  PROVE  \E i \in 1 .. Len(stack) : \E m \in Pending(i) :
            Path[m] \in Paths /\ Under(Path[m], Path[parents_[t]])
<1> DEFINE Below(s) == \E i \in 1 .. Len(stack) : \E m \in Pending(i) :
                         Path[m] \in Paths /\ Under(Path[m], Path[parents_[s]])
           X == {s \in sibling_groups : s > should /\ ~Below(s)}
<1> SUFFICES ASSUME X # {} PROVE FALSE
  OBVIOUS
<1>1. should \in SiblingGroup /\ should \in Nat
  BY CapacityOfGroups DEF CallsPlaced, SiblingGroup
<1>2. X \in SUBSET (sibling_groups \ {0})
  BY <1>1
<1>3. PICK s \in X : sibling_group(parents_[s]) \notin X
  BY <1>2 DEF Storage, NoOrphans
<1> DEFINE n == parents_[s]
           g == sibling_group(n)
<1>4. /\ n \in UsedNodes /\ n \in Node /\ g \in sibling_groups
      /\ ~is_leaf(n) /\ children_group(n) = s /\ Path[n] \in Paths
  BY <1>2, <1>3, ParentOfGroup
<1>5. Below(s)
  <2>1. CASE g <= should
    <3>1. \E i \in 1 .. Len(stack) : n \in Pending(i)
      BY <2>1, <1>3, <1>4 DEF PendingUnplaced
    <3>2. Under(Path[n], Path[n])
      BY <1>4, <1>1, UnderAppend, NCAssumption
    <3> QED BY <3>1, <3>2, <1>4
  <2>2. CASE ~(g <= should)
    <3>1. g > should /\ g \in SiblingGroup /\ g # 0
      BY <2>2, <1>1, <1>4 DEF sibling_groups, SiblingGroup
    <3>2. Below(g)
      BY <3>1, <1>3, <1>4
    <3>7. PICK i \in 1 .. Len(stack) : \E m \in Pending(i) :
            Path[m] \in Paths /\ Under(Path[m], Path[parents_[g]])
      BY <3>2
    <3>8. PICK m \in Pending(i) :
            Path[m] \in Paths /\ Under(Path[m], Path[parents_[g]])
      BY <3>7
    <3>3. /\ parents_[g] \in UsedNodes /\ ~is_leaf(parents_[g])
          /\ children_group(parents_[g]) = g /\ Path[parents_[g]] \in Paths
      BY <3>1, <1>4, ParentOfGroup
    <3>4. n \in nodes(g)
      BY <1>4, GroupOfNode
    <3>5. /\ position_in_parent(n) \in 0 .. NC - 1
          /\ Path[n] = Append(Path[parents_[g]], position_in_parent(n))
      BY <3>3, <3>4, GroupOfChildren
    <3>6. Under(Path[m], Path[n])
      BY <3>8, <3>3, <3>5, UnderAppend
    <3> QED BY <3>8, <3>6
  <2> QED BY <2>1, <2>2
<1> QED BY <1>3, <1>5

(* The node whose children a turn of the loop places: the first pending one *)
(* of the innermost call, which comes before everything else pending.       *)
LEMMA NextChild ==
  ASSUME Storage, CallsPlaced, PlacedFromRoot, PendingUnplaced, InnerFirst,
         stack # <<>>, Remaining(stack[Len(stack)]) # {}
  PROVE  LET top == stack[Len(stack)]
             k == CHOOSE i \in Remaining(top) : \A j \in Remaining(top) : i <= j
             n == first_node(top.group) + k
             c_sg == children_group(n)
         IN  /\ k \in 0 .. NC - 1
             /\ n \in Pending(Len(stack)) /\ n \in UsedNodes /\ ~is_leaf(n)
             /\ sibling_group(n) = top.group /\ top.group <= should
             /\ c_sg \in sibling_groups \ {0} /\ c_sg > should
             /\ should + 1 \in SiblingGroup \ {0}
             /\ Pending(Len(stack)) \ {n} =
                  {m \in nodes(top.group) :
                     m >= first_node(top.group) + (k + 1) /\ ~is_leaf(m)}
             /\ \A i \in 1 .. Len(stack) : \A m \in Pending(i) \ {n} :
                  LeftOf(Path[n], Path[m])
<1> DEFINE L == Len(stack)
           top == stack[L]
           k == CHOOSE i \in Remaining(top) : \A j \in Remaining(top) : i <= j
           f == first_node(top.group)
           n == f + k
           c_sg == children_group(n)
<1>1. L \in 1 .. Len(stack)
  BY DEF CallsPlaced
<1>2. /\ top.group \in SiblingGroup /\ f \in Nat /\ top.next \in 0 .. NC
      /\ Remaining(top) \subseteq 0 .. NC - 1
      /\ Pending(L) = {f + j : j \in Remaining(top)}
  BY <1>1, RemainingPending
<1>3. k \in Remaining(top) /\ \A j \in Remaining(top) : k <= j
  <2>1. \E i \in Remaining(top) : \A j \in Remaining(top) : i <= j
    BY <1>2, NCAssumption, SmallestMember
  <2> QED BY <2>1
<1> HIDE DEF k
<1>4. k \in 0 .. NC - 1 /\ n \in Pending(L)
  BY <1>2, <1>3
<1>5. should \in Nat /\ should \in SiblingGroup /\ top.group <= should
        /\ top.group \in Nat
  BY <1>1, <1>2, CapacityOfGroups DEF CallsPlaced, SiblingGroup
<1>6. ~is_free(top.group)
  BY <1>5 DEF PlacedFromRoot
<1>7. n \in nodes(top.group) /\ ~is_leaf(n)
  BY <1>4 DEF Pending
<1>8. n \in UsedNodes /\ sibling_group(n) = top.group
  BY <1>2, <1>6, <1>7, PlacedNodes
<1>9. c_sg \in sibling_groups \ {0} /\ c_sg \in SiblingGroup
  BY <1>7, <1>8, GroupOfChildren
<1>10. c_sg > should
  BY <1>1, <1>4, <1>5, <1>7, <1>8 DEF PendingUnplaced
<1>11. should + 1 \in SiblingGroup \ {0}
  BY <1>5, <1>9, <1>10, CapacityOfGroups DEF SiblingGroup
<1>12. ASSUME NEW m \in Pending(L) \ {n}
       PROVE  m \in nodes(top.group) /\ m \in Nat /\ m > n
  <2>1. m \in nodes(top.group)
    BY DEF Pending
  <2>2. PICK j \in Remaining(top) : m = f + j
    BY <1>2
  <2>3. k <= j /\ k # j /\ j \in Nat /\ k \in Nat
    BY <2>2, <1>2, <1>3, NCAssumption
  <2> QED BY <2>1, <2>2, <2>3, <1>2
<1>13. Pending(L) \ {n} =
         {m \in nodes(top.group) : m >= f + (k + 1) /\ ~is_leaf(m)}
  <2>1. \A m \in Pending(L) \ {n} :
          m \in nodes(top.group) /\ m >= f + (k + 1) /\ ~is_leaf(m)
    BY <1>2, <1>4, <1>12, NCAssumption DEF Pending
  <2>2. ASSUME NEW m \in nodes(top.group), m >= f + (k + 1), ~is_leaf(m)
        PROVE  m \in Pending(L) \ {n}
    <3>1. n >= f + top.next /\ n \in Nat
      BY <1>2, <1>4, NCAssumption DEF Pending
    <3>2. m \in Nat
      BY <1>2, NodesOfGroup, CapacityOfGroups DEF Node
    <3>3. m > n /\ m >= f + top.next
      BY <2>2, <3>1, <3>2, <1>2, <1>4, NCAssumption
    <3> QED BY <2>2, <3>1, <3>2, <3>3 DEF Pending
  <2> QED BY <2>1, <2>2
<1>14. ASSUME NEW i \in 1 .. Len(stack), NEW m \in Pending(i) \ {n}
       PROVE  LeftOf(Path[n], Path[m])
  <2>1. CASE i = L
    <3>1. m \in nodes(top.group) /\ m > n
      BY <2>1, <1>12
    <3>2. top.group # 0
      BY <3>1, <1>7 DEF nodes
    <3>3. top.group \in sibling_groups \ {0}
      BY <3>2, <1>2, <1>6 DEF sibling_groups
    <3> DEFINE p == parents_[top.group]
    <3>4. /\ p \in UsedNodes /\ ~is_leaf(p) /\ children_group(p) = top.group
          /\ Path[p] \in Paths
      BY <3>3, ParentOfGroup
    <3>5. /\ Path[n] = Append(Path[p], position_in_parent(n))
          /\ Path[m] = Append(Path[p], position_in_parent(m))
          /\ position_in_parent(n) \in 0 .. NC - 1
          /\ position_in_parent(m) \in 0 .. NC - 1
      BY <3>1, <3>4, <1>7, GroupOfChildren
    <3>6. /\ n = f + position_in_parent(n)
          /\ m = f + position_in_parent(m)
      BY <3>1, <3>2, <1>2, <1>7, PositionOfNode
    <3>7. position_in_parent(n) < position_in_parent(m)
      <4> DEFINE c == position_in_parent(n)
                 d == position_in_parent(m)
      <4>1. c \in Int /\ d \in Int /\ f \in Nat /\ f + d > f + c
        BY <3>1, <3>5, <3>6, <1>2
      <4> HIDE DEF c, d
      <4>2. c < d
        BY <4>1
      <4> QED BY <4>2 DEF c, d
    <3> QED BY <3>4, <3>5, <3>7, SiblingsOrdered
  <2>2. CASE i # L
    <3>1. i < L
      BY <2>2, <1>1
    <3> QED BY <3>1, <1>1, <1>7 DEF InnerFirst
  <2> QED BY <2>1, <2>2
<1> QED BY <1>4, <1>5, <1>7, <1>8, <1>9, <1>10, <1>11, <1>13, <1>14 DEF k

-----------------------------------------------------------------------------
(* One turn of the loop places one more group. *)
LEMMA ChildrenSorting ==
  ASSUME Storage, Sorting, SortChildren
  PROVE  Storage' /\ Sorting'
<1> USE DEF Sorting
<1>0. PICK L, g, k, n, a, b :
        /\ L = Len(stack) /\ g = stack[Len(stack)].group
        /\ k = CHOOSE i \in Remaining(stack[Len(stack)]) :
                 \A j \in Remaining(stack[Len(stack)]) : i <= j
        /\ n = first_node(g) + k
        /\ a = children_group(n)
        /\ b = should + 1
  OBVIOUS
<1> DEFINE G(s) == OtherGroup(a, b, s)
           O(x) == OtherNode(a, b, x)
<1>1. /\ sorting /\ stack # <<>> /\ Remaining(stack[L]) # {}
      /\ should' = b
      /\ stack' = Append([stack EXCEPT ![L] = [group |-> g, next |-> k + 1]],
                         [group |-> b, next |-> 0])
      /\ (a # b /\ swap(a, b)) \/ (a = b /\ UNCHANGED vars)
      /\ sorting' = sorting
  BY <1>0 DEF SortChildren
<1>2. /\ k \in 0 .. NC - 1
      /\ n \in Pending(L) /\ n \in UsedNodes /\ ~is_leaf(n)
      /\ sibling_group(n) = g /\ g <= should
      /\ a \in sibling_groups \ {0} /\ a > should
      /\ b \in SiblingGroup \ {0}
      /\ Pending(L) \ {n} =
           {m \in nodes(g) : m >= first_node(g) + (k + 1) /\ ~is_leaf(m)}
      /\ \A i \in 1 .. Len(stack) : \A m \in Pending(i) \ {n} :
           LeftOf(Path[n], Path[m])
  BY <1>0, <1>1, NextChild
<1>3. a \in SiblingGroup \ {0} /\ ~is_free(a) /\ parents_[a] = n /\ n \in Node
  BY <1>0, <1>2, GroupOfChildren DEF sibling_groups, UsedNodes
<1>4. Storage' /\ Moves(a, b)
  BY <1>1, <1>2, <1>3, TurnMoves
<1>5. /\ should \in Nat /\ a \in Nat /\ should \in SiblingGroup
      /\ \A s \in SiblingGroup : s \in Nat
      /\ \A s \in 0 .. b : s \in SiblingGroup
      /\ b = should + 1 /\ a >= b
  BY <1>0, <1>2, <1>3, CapacityOfGroups DEF CallsPlaced, SiblingGroup
(* The renaming: it leaves placed groups where they are. *)
<1>6. /\ \A s \in SiblingGroup : G(s) \in SiblingGroup /\ G(G(s)) = s
      /\ \A s \in SiblingGroup : s <= should => G(s) = s
      /\ \A s \in SiblingGroup : s > should => G(s) > should
      /\ G(a) = b /\ G(b) = a
      /\ \A s \in SiblingGroup : G(s) = b => s = a
      /\ \A s \in SiblingGroup : s > should /\ s # a => G(s) > b
  BY <1>2, <1>3, <1>5 DEF OtherGroup
<1>7. /\ \A x \in Node : O(x) \in Node /\ O(O(x)) = x
                          /\ sibling_group(O(x)) = G(sibling_group(x))
      /\ \A x \in Node : sibling_group(x) <= should => O(x) = x
  <2>1. ASSUME NEW x \in Node
        PROVE  /\ O(x) \in Node /\ O(O(x)) = x
               /\ sibling_group(O(x)) = G(sibling_group(x))
    <3>1. CASE a # b BY <3>1, <1>2, <1>3, OtherNodeInverse
    <3>2. CASE a = b
      <4>1. O(x) = x
        BY <3>2, <1>3, FirstNodeOfGroup, CapacityOfGroups
          DEF OtherNode, Peer, Node
      <4> QED BY <3>2, <4>1 DEF OtherGroup
    <3> QED BY <3>1, <3>2
  <2>2. ASSUME NEW x \in Node, sibling_group(x) <= should
        PROVE  O(x) = x
    <3>1. x \notin nodes(a) /\ x \notin nodes(b)
      BY <2>2, <1>2, <1>3, <1>5, NodesOfGroup
    <3> QED BY <3>1 DEF OtherNode
  <2> QED BY <2>1, <2>2
<1>8. /\ \A s \in SiblingGroup : is_free(G(s))' <=> is_free(s)
      /\ \A s \in sibling_groups \ {0} : parents_'[G(s)] = O(parents_[s])
      /\ \A x \in Node : is_leaf(O(x))' <=> is_leaf(x)
      /\ \A x \in Node :
           ~is_leaf(x) => children_group(O(x))' = G(children_group(x))
      /\ \A x \in Node : O(x) \in UsedNodes' <=> x \in UsedNodes
      /\ \A x \in UsedNodes : Path'[O(x)] = Path[x]
  BY <1>4 DEF Moves
<1> HIDE DEF G, O
(* The calls. *)
<1>9. /\ stack \in Seq(Frame) /\ L \in Nat /\ L \in 1 .. L
      /\ Len(stack') = L + 1
      /\ \A i \in 1 .. L - 1 : stack'[i] = stack[i]
      /\ L = Len(stack) /\ g = stack[L].group
      /\ stack'[L] = [group |-> g, next |-> k + 1]
      /\ stack'[L + 1] = [group |-> b, next |-> 0]
      /\ stack' \in Seq(Frame)
  <2>1. /\ stack \in Seq(Frame) /\ L \in Nat /\ L \in 1 .. L
        /\ L = Len(stack) /\ g = stack[L].group
    <3>1. stack \in Seq(Frame) /\ L = Len(stack) /\ stack # <<>>
            /\ g = stack[Len(stack)].group
      BY <1>0, <1>1 DEF CallsPlaced
    <3>2. Len(stack) \in Nat /\ Len(stack) # 0
      BY <3>1
    <3> QED BY <3>1, <3>2
  <2> DEFINE f == [group |-> g, next |-> k + 1]
             c == [group |-> b, next |-> 0]
             e == [stack EXCEPT ![L] = f]
  <2>2. f \in Frame /\ c \in Frame
    <3>1. stack[L] \in Frame
      BY <2>1
    <3>2. g \in SiblingGroup /\ k + 1 \in 0 .. NC
      BY <3>1, <2>1, <1>2, NCAssumption DEF Frame
    <3> QED BY <3>2, <1>2, NCAssumption DEF Frame
  <2> HIDE DEF f, c
  <2>3. /\ e \in Seq(Frame) /\ Len(e) = L
        /\ e[L] = f
        /\ \A i \in 1 .. L - 1 : e[i] = stack[i]
    BY <2>1, <2>2
  <2>4. stack' = Append(e, c)
    BY <1>1 DEF f, c
  <2> HIDE DEF e
  <2>5. /\ stack' \in Seq(Frame) /\ Len(stack') = L + 1
        /\ \A i \in 1 .. L : stack'[i] = e[i]
        /\ stack'[L + 1] = c
    BY <2>1, <2>2, <2>3, <2>4
  <2> QED BY <2>1, <2>3, <2>5 DEF f, c
<1>10. /\ \A i \in 1 .. L : stack'[i].group = stack[i].group
       /\ stack'[L + 1].group = b
       /\ \A i \in 1 .. L : /\ stack[i].group <= should
                             /\ stack[i].group \in SiblingGroup
                             /\ ~is_free(stack[i].group)
  <2>1. ASSUME NEW i \in 1 .. L PROVE stack'[i].group = stack[i].group
    <3>1. CASE i = L BY <3>1, <1>9
    <3>2. CASE i # L
      <4>1. i \in 1 .. L - 1
        BY <3>2, <1>9
      <4> QED BY <4>1, <1>9
    <3> QED BY <3>1, <3>2
  <2>2. ASSUME NEW i \in 1 .. L
        PROVE  /\ stack[i].group <= should
               /\ stack[i].group \in SiblingGroup
               /\ ~is_free(stack[i].group)
    <3>1. stack[i] \in Frame /\ stack[i].group <= should
      BY <1>9 DEF CallsPlaced
    <3>2. stack[i].group \in SiblingGroup
      BY <3>1 DEF Frame
    <3>3. stack[i].group \in 0 .. should
      BY <3>1, <3>2, <1>5 DEF SiblingGroup
    <3> QED BY <3>1, <3>2, <3>3 DEF PlacedFromRoot
  <2>3. stack'[L + 1].group = b
    BY <1>9
  <2> QED BY <2>1, <2>2, <2>3
<1>11. CallsPlaced'
  <2>1. ASSUME NEW i \in 1 .. L + 1
        PROVE  i = L + 1 \/ i \in 1 .. L
    BY <1>9
  <2>2. \A i \in 1 .. L : stack[i].group \in Nat /\ stack[i].group <= should
    BY <1>5, <1>10
  <2>3. ASSUME NEW i \in 1 .. L + 1
        PROVE  stack'[i].group <= b /\ (i # L + 1 => stack'[i].group < b)
    BY <2>1, <2>2, <1>5, <1>10
  <2>4. ASSUME NEW i \in 1 .. L + 1, NEW j \in 1 .. L + 1, i < j
        PROVE  stack'[i].group < stack'[j].group
    <3>1. i # L + 1 /\ i \in 1 .. L
      BY <2>4, <1>9
    <3>2. CASE j = L + 1
      BY <3>1, <3>2, <2>3, <1>10
    <3>3. CASE j # L + 1
      <4>1. j \in 1 .. L
        BY <3>3, <2>1
      <4>2. stack[i].group < stack[j].group
        BY <3>1, <4>1, <2>4, <1>9 DEF CallsPlaced
      <4> QED BY <3>1, <4>1, <4>2, <1>10
    <3> QED BY <3>2, <3>3
  <2> QED BY <2>3, <2>4, <1>1, <1>2, <1>9 DEF CallsPlaced
(* The placed groups. *)
<1>12. PlacedFromRoot'
  <2>1. ASSUME NEW s \in 0 .. b
        PROVE  ~is_free(s)'
    <3>1. CASE s = b
      BY <3>1, <1>3, <1>6, <1>8
    <3>2. CASE s # b
      <4>1. s \in 0 .. should /\ s \in SiblingGroup /\ G(s) = s
        BY <3>2, <1>5, <1>6
      <4> QED BY <4>1, <1>8 DEF PlacedFromRoot
    <3> QED BY <3>1, <3>2
  <2>2. ASSUME NEW s \in 1 .. b
        PROVE  sibling_group(parents_'[s]) <= b
    <3>1. CASE s = b
      <4>1. parents_'[b] = n
        BY <1>2, <1>3, <1>6, <1>7, <1>8
      <4>2. sibling_group(n) = g /\ g <= should /\ g \in Nat
        BY <1>2, <1>3, <1>5, GroupOfNode
      <4> QED BY <3>1, <4>1, <4>2, <1>5
    <3>2. CASE s # b
      <4>1. s \in 1 .. should /\ s \in SiblingGroup \ {0} /\ G(s) = s
        BY <3>2, <1>5, <1>6
      <4>2. s \in sibling_groups \ {0} /\ sibling_group(parents_[s]) <= should
        BY <4>1 DEF PlacedFromRoot, sibling_groups
      <4>3. parents_[s] \in Node /\ sibling_group(parents_[s]) \in Nat
        BY <4>2, <1>5, ParentOfGroup DEF sibling_groups
      <4>4. parents_'[s] = parents_[s]
        BY <4>1, <4>2, <4>3, <1>7, <1>8
      <4> QED BY <4>2, <4>3, <4>4, <1>5
    <3> QED BY <3>1, <3>2
  <2> QED BY <2>1, <2>2, <1>1 DEF PlacedFromRoot
(* What is pending: the node just visited no more, and the new call's. *)
<1>13. ASSUME NEW i \in 1 .. L, NEW x \in nodes(stack[i].group)
       PROVE  /\ x \in Node /\ x \in UsedNodes /\ x \in UsedNodes' /\ Path'[x] = Path[x]
              /\ sibling_group(x) = stack[i].group
              /\ is_leaf(x)' <=> is_leaf(x)
              /\ Path[x] \in Paths
  <2>1. x \in UsedNodes /\ x \in Node /\ sibling_group(x) = stack[i].group
          /\ Path[x] \in Paths
    BY <1>10, PlacedNodes
  <2>2. O(x) = x
    BY <2>1, <1>7, <1>10
  <2> QED BY <2>1, <2>2, <1>8
<1>14. /\ \A i \in 1 .. L : Pending(i)' = Pending(i) \ {n}
       /\ Pending(L + 1)' = {x \in nodes(b) : ~is_leaf(x)'}
  <2>1. ASSUME NEW i \in 1 .. L, i # L
        PROVE  Pending(i)' = Pending(i) \ {n}
    <3>1. stack'[i] = stack[i]
      BY <2>1, <1>9
    <3>2. Pending(i)' = Pending(i)
      BY <3>1, <1>13 DEF Pending
    <3>3. stack[i].group # g
      <4>1. i < L
        BY <2>1, <1>9
      <4>2. stack[i].group < stack[L].group
        BY <4>1, <1>9 DEF CallsPlaced
      <4>3. stack[i].group \in Nat
        BY <1>5, <1>10
      <4> QED BY <4>2, <4>3, <1>9
    <3>4. n \notin Pending(i)
      BY <3>3, <1>2, <1>13 DEF Pending
    <3> QED BY <3>2, <3>4
  <2>2. Pending(L)' = Pending(L) \ {n}
    <3>1. Pending(L)' = {m \in nodes(g) :
                           m >= first_node(g) + (k + 1) /\ ~is_leaf(m)'}
      BY <1>9 DEF Pending
    <3>2. \A m \in nodes(g) : is_leaf(m)' <=> is_leaf(m)
      BY <1>9, <1>13
    <3>3. Pending(L) \ {n} =
           {m \in nodes(g) :
              m >= first_node(g) + (k + 1) /\ ~is_leaf(m)}
      BY <1>2
    <3> QED BY <3>1, <3>2, <3>3
  <2>3. Pending(L + 1)' = {x \in nodes(b) : ~is_leaf(x)'}
    <3>1. \A x \in nodes(b) : x >= first_node(b) + 0
      <4> TAKE x \in nodes(b)
      <4> DEFINE f == first_node(b)
                 c == Cardinality(nodes(b))
      <4>1. x \in f .. f + c - 1 /\ f \in Nat
        BY <1>2, NumberOfNodes
      <4> HIDE DEF f, c
      <4>2. x >= f + 0
        BY <4>1
      <4> QED BY <4>2 DEF f
    <3> QED BY <3>1, <1>9 DEF Pending
  <2> QED BY <2>1, <2>2, <2>3
<1>15. PendingUnplaced'
  <2> SUFFICES ASSUME NEW x \in UsedNodes', ~is_leaf(x)', sibling_group(x) <= b
               PROVE  children_group(x)' > b
                        <=> \E i \in 1 .. L + 1 : x \in Pending(i)'
    BY <1>1, <1>9 DEF PendingUnplaced
  <2>1. x \in Node /\ sibling_group(x) \in SiblingGroup
    BY GroupOfNode DEF UsedNodes
  <2> DEFINE y == O(x)
             u == children_group(y)
  <2>2. /\ y \in UsedNodes /\ y \in Node /\ ~is_leaf(y) /\ O(y) = x
        /\ sibling_group(y) = G(sibling_group(x))
        /\ children_group(x)' = G(u)
    BY <2>1, <1>7, <1>8
  <2>3. /\ u \in SiblingGroup \ {0} /\ u \in sibling_groups /\ parents_[u] = y
    BY <2>2, GroupOfChildren
  <2> HIDE DEF u, y
  <2>4. CASE sibling_group(x) <= should
    <3>1. y = x
      BY <2>1, <2>4, <1>7 DEF y
    <3>2. u > should <=> \E i \in 1 .. L : x \in Pending(i)
      BY <3>1, <2>2, <2>4, <1>9 DEF PendingUnplaced, u
    <3>3. x \notin Pending(L + 1)'
      BY <2>4, <1>2, <1>5, <1>14, NodesOfGroup
    <3>4. u = a <=> x = n
      BY <3>1, <2>3, <1>0, <1>3 DEF u
    <3>5. G(u) > b <=> u > should /\ u # a
      <4>1. CASE u = a
        BY <4>1, <1>5, <1>6
      <4>2. CASE u # a
        BY <4>2, <2>3, <1>5, <1>6
      <4> QED BY <4>1, <4>2
    <3>6. (\E i \in 1 .. L + 1 : x \in Pending(i)')
             <=> (\E i \in 1 .. L : x \in Pending(i)) /\ x # n
      BY <3>3, <1>9, <1>14
    <3> QED BY <3>2, <3>4, <3>5, <3>6, <2>2
  <2>5. CASE ~(sibling_group(x) <= should)
    <3>1. sibling_group(x) = b /\ sibling_group(y) = a
      <4>1. sibling_group(x) \in Nat /\ sibling_group(x) <= b
        BY <2>1, <1>5
      <4>2. sibling_group(x) = b
        BY <4>1, <2>5, <1>5
      <4> QED BY <4>2, <2>2, <1>6
    <3>2. x \in Pending(L + 1)'
      BY <3>1, <2>1, <1>14, GroupOfNode
    <3>3. u > should
      <4>1. CASE u <= should
        <5>1. u \in 1 .. should
          BY <4>1, <2>3, <1>5
        <5>2. sibling_group(y) <= should
          BY <5>1, <2>3 DEF PlacedFromRoot
        <5> QED BY <5>2, <3>1, <1>2, <1>5
      <4> QED BY <4>1, <2>3, <1>5
    <3>4. u # a
      BY <3>1, <2>3, <1>2, <1>3, <1>5, <1>9, <1>10
    <3>5. G(u) > b
      BY <3>3, <3>4, <2>3, <1>6
    <3> QED BY <3>2, <3>5, <2>2, <1>9
  <2> QED BY <2>4, <2>5
<1>16. ASSUME NEW x \in nodes(b)
       PROVE  /\ Path'[x] \in Paths
              /\ Path[n] \in Paths
              /\ Under(Path[n], Path'[x])
  <2>1. x \in Node /\ sibling_group(x) = b
    BY <1>2, NodesOfGroup
  <2>2. O(x) \in Node /\ O(O(x)) = x /\ O(x) \in nodes(a)
    BY <2>1, <1>6, <1>7, GroupOfNode
  <2>3. /\ O(x) \in UsedNodes
        /\ position_in_parent(O(x)) \in 0 .. NC - 1
        /\ Path[O(x)] = Append(Path[n], position_in_parent(O(x)))
    <3>1. O(x) \in nodes(children_group(n))
      BY <2>2, <1>0
    <3> HIDE DEF O
    <3> QED BY <3>1, <1>2, GroupOfChildren
  <2>4. Path'[x] = Path[O(x)] /\ Path[n] \in Paths
    BY <2>2, <2>3, <1>2, <1>8, PathType DEF Paths
  <2>5. Append(Path[n], position_in_parent(O(x))) \in Paths
    BY <2>3, <2>4, AppendPath
  <2> QED BY <2>3, <2>4, <2>5, UnderAppend
<1>17. InnerFirst'
  <2> SUFFICES ASSUME NEW i \in 1 .. L + 1, NEW j \in 1 .. L + 1, i < j,
                      NEW m \in Pending(i)', NEW x \in nodes(stack'[j].group)
               PROVE  LeftOf(Path'[x], Path'[m])
    BY <1>9 DEF InnerFirst
  <2>1. i \in 1 .. L /\ m \in Pending(i) \ {n} /\ m \in nodes(stack[i].group)
    BY <1>9, <1>14 DEF Pending
  <2>2. Path'[m] = Path[m] /\ Path[m] \in Paths
    BY <2>1, <1>13
  <2>3. CASE j = L + 1
    <3>1. /\ Path'[x] \in Paths /\ Path[n] \in Paths
          /\ Under(Path[n], Path'[x])
      BY <2>3, <1>10, <1>16
    <3>2. LeftOf(Path[n], Path[m])
      BY <2>1, <1>2, <1>9
    <3>3. Under(Path[m], Path[m])
      BY <2>2, UnderAppend, NCAssumption
    <3> QED BY <3>1, <3>2, <3>3, <2>2, LeftOfBelow
  <2>4. CASE j # L + 1
    <3>1. j \in 1 .. L /\ x \in nodes(stack[j].group)
      BY <2>4, <1>9, <1>10
    <3>2. Path'[x] = Path[x]
      BY <3>1, <1>13
    <3>3. LeftOf(Path[x], Path[m])
      BY <3>1, <2>1, <1>9 DEF InnerFirst
    <3> QED BY <3>2, <3>3, <2>2
  <2> QED BY <2>3, <2>4
(* The order. *)
<1>18. PlacedGroupsInOrder'
  <2>1. ASSUME NEW t \in sibling_groups', t # 0
        PROVE  /\ G(t) \in sibling_groups \ {0} /\ G(t) \in Nat
               /\ t \in Nat /\ t \in SiblingGroup
               /\ Path'[parents_'[t]] = Path[parents_[G(t)]]
    <3>1. t \in SiblingGroup /\ ~is_free(t)' /\ G(t) \in SiblingGroup
            /\ G(G(t)) = t
      BY <1>6 DEF sibling_groups
    <3>2. ~is_free(G(t)) /\ G(t) # 0
      <4>1. G(0) = 0
        BY <1>5, <1>6, CapacityOfGroups DEF SiblingGroup
      <4> QED BY <3>1, <4>1, <1>8, <2>1
    <3>3. G(t) \in sibling_groups \ {0}
      BY <3>1, <3>2 DEF sibling_groups
    <3>4. parents_'[t] = O(parents_[G(t)]) /\ parents_[G(t)] \in UsedNodes
      BY <3>1, <3>3, <1>8, ParentOfGroup
    <3> QED BY <3>1, <3>3, <3>4, <1>5, <1>8
  <2> SUFFICES ASSUME NEW s \in 0 .. b, NEW t \in sibling_groups', 0 < s, s < t
               PROVE  Before(Path'[parents_'[s]], Path'[parents_'[t]])
    BY <1>1, <1>12 DEF PlacedGroupsInOrder, PlacedFromRoot
  <2>2. /\ G(t) \in sibling_groups \ {0} /\ G(t) \in Nat
        /\ t \in Nat /\ t \in SiblingGroup
        /\ Path'[parents_'[t]] = Path[parents_[G(t)]]
    BY <2>1
  <2>3. s \in sibling_groups' /\ s # 0
    BY <1>1, <1>5, <1>12 DEF PlacedFromRoot, sibling_groups
  <2>4. Path'[parents_'[s]] = Path[parents_[G(s)]]
    BY <2>1, <2>3
  <2>5. CASE s # b
    <3>1. s \in 0 .. should /\ G(s) = s
      BY <2>5, <1>5, <1>6
    <3>2. s < G(t)
      <4>1. CASE t <= should
        BY <4>1, <2>2, <1>6
      <4>2. CASE ~(t <= should)
        <5>1. G(t) > should
          BY <4>2, <2>2, <1>5, <1>6
        <5> QED BY <5>1, <3>1, <2>2, <1>5
      <4> QED BY <4>1, <4>2
    <3> QED BY <3>1, <3>2, <2>2, <2>4, <1>1 DEF PlacedGroupsInOrder
  <2>6. CASE s = b
    <3> DEFINE q == Path[parents_[G(t)]]
    <3>1. Path'[parents_'[s]] = Path[n]
      BY <2>4, <2>6, <1>3, <1>6
    <3>2. t > b /\ G(t) # a /\ G(t) > should
      <4>1. t > b /\ t > should
        BY <2>2, <2>6, <1>5
      <4>2. G(t) # a
        BY <4>1, <2>2, <1>5, <1>6
      <4> QED BY <4>1, <4>2, <2>2, <1>6
    <3>3. PICK i \in 1 .. Len(stack) : \E m \in Pending(i) :
            Path[m] \in Paths /\ Under(Path[m], q)
      BY <3>2, <2>2, UnplacedBelowPending
    <3>4. PICK m \in Pending(i) : Path[m] \in Paths /\ Under(Path[m], q)
      BY <3>3
    <3>5. q \in Paths /\ Path[n] \in Paths /\ parents_[G(t)] \in UsedNodes
            /\ children_group(parents_[G(t)]) = G(t)
      BY <2>2, <1>2, ParentOfGroup, PathType DEF Paths
    <3>6. CASE m = n
      <4>1. q # Path[n]
        <5>1. parents_[G(t)] # n
          BY <3>2, <3>5, <1>0
        <5> QED BY <5>1, <3>5, <1>2, PathInjective
      <4> QED BY <4>1, <3>1, <3>4, <3>5, <3>6, <2>2, BeforeCases
    <3>7. CASE m # n
      <4>1. LeftOf(Path[n], Path[m])
        BY <3>7, <1>2
      <4>2. Under(Path[n], Path[n])
        BY <3>5, UnderAppend, NCAssumption
      <4>3. LeftOf(Path[n], q)
        BY <4>1, <4>2, <3>4, <3>5, LeftOfBelow
      <4> QED BY <4>3, <3>1, <3>5, <2>2, BeforeCases
    <3> QED BY <3>6, <3>7
  <2> QED BY <2>5, <2>6
<1> QED BY <1>4, <1>11, <1>12, <1>15, <1>17, <1>18

(* The swap of a turn is one of two groups other than the root's. *)
LEMMA TurnSwaps ==
  ASSUME Storage, Sorting, SortChildren
  PROVE  \E a, b \in SiblingGroup \ {0} :
            /\ ~is_free(a)
            /\ \/ a # b /\ swap(a, b) /\ MoveData(a, b)
               \/ a = b /\ UNCHANGED <<vars, data>>
<1>1. PICK k, n, a, b :
        /\ k = CHOOSE i \in Remaining(stack[Len(stack)]) :
                 \A j \in Remaining(stack[Len(stack)]) : i <= j
        /\ n = first_node(stack[Len(stack)].group) + k
        /\ a = children_group(n)
        /\ b = should + 1
  OBVIOUS
<1>2. /\ stack # <<>> /\ Remaining(stack[Len(stack)]) # {}
      /\ \/ a # b /\ swap(a, b) /\ MoveData(a, b)
         \/ a = b /\ UNCHANGED <<vars, data>>
  BY <1>1 DEF SortChildren
<1>3. a \in sibling_groups \ {0} /\ b \in SiblingGroup \ {0}
  BY <1>1, <1>2, NextChild DEF Sorting
<1> QED BY <1>2, <1>3 DEF sibling_groups

(* A step that leaves the storage alone leaves the paths alone. *)
LEMMA SamePaths ==
  ASSUME Storage, UNCHANGED <<parents_, first_children_>>, Storage'
  PROVE  /\ UsedNodes' = UsedNodes /\ sibling_groups' = sibling_groups
         /\ \A n \in UsedNodes : Path'[n] = Path[n]
         /\ \A n \in Node : is_leaf(n)' <=> is_leaf(n)
         /\ \A n \in Node : children_group(n)' = children_group(n)
         /\ \A s \in SiblingGroup : is_free(s)' <=> is_free(s)
<1>1. /\ UsedNodes' = UsedNodes /\ sibling_groups' = sibling_groups
      /\ \A n \in Node : is_leaf(n)' <=> is_leaf(n)
      /\ \A n \in Node : children_group(n)' = children_group(n)
      /\ \A s \in SiblingGroup : is_free(s)' <=> is_free(s)
  BY DEF UsedNodes, sibling_groups, is_free, is_leaf, children_group
<1>2. \A n \in UsedNodes \ {0} :
        parent(n) \in UsedNodes /\ parent(n)' = parent(n)
  BY ParentOfNode DEF parent
<1>3. \A n \in UsedNodes : Path'[n] = Path[n]
  BY <1>1, <1>2, PathKept
<1> QED BY <1>1, <1>3

(* A sort starts with the group of the root in its place. *)
LEMMA StartSorting ==
  ASSUME Storage, StartSort
  PROVE  Storage' /\ Sorting'
<1>1. /\ sorting' /\ stack' = <<[group |-> 0, next |-> 0]>> /\ should' = 0
      /\ UNCHANGED vars
  BY DEF StartSort
<1>2. Storage'
  BY <1>1, StopStorage
<1>3. /\ 0 \in SiblingGroup /\ ~is_free(0)'
      /\ \A s \in SiblingGroup : s \in Nat
      /\ nodes(0) = {0} /\ first_node(0) = 0
  BY CapacityOfGroups DEF SiblingGroup, is_free, nodes, first_node
<1>4. /\ stack' \in Seq(Frame) /\ Len(stack') = 1
      /\ stack'[1] = [group |-> 0, next |-> 0]
  <2> DEFINE f == [group |-> 0, next |-> 0]
  <2>1. f \in Frame
    BY <1>3, NCAssumption DEF Frame
  <2> HIDE DEF f
  <2>2. <<f>> \in Seq(Frame) /\ Len(<<f>>) = 1 /\ <<f>>[1] = f
    BY <2>1
  <2> QED BY <2>2, <1>1 DEF f
<1>5. CallsPlaced'
  BY <1>1, <1>3, <1>4 DEF CallsPlaced
<1>6. PlacedFromRoot'
  BY <1>1, <1>3 DEF PlacedFromRoot
<1>7. PendingUnplaced'
  <2> SUFFICES ASSUME NEW n \in UsedNodes', ~is_leaf(n)', sibling_group(n) <= 0
               PROVE  children_group(n)' > 0
                        <=> \E i \in 1 .. 1 : n \in Pending(i)'
    BY <1>1, <1>4 DEF PendingUnplaced
  <2>1. n \in UsedNodes /\ n \in Node /\ ~is_leaf(n)
          /\ children_group(n)' = children_group(n)
    BY <1>1, <1>2, SamePaths DEF vars, UsedNodes
  <2>2. sibling_group(n) = 0 /\ n = 0
    BY <2>1, <1>3, GroupOfNode
  <2>3. children_group(n) > 0
    BY <2>1, <1>3, GroupOfChildren
  <2>4. n \in Pending(1)'
    BY <2>2, <1>3, <1>4 DEF Pending
  <2> QED BY <2>1, <2>3, <2>4
<1>8. InnerFirst'
  BY <1>4 DEF InnerFirst
<1>9. PlacedGroupsInOrder'
  BY <1>1, <1>3 DEF PlacedGroupsInOrder
<1> QED BY <1>2, <1>5, <1>6, <1>7, <1>8, <1>9 DEF Sorting

(* A call that returns has nothing pending. *)
LEMMA ReturnSorting ==
  ASSUME Storage, Sorting, SortReturn
  PROVE  Storage' /\ Sorting'
<1> USE DEF Sorting
<1>0. PICK L : L = Len(stack)
  OBVIOUS
<1>1. /\ sorting /\ stack # <<>> /\ Remaining(stack[L]) = {}
      /\ stack' = SubSeq(stack, 1, L - 1)
      /\ UNCHANGED vars /\ should' = should /\ sorting' = sorting
  BY <1>0 DEF SortReturn
<1>2. Storage'
  BY <1>1, StopStorage
<1>3. stack \in Seq(Frame) /\ L \in Nat \ {0} /\ L = Len(stack)
  BY <1>0, <1>1 DEF CallsPlaced
<1>4. /\ stack' \in Seq(Frame) /\ Len(stack') = L - 1
      /\ \A i \in 1 .. L - 1 : stack'[i] = stack[i]
  <2>1. \A i \in 1 .. L - 1 : stack[i] \in Frame
    BY <1>3
  <2>2. /\ SubSeq(stack, 1, L - 1) \in Seq(Frame)
        /\ Len(SubSeq(stack, 1, L - 1))
              = IF 1 <= L - 1 THEN L - 1 - 1 + 1 ELSE 0
        /\ \A i \in 1 .. L - 1 - 1 + 1 :
              SubSeq(stack, 1, L - 1)[i] = stack[1 + i - 1]
    BY <2>1, <1>3, SubSeqProperties
  <2>3. /\ SubSeq(stack, 1, L - 1) \in Seq(Frame)
        /\ Len(SubSeq(stack, 1, L - 1)) = L - 1
        /\ \A i \in 1 .. L - 1 : SubSeq(stack, 1, L - 1)[i] = stack[i]
    BY <2>2, <1>3
  <2> QED BY <2>3, <1>1, Zenon
<1>5. /\ UsedNodes' = UsedNodes /\ sibling_groups' = sibling_groups
      /\ \A n \in UsedNodes : Path'[n] = Path[n]
      /\ \A n \in Node : is_leaf(n)' <=> is_leaf(n)
      /\ \A n \in Node : children_group(n)' = children_group(n)
      /\ \A s \in SiblingGroup : is_free(s)' <=> is_free(s)
  BY <1>1, <1>2, SamePaths DEF vars
<1>6. CallsPlaced'
  BY <1>1, <1>3, <1>4 DEF CallsPlaced
<1>7. PlacedFromRoot'
  BY <1>1 DEF PlacedFromRoot, vars, is_free
<1>8. \A i \in 1 .. L : \A x \in nodes(stack[i].group) :
        x \in UsedNodes /\ x \in Node
  <2> TAKE i \in 1 .. L
  <2>1. stack[i].group \in SiblingGroup
    BY <1>3, RemainingPending
  <2>2. stack[i].group \in 0 .. should
    BY <2>1, <1>3, CapacityOfGroups DEF CallsPlaced, SiblingGroup
  <2> QED BY <2>1, <2>2, PlacedNodes DEF PlacedFromRoot
<1>9. \A i \in 1 .. L - 1 : Pending(i)' = Pending(i)
  <2> TAKE i \in 1 .. L - 1
  <2>1. stack'[i] = stack[i] /\ i \in 1 .. L
    BY <1>3, <1>4
  <2>2. \A x \in nodes(stack[i].group) : is_leaf(x)' <=> is_leaf(x)
    BY <2>1, <1>5, <1>8
  <2> QED BY <2>1, <2>2 DEF Pending
<1>10. Pending(L) = {}
  <2>1. L \in 1 .. Len(stack)
    BY <1>3
  <2> QED BY <2>1, <1>1, RemainingPending
<1>11. PendingUnplaced'
  <2> SUFFICES ASSUME NEW n \in UsedNodes', ~is_leaf(n)',
                      sibling_group(n) <= should
               PROVE  children_group(n)' > should
                        <=> \E i \in 1 .. L - 1 : n \in Pending(i)'
    BY <1>1, <1>4 DEF PendingUnplaced
  <2>1. n \in UsedNodes /\ ~is_leaf(n) /\ children_group(n)' = children_group(n)
    BY <1>5 DEF UsedNodes
  <2>2. children_group(n) > should <=> \E i \in 1 .. L : n \in Pending(i)
    BY <2>1, <1>3 DEF PendingUnplaced
  <2>3. \A i \in 1 .. L : i # L => i \in 1 .. L - 1
    BY <1>3
  <2>4. \A i \in 1 .. L - 1 : i \in 1 .. L
    BY <1>3
  <2> QED BY <2>1, <2>2, <2>3, <2>4, <1>9, <1>10
<1>12. InnerFirst'
  <2> SUFFICES ASSUME NEW i \in 1 .. L - 1, NEW j \in 1 .. L - 1, i < j,
                      NEW m \in Pending(i)', NEW x \in nodes(stack'[j].group)
               PROVE  LeftOf(Path'[x], Path'[m])
    BY <1>4 DEF InnerFirst
  <2>1. i \in 1 .. L /\ j \in 1 .. L /\ stack'[j] = stack[j]
    BY <1>3, <1>4
  <2>2. m \in Pending(i) /\ m \in nodes(stack[i].group)
          /\ x \in nodes(stack[j].group)
    BY <2>1, <1>9 DEF Pending
  <2>3. Path'[x] = Path[x] /\ Path'[m] = Path[m]
    BY <2>1, <2>2, <1>5, <1>8
  <2>4. LeftOf(Path[x], Path[m])
    BY <2>1, <2>2, <1>3 DEF InnerFirst
  <2> QED BY <2>3, <2>4
<1>13. PlacedGroupsInOrder'
  <2>1. \A s \in sibling_groups \ {0} :
          /\ parents_'[s] = parents_[s]
          /\ Path'[parents_[s]] = Path[parents_[s]]
    BY <1>1, <1>5, ParentOfGroup DEF vars
  <2>2. ASSUME NEW s \in 0 .. should
        PROVE  /\ ~is_free(s)'
               /\ \A t \in sibling_groups' : 0 < s /\ s < t =>
                    Before(Path'[parents_'[s]], Path'[parents_'[t]])
    <3>1. ~is_free(s) /\ s \in SiblingGroup
      BY CapacityOfGroups DEF PlacedFromRoot, CallsPlaced, SiblingGroup
    <3>2. ASSUME NEW t \in sibling_groups', 0 < s, s < t
          PROVE  Before(Path'[parents_'[s]], Path'[parents_'[t]])
      <4>1. t \in sibling_groups \ {0} /\ s \in sibling_groups \ {0}
        BY <3>1, <3>2, <1>5 DEF sibling_groups
      <4>2. Before(Path[parents_[s]], Path[parents_[t]])
        BY <4>1, <3>2, <1>1 DEF PlacedGroupsInOrder
      <4> QED BY <4>1, <4>2, <2>1
    <3> QED BY <3>1, <3>2, <1>5
  <2> QED BY <2>2, <1>1 DEF PlacedGroupsInOrder
<1> QED BY <1>2, <1>6, <1>7, <1>11, <1>12, <1>13

(* When the outermost call has returned, every group in use is placed. *)
LEMMA AllPlaced ==
  ASSUME Storage, Sorting, sorting, stack = <<>>
  PROVE  /\ should \in SiblingGroup
         /\ sibling_groups = 0 .. should
         /\ Cardinality(sibling_groups) = should + 1
         /\ sibling_group(size_) = should + 1
<1> USE DEF Sorting
<1>1. should \in SiblingGroup /\ should \in Nat
  BY CapacityOfGroups DEF CallsPlaced, SiblingGroup
<1>2. ASSUME NEW t \in sibling_groups PROVE t \in 0 .. should
  <2>1. ~(t > should)
    <3>1. 1 .. Len(stack) = {}
      OBVIOUS
    <3> QED BY <3>1, UnplacedBelowPending
  <2>2. t \in Nat
    BY CapacityOfGroups DEF sibling_groups, SiblingGroup
  <2> QED BY <2>1, <2>2, <1>1
<1>3. sibling_groups = 0 .. should
  BY <1>1, <1>2, CapacityOfGroups
    DEF PlacedFromRoot, sibling_groups, SiblingGroup
<1>4. Cardinality(sibling_groups) = should + 1
  BY <1>1, <1>3, FS_Interval
<1>5. size_ = should * NC + 1
  BY <1>1, <1>4 DEF Storage, SizeCountsNodes, no_nodes
<1>6. sibling_group(size_) = should + 1
  <2> USE <1>1, <1>5 DEF sibling_group
  <2>1. CASE NC = 2 BY <2>1
  <2>2. CASE NC = 4 BY <2>2
  <2>3. CASE NC = 8 BY <2>3
  <2> QED BY <2>1, <2>2, <2>3, NCAssumption
<1> QED BY <1>1, <1>3, <1>4, <1>6

(* No assertion fails at the end of a sort, and the storage is compact and in *)
(* depth-first order.                                                         *)
LEMMA FinishSorted ==
  ASSUME Storage, Sorting, FinishSort
  PROVE  /\ Storage' /\ ~sorting'
         /\ UNCHANGED <<parents_, first_children_, data>>
         /\ InDepthFirstOrder' /\ IsCompact' /\ failed' = "no"
<1>1. /\ failed = "no" /\ sorting /\ stack = <<>>
      /\ ~sorting' /\ data' = data
  BY DEF FinishSort
<1>2. /\ should \in SiblingGroup
      /\ sibling_groups = 0 .. should
      /\ Cardinality(sibling_groups) = should + 1
      /\ sibling_group(size_) = should + 1
  BY <1>1, AllPlaced
<1>3. should \in Nat /\ should <= sg_capacity_ - 1 /\ sg_capacity_ \in Nat
  BY <1>2, CapacityOfGroups DEF SiblingGroup
<1>4. FinishAsserts(sibling_group(size_))
  <2>1. should + 1 = sg_capacity_ \/ is_free(should + 1)
    <3>1. should + 1 \in SiblingGroup => should + 1 \notin sibling_groups
      BY <1>2, <1>3
    <3> QED BY <3>1, <1>3 DEF sibling_groups, SiblingGroup
  <2>2. \A i \in 0 .. should : ~is_free(i)
    BY <1>2, <1>3 DEF sibling_groups
  <2>3. PICK s \in Nat : s = should + 1 /\ s - 1 = should
    BY <1>3
  <2>4. FinishAsserts(s)
    <3>1. s = sg_capacity_ \/ is_free(s)
      BY <2>1, <2>3
    <3>2. \A i \in 0 .. s - 1 : ~is_free(i)
      BY <2>2, <2>3
    <3> QED BY <3>1, <3>2 DEF FinishAsserts
  <2>5. sibling_group(size_) = s
    BY <2>3, <1>2
  <2> HIDE DEF FinishAsserts
  <2> QED BY <2>4, <2>5
<1>5. /\ first_free_sibling_group_' = should + 1
      /\ UNCHANGED <<parents_, first_children_, size_, failed>>
  BY <1>2, <1>4 DEF FinishSort
<1>6. Storage'
  <2>1. TypeOK'
    <3>1. should + 1 \in 1 .. sg_capacity_
      BY <1>3
    <3> QED BY <3>1, <1>5 DEF Storage, TypeOK
  <2>2. EdgesAgree' /\ FreeNodesAreLeaves'
    BY <1>5 DEF Storage, EdgesAgree, FreeNodesAreLeaves, is_free, is_leaf
  <2>3. sibling_groups' = sibling_groups
    BY <1>5 DEF sibling_groups, is_free
  <2>4. SizeCountsNodes' /\ NoOrphans'
    BY <1>5, <2>3 DEF Storage, SizeCountsNodes, NoOrphans
  <2> QED BY <2>1, <2>2, <2>4 DEF Storage
<1>7. InDepthFirstOrder'
  <2>1. /\ sibling_groups' = sibling_groups
        /\ \A n \in UsedNodes : Path'[n] = Path[n]
    BY <1>5, <1>6, SamePaths
  <2>2. sibling_groups' = 0 .. Cardinality(sibling_groups') - 1
    BY <2>1, <1>2, <1>3
  <2>3. ASSUME NEW s \in sibling_groups' \ {0}, NEW t \in sibling_groups' \ {0},
               s < t
        PROVE  Before(Path'[parents_'[s]], Path'[parents_'[t]])
    <3>1. s \in sibling_groups \ {0} /\ t \in sibling_groups \ {0}
            /\ s \in 0 .. should /\ 0 < s
      BY <2>1, <1>2, <1>3
    <3>2. Before(Path[parents_[s]], Path[parents_[t]])
      BY <3>1, <2>3, <1>1 DEF Sorting, PlacedGroupsInOrder
    <3>3. /\ parents_'[s] = parents_[s] /\ parents_'[t] = parents_[t]
          /\ Path'[parents_[s]] = Path[parents_[s]]
          /\ Path'[parents_[t]] = Path[parents_[t]]
      BY <3>1, <2>1, <1>5, ParentOfGroup
    <3> QED BY <3>2, <3>3
  <2> QED BY <2>2, <2>3 DEF InDepthFirstOrder
<1>8. IsCompact'
  BY <1>2, <1>5 DEF IsCompact
<1> QED BY <1>1, <1>5, <1>6, <1>7, <1>8

-----------------------------------------------------------------------------
(* The storage is a tree at every step of every sort. *)

(* A client's step is a step of the storage, outside a sort. *)
ClientStep ==
  /\ ~sorting
  /\ \/ \E p \in Node : Refine(p) \/ Coarsen(p)
     \/ Query

LEMMA ClientNext ==
  ASSUME ClientStep
  PROVE  NextPublic /\ ~sorting /\ sorting' = sorting
BY DEF ClientStep, Refine, Coarsen, Query, NextPublic, sortVars

LEMMA StutterSorting ==
  ASSUME Sorting, UNCHANGED allVars
  PROVE  Sorting'
<1>1. /\ parents_' = parents_ /\ first_children_' = first_children_
      /\ stack' = stack /\ should' = should /\ sorting' = sorting
  BY DEF allVars, sortVars, vars
<1>2. Path' = Path
  BY <1>1 DEF Path, UsedNodes, is_free, parent
<1>3. CallsPlaced' /\ PlacedFromRoot'
  BY <1>1 DEF Sorting, CallsPlaced, PlacedFromRoot, is_free
<1>4. PendingUnplaced'
  BY <1>1 DEF Sorting, PendingUnplaced, Pending, UsedNodes, is_leaf,
              is_free, children_group
<1>5. InnerFirst'
  BY <1>1, <1>2 DEF Sorting, InnerFirst, Pending, is_leaf
<1>6. PlacedGroupsInOrder'
  BY <1>1, <1>2 DEF Sorting, PlacedGroupsInOrder, sibling_groups, is_free
<1> QED BY <1>3, <1>4, <1>5, <1>6 DEF Sorting

LEMMA SortStorageInit == SortInit => SortStorage /\ DataInv
<1> SUFFICES ASSUME SortInit PROVE SortStorage /\ DataInv
  OBVIOUS
<1>1. Init /\ Storage /\ sorting = FALSE
  BY InitStorage DEF SortInit
<1>2. UsedNodes = {0}
  BY <1>1, RootAlone, CapacityOfGroups DEF Init, is_leaf, Node
<1>3. Path[0] = <<>>
  BY <1>1, <1>2, PathOfNode
<1>4. 0 \in Node /\ data = [n \in Node |-> <<>>]
  BY CapacityOfGroups DEF SortInit, Node
<1>5. DataInv
  BY <1>2, <1>3, <1>4 DEF DataInv, DataFollowsNode
<1> QED BY <1>1, <1>5 DEF SortStorage

LEMMA SortStorageStep ==
  ASSUME SortStorage, [SortNext]_allVars
  PROVE  SortStorage'
<1>1. Storage /\ sorting \in BOOLEAN /\ (sorting => Sorting)
  BY DEF SortStorage
<1>2. ASSUME ClientStep PROVE SortStorage'
  BY <1>1, <1>2, ClientNext, NextStorage DEF SortStorage
<1>3. ASSUME StartSort PROVE SortStorage'
  BY <1>1, <1>3, StartSorting DEF SortStorage, StartSort
<1>4. ASSUME SortChildren PROVE SortStorage'
  BY <1>1, <1>4, ChildrenSorting DEF SortStorage, SortChildren
<1>5. ASSUME SortReturn PROVE SortStorage'
  BY <1>1, <1>5, ReturnSorting DEF SortStorage, SortReturn
<1>6. ASSUME FinishSort PROVE SortStorage'
  BY <1>1, <1>6, FinishSorted DEF SortStorage, FinishSort
<1>7. ASSUME UNCHANGED allVars PROVE SortStorage'
  <2>1. UNCHANGED vars /\ UNCHANGED sortVars
    BY <1>7 DEF allVars
  <2>2. Storage' /\ sorting' = sorting
    BY <2>1, <1>1, StopStorage DEF sortVars
  <2>3. ASSUME Sorting PROVE Sorting'
    BY <1>7, <2>3, StutterSorting
  <2> QED BY <2>2, <2>3, <1>1 DEF SortStorage
<1> QED BY <1>2, <1>3, <1>4, <1>5, <1>6, <1>7
        DEF SortNext, ClientStep, Refine, Coarsen, Query

-----------------------------------------------------------------------------
(* The data of a node is its path at every step. *)

(* A refine that takes a group stores the paths of the new nodes. *)
LEMMA RefineData ==
  ASSUME Storage, Storage', DataInv, NEW p \in Node, Refine(p)
  PROVE  DataInv'
<1> USE DEF DataInv, DataFollowsNode
<1>0. /\ refine(p)
      /\ data' = [n \in Node |->
                    IF first_children_'[p] # None
                       /\ n \in first_children_'[p]
                                  .. first_children_'[p] + NC - 1
                    THEN Append(Path[p], position_in_parent(n)) ELSE data[n]]
  BY DEF Refine
<1>1. CASE RefineTakes(p)
  <2>1. PICK s : s = first_free_sibling_group_
    OBVIOUS
  <2>2. /\ s \in SiblingGroup \ {0}
        /\ first_children_' = [first_children_ EXCEPT ![p] = first_node(s)]
        /\ UsedNodes' = UsedNodes \cup nodes(s)
        /\ \A n \in UsedNodes : Path'[n] = Path[n]
        /\ \A n \in nodes(s) :
             Path'[n] = Append(Path[p], position_in_parent(n))
        /\ is_free(s)
    BY <2>1, <1>1, RefinePaths
  <2>3. first_children_'[p] = first_node(s) /\ first_node(s) # None
    BY <2>2, FirstNodeOfGroup DEF Storage, TypeOK
  <2>4. nodes(s) = first_node(s) .. first_node(s) + NC - 1
          /\ nodes(s) \subseteq Node
    BY <2>2, NodesOfGroup DEF nodes
  <2>5. \A n \in UsedNodes : n \in Node /\ n \notin nodes(s)
    BY <2>2, NodesOfGroup DEF UsedNodes
  <2>6. data' = [n \in Node |->
                   IF n \in nodes(s)
                   THEN Append(Path[p], position_in_parent(n)) ELSE data[n]]
    BY <1>0, <2>3, <2>4
  <2> QED BY <2>2, <2>4, <2>5, <2>6
<1>2. CASE RefineFull(p) \/ RefineStops(p)
  <2>1. UNCHANGED <<parents_, first_children_>> /\ first_children_[p] = None
    BY <1>2 DEF RefineFull, RefineStops, CanRefine, Stop, vars, is_leaf
  <2>2. data' = [n \in Node |-> data[n]]
    BY <1>0, <2>1
  <2>3. UsedNodes' = UsedNodes /\ \A n \in UsedNodes : Path'[n] = Path[n]
    BY <2>1, SamePaths
  <2>4. \A n \in UsedNodes : n \in Node
    BY DEF UsedNodes
  <2> QED BY <2>2, <2>3, <2>4
<1> QED BY <1>0, <1>1, <1>2 DEF refine

LEMMA CoarsenData ==
  ASSUME Storage, Storage', DataInv, NEW p \in Node, Coarsen(p)
  PROVE  DataInv'
<1>1. coarsen(p) /\ data' = data
  BY DEF Coarsen, sortVars
<1>2. PICK cg : cg = children_group(p)
  OBVIOUS
<1>3. /\ UsedNodes' = UsedNodes \ nodes(cg)
      /\ \A n \in UsedNodes' : Path'[n] = Path[n]
  BY <1>1, <1>2, CoarsenPaths
<1> QED BY <1>1, <1>3 DEF DataInv, DataFollowsNode

(* A turn of the sort moves the data with the nodes. *)
LEMMA ChildrenData ==
  ASSUME Storage, Storage', Sorting, DataInv, SortChildren
  PROVE  DataInv'
<1> USE DEF DataInv, DataFollowsNode
<1>1. PICK a \in SiblingGroup \ {0}, b \in SiblingGroup \ {0} :
        /\ ~is_free(a)
        /\ \/ a # b /\ swap(a, b) /\ MoveData(a, b)
           \/ a = b /\ UNCHANGED <<vars, data>>
  BY TurnSwaps
<1>2. CASE a = b
  <2>1. UNCHANGED <<parents_, first_children_>> /\ data' = data
    BY <1>1, <1>2 DEF vars, swap
  <2>2. UsedNodes' = UsedNodes /\ \A n \in UsedNodes : Path'[n] = Path[n]
    BY <2>1, SamePaths
  <2> QED BY <2>1, <2>2
<1>3. CASE a # b
  <2>1. swap(a, b) /\ data' = SwappedData(a, b)
    BY <1>1, <1>3 DEF MoveData
  <2>2. data' = [n \in Node |-> data[OtherNode(a, b, n)]]
    BY <2>1 DEF SwappedData, OtherNode
  <2>3. Moves(a, b)
    BY <2>1, <1>1, <1>3, TurnMoves
  <2>4. ASSUME NEW n \in UsedNodes' PROVE data'[n] = Path'[n]
    <3>1. n \in Node
      BY DEF UsedNodes
    <3>2. PICK m \in Node : m = OtherNode(a, b, n) /\ n = OtherNode(a, b, m)
      BY <3>1, <1>3, OtherNodeInverse
    <3>3. m \in UsedNodes
      BY <3>2, <2>3 DEF Moves
    <3>4. Path'[n] = Path[m]
      BY <3>2, <3>3, <2>3 DEF Moves
    <3> QED BY <3>1, <3>2, <3>3, <3>4, <2>2
  <2> QED BY <2>2, <2>4
<1> QED BY <1>2, <1>3

LEMMA DataStep ==
  ASSUME SortStorage, SortStorage', DataInv, [SortNext]_allVars
  PROVE  DataInv'
<1>1. Storage /\ Storage' /\ (sorting => Sorting)
  BY DEF SortStorage
<1>2. ASSUME NEW p \in Node, Refine(p) \/ Coarsen(p) PROVE DataInv'
  BY <1>1, <1>2, RefineData, CoarsenData
<1>3. ASSUME SortChildren PROVE DataInv'
  BY <1>1, <1>3, ChildrenData DEF SortChildren
<1>4. ASSUME UNCHANGED <<parents_, first_children_, data>> PROVE DataInv'
  BY <1>1, <1>4, SamePaths DEF DataInv, DataFollowsNode
<1>5. ASSUME FinishSort PROVE DataInv'
  BY <1>1, <1>4, <1>5, FinishSorted DEF FinishSort
<1>6. ASSUME Query \/ StartSort \/ SortReturn \/ UNCHANGED allVars
      PROVE  DataInv'
  <2>1. UNCHANGED <<parents_, first_children_, data>>
    BY <1>6 DEF Query, StartSort, SortReturn, allVars, sortVars, vars,
                is_compact, Stop
  <2> QED BY <2>1, <1>4
<1> QED BY <1>2, <1>3, <1>5, <1>6 DEF SortNext

-----------------------------------------------------------------------------
(* The theorems. *)

(* The storage is a tree, and a sort in progress keeps its invariant. *)
THEOREM SortInvariant == SortSpec => [](SortStorage /\ DataInv)
<1>1. SortStorage /\ DataInv /\ [SortNext]_allVars
        => (SortStorage /\ DataInv)'
  BY SortStorageStep, DataStep
<1> QED BY <1>1, SortStorageInit, PTL DEF SortSpec

(* The data that a client keeps per node follows its node through every swap *)
(* of every sort.                                                            *)
THEOREM DataFollows == SortSpec => []DataFollowsNode
<1>1. DataInv => DataFollowsNode BY DEF DataInv
<1> QED BY <1>1, SortInvariant, PTL

(* The groups that a sort has placed are in their final place. *)
THEOREM PlacedInOrder == SortSpec => []PlacedGroupsInOrder
<1>1. SortStorage => PlacedGroupsInOrder
  BY DEF SortStorage, Sorting, PlacedGroupsInOrder
<1> QED BY <1>1, SortInvariant, PTL

(* A sort of any tree ends with the groups in use first in memory and in     *)
(* depth-first order, the first free group right, and no assertion failing.  *)
THEOREM SortIsCorrect == SortSpec => SortPostcondition
<1>1. SortStorage /\ FinishSort
        => InDepthFirstOrder' /\ IsCompact' /\ failed' = "no"
  BY FinishSorted DEF SortStorage, FinishSort
<1>2. SortStorage /\ [SortNext]_allVars
        => [FinishSort => InDepthFirstOrder' /\ IsCompact'
                            /\ failed' = "no"]_allVars
  BY <1>1
<1> QED BY <1>2, SortInvariant, PTL DEF SortSpec, SortPostcondition

(* Every step of a sort leaves the graph alone: with the data, the order in   *)
(* memory and the calls in progress hidden, sorting is invisible.            *)
LEMMA SortStepRefines ==
  ASSUME SortStorage, SortStorage', [SortNext]_allVars
  PROVE  Abstract!Next \/ RefinedPaths' = RefinedPaths
<1>1. Storage /\ Storage' /\ (sorting => Sorting)
  BY DEF SortStorage
<1>2. ASSUME ClientStep PROVE Abstract!Next \/ RefinedPaths' = RefinedPaths
  BY <1>1, <1>2, ClientNext, StepRefines
<1>3. ASSUME SortChildren PROVE Abstract!Next \/ RefinedPaths' = RefinedPaths
  <2>1. PICK a \in SiblingGroup \ {0}, b \in SiblingGroup \ {0} :
          swap(a, b) \/ UNCHANGED vars
    BY <1>1, <1>3, TurnSwaps DEF SortChildren
  <2>2. [NextPublic]_vars
    BY <2>1 DEF NextPublic
  <2> QED BY <2>2, <1>1, StepRefines
<1>4. ASSUME FinishSort PROVE RefinedPaths' = RefinedPaths
  BY <1>1, <1>4, FinishSorted, PathsUnchanged DEF FinishSort
<1>5. ASSUME StartSort \/ SortReturn \/ UNCHANGED allVars
      PROVE  Abstract!Next \/ RefinedPaths' = RefinedPaths
  BY <1>1, <1>5, StepRefines DEF StartSort, SortReturn, allVars
<1> QED BY <1>2, <1>3, <1>4, <1>5
        DEF SortNext, ClientStep, Refine, Coarsen, Query

THEOREM SortRefines == SortSpec => SortImplementsAbstractTree
<1>1. SortStorage /\ SortStorage' /\ [SortNext]_allVars
        => [Abstract!Next]_{Path[n] : n \in {m \in UsedNodes : ~is_leaf(m)}}
  BY SortStepRefines DEF RefinedPaths
<1>2. SortInit => Abstract!Init
  BY InitRefines DEF SortInit
<1> QED BY <1>1, <1>2, SortInvariant, PTL
        DEF SortSpec, SortImplementsAbstractTree, ImplementsAbstractTree,
            Abstract!Spec

=============================================================================
