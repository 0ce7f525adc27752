-------------------------------- MODULE Tree --------------------------------
(***************************************************************************)
(* The storage of hm3's Nd-octree (include/hm3/tree/tree.hpp).             *)
(*                                                                         *)
(* Siblings are stored contiguously, in groups of NC = 2^Nd nodes; group 0 *)
(* holds the root alone.  Each group stores the index of its parent node,  *)
(* each node the index of its first child, and the order of the groups in  *)
(* memory is arbitrary.  A group without a parent is free (the root's      *)
(* never is) and first_free_sibling_group_ is where refine allocates.      *)
(*                                                                         *)
(* The build modelled is the one with assertions: a failing HM3_ASSERT     *)
(* stops the program, so an action that reaches one sets `failed' to its   *)
(* name and nothing happens afterwards.  A client meets the documented     *)
(* preconditions of the operations it calls.                               *)
(***************************************************************************)
EXTENDS Integers, FiniteSets, Sequences

CONSTANTS
  NC,            \* nodes in a sibling group: 2^Nd for Nd = 1, 2, 3
  NodeCapacity   \* number of nodes the tree is constructed for

ASSUME NCAssumption == NC \in {2, 4, 8}
ASSUME NodeCapacityAssumption == NodeCapacity \in Nat \ {0}

VARIABLES
  parents_,                    \* parents_[s]: parent node of sibling group s
  first_children_,             \* first_children_[n]: first child of node n
  size_,                       \* number of nodes in the tree
  first_free_sibling_group_,
  failed                       \* "no", or the assertion that stopped the program

vars == <<parents_, first_children_, size_, first_free_sibling_group_, failed>>

-----------------------------------------------------------------------------
(* Index arithmetic. *)

None == -1  \* an empty node_idx or siblings_idx

sibling_group(n) == (n + NC - 1) \div NC
first_node(s) == IF s = 0 THEN 0 ELSE 1 + NC * (s - 1)
nodes(s) == IF s = 0 THEN {0} ELSE first_node(s) .. first_node(s) + NC - 1
position_in_parent(n) == (n - 1) % NC

no_sibling_groups(no_nodes_) ==
  IF no_nodes_ > 0 THEN sibling_group(no_nodes_ - 1) + 1 ELSE 0
no_nodes(groups) == IF groups = 0 THEN 0 ELSE (groups - 1) * NC + 1

sg_capacity_ == no_sibling_groups(NodeCapacity)
capacity == no_nodes(sg_capacity_)

SiblingGroup == 0 .. sg_capacity_ - 1
Node == 0 .. capacity - 1

-----------------------------------------------------------------------------
(* Edges of the graph. *)

is_free(s) == s # 0 /\ parents_[s] = None
is_leaf(n) == first_children_[n] = None
parent(n) == parents_[sibling_group(n)]
children_group(n) ==
  IF is_leaf(n) THEN None ELSE sibling_group(first_children_[n])
children(n) ==
  IF is_leaf(n) THEN {} ELSE first_children_[n] .. first_children_[n] + NC - 1

sibling_groups == {s \in SiblingGroup : ~is_free(s)}
UsedNodes == {n \in Node : ~is_free(sibling_group(n))}

-----------------------------------------------------------------------------
Init ==
  /\ parents_ = [s \in SiblingGroup |-> None]
  /\ first_children_ = [n \in Node |-> None]
  /\ size_ = 1
  /\ first_free_sibling_group_ = 1
  /\ failed = "no"

(* An assertion fails: the program stops where it is. *)
Stop(assertion) ==
  /\ failed' = assertion
  /\ UNCHANGED <<parents_, first_children_, size_, first_free_sibling_group_>>

(* find_if over the groups in i + 1 .. last_sg() - 1: the first free one, or *)
(* i + 1 itself (the incremented index) when none is free.                  *)
NextFree(i, next) ==
  LET remaining == i + 1 .. sg_capacity_ - 1
  IN  \/ /\ \A s \in remaining : ~is_free(s)
         /\ next = i + 1
      \/ /\ next \in remaining
         /\ is_free(next)
         /\ \A s \in remaining : s < next => ~is_free(s)

CanRefine(p) ==
  /\ failed = "no"
  /\ ~is_free(sibling_group(p))
  /\ is_leaf(p)

(* No room: refine returns an empty group and changes nothing. *)
RefineFull(p) ==
  /\ CanRefine(p)
  /\ size_ = capacity
  /\ UNCHANGED vars

(* The group refine is about to take is out of bounds or in use. *)
RefineStops(p) ==
  /\ CanRefine(p)
  /\ size_ # capacity
  /\ first_free_sibling_group_ < sg_capacity_
        => ~is_free(first_free_sibling_group_)
  /\ Stop("refine: first free sg is not free")

RefineTakes(p) ==
  LET s == first_free_sibling_group_
  IN  /\ CanRefine(p)
      /\ size_ # capacity
      /\ s < sg_capacity_
      /\ is_free(s)
      /\ size_' = size_ + NC
      /\ \E next \in s + 1 .. sg_capacity_ :
            NextFree(s, next) /\ first_free_sibling_group_' = next
      /\ parents_' = [parents_ EXCEPT ![s] = p]
      /\ first_children_' = [first_children_ EXCEPT ![p] = first_node(s)]
      /\ UNCHANGED failed

refine(p) == RefineFull(p) \/ RefineStops(p) \/ RefineTakes(p)

(* Mutant of CanCoarsen: the precondition is dropped. *)
CanCoarsenAnything(p) ==
  failed = "no" /\ ~is_free(sibling_group(p)) /\ ~is_leaf(p)

(* The children of p are leaves: a precondition the documentation states and *)
(* the code does not assert.                                                *)
CanCoarsen(p) ==
  /\ failed = "no"
  /\ ~is_free(sibling_group(p))
  /\ ~is_leaf(p)
  /\ \A c \in children(p) : is_leaf(c)

(* Mutants of FirstFreeAfterCoarsen: the comparison is the wrong way around; *)
(* the first node of the group is stored in place of the group.             *)
FirstFreeRaised(cg) ==
  IF cg > first_free_sibling_group_ THEN cg ELSE first_free_sibling_group_
FirstFreeAsNode(cg) ==
  IF cg < first_free_sibling_group_
  THEN first_node(cg) ELSE first_free_sibling_group_

FirstFreeAfterCoarsen(cg) ==
  IF cg < first_free_sibling_group_ THEN cg ELSE first_free_sibling_group_

(* Mutant of coarsen: the number of nodes is not updated. *)
CoarsenKeepsSize(p) ==
  LET cg == children_group(p)
  IN  /\ CanCoarsen(p)
      /\ first_free_sibling_group_' = FirstFreeAfterCoarsen(cg)
      /\ parents_' = [parents_ EXCEPT ![cg] = None]
      /\ first_children_' = [first_children_ EXCEPT ![p] = None]
      /\ UNCHANGED <<size_, failed>>

coarsen(p) ==
  LET cg == children_group(p)
  IN  /\ CanCoarsen(p)
      /\ size_' = size_ - NC
      /\ first_free_sibling_group_' = FirstFreeAfterCoarsen(cg)
      /\ parents_' = [parents_ EXCEPT ![cg] = None]
      /\ first_children_' = [first_children_ EXCEPT ![p] = None]
      /\ UNCHANGED failed

(***************************************************************************)
(* swap(a, b) exchanges the memory of two sibling groups.                  *)
(***************************************************************************)

(* Mutant of Peer: the nodes are paired in opposite order. *)
PeerMirrored(a, b, n) ==
  IF n \in nodes(a) THEN first_node(b) + NC - 1 - (n - first_node(a))
                    ELSE first_node(a) + NC - 1 - (n - first_node(b))

(* The node of the other group at the same position. *)
Peer(a, b, n) ==
  IF n \in nodes(a) THEN n - first_node(a) + first_node(b)
                    ELSE n - first_node(b) + first_node(a)

(* Step 1, children: the nodes exchange their first children ... *)
SwappedChildren(a, b) ==
  [n \in Node |-> IF n \in nodes(a) \cup nodes(b)
                  THEN first_children_[Peer(a, b, n)]
                  ELSE first_children_[n]]

(* ... and update_cg_parent makes their children groups point back. *)
(* Mutant of ChildrenReparented: they do not. *)
ChildrenNotReparented(a, b) == parents_

ChildrenReparented(a, b) ==
  LET fc == SwappedChildren(a, b)
      owners(s) == {n \in nodes(a) \cup nodes(b) :
                      fc[n] # None /\ sibling_group(fc[n]) = s}
  IN  [s \in SiblingGroup |-> IF owners(s) = {} THEN parents_[s]
                              ELSE CHOOSE n \in owners(s) : TRUE]

(* Step 2, parents: update_parent_sibling_e(p_a, b), then (p_b, a); the *)
(* parents are read after step 1, for a may be a parent of b.           *)
SetFirstChild(fc, n, s) ==
  IF n = None THEN fc ELSE [fc EXCEPT ![n] = first_node(s)]

SwapEdges(a, b) ==
  LET pa == ChildrenReparented(a, b)
  IN  /\ first_children_' =
            SetFirstChild(SetFirstChild(SwappedChildren(a, b), pa[a], b),
                          pa[b], a)
      /\ parents_' = [pa EXCEPT ![a] = pa[b], ![b] = pa[a]]

(* Step 3: the first free group moves if it was swapped with one in use. *)
MovedFirstFree(i, j, free, first) ==
  IF free /\ j = first THEN i ELSE first

swap(a, b) ==
  /\ failed = "no"
  /\ a # 0 /\ b # 0 /\ a # b
  /\ \/ is_free(a) /\ is_free(b) /\ UNCHANGED vars
     \/ /\ ~(is_free(a) /\ is_free(b))
        /\ SwapEdges(a, b)
        /\ first_free_sibling_group_' =
              MovedFirstFree(b, a, parents_'[b] = None,
                MovedFirstFree(a, b, parents_'[a] = None,
                  first_free_sibling_group_))
        /\ UNCHANGED <<size_, failed>>

(* The query is_compact() and the assertion in it: its answer says whether a *)
(* group below the end of the used ones is free.  operator()() calls it.     *)
IsCompact == first_free_sibling_group_ = sibling_group(size_)
NoFreeGroups == \A s \in 0 .. sibling_group(size_) - 1 : ~is_free(s)

is_compact ==
  /\ failed = "no"
  /\ IF IsCompact <=> NoFreeGroups
     THEN UNCHANGED vars
     ELSE Stop("is_compact: first free sibling group is wrong")

(* is(t): the check that a tree is sorted.  The loop over the children groups *)
(* returns from its first turn, with the answer for the first group.          *)
IsSortedQuery ==
  LET is[s \in SiblingGroup] ==
        LET with_children == {n \in nodes(s) : ~is_leaf(n)}
            n == CHOOSE m \in with_children :
                   \A o \in with_children : m <= o
        IN  with_children # {} => children_group(n) = s + 1 /\ is[s + 1]
  IN  is[0]

-----------------------------------------------------------------------------
(* swap's callers in the library, dfs_sort and the storage's own tests, leave *)
(* first_free_sibling_group_ right only together with what they do after it   *)
(* when one group is free; on its own swap is used on groups in use.          *)
Next ==
  \/ \E p \in Node : refine(p) \/ coarsen(p)
  \/ \E a, b \in sibling_groups : swap(a, b)
  \/ is_compact

Spec == Init /\ [][Next]_vars

(* swap as the class declares it: public, on any two groups but the root's. *)
NextPublic ==
  \/ \E p \in Node : refine(p) \/ coarsen(p)
  \/ \E a, b \in SiblingGroup : swap(a, b)
  \/ is_compact

SpecPublic == Init /\ [][NextPublic]_vars

-----------------------------------------------------------------------------
(* Properties. *)

(* Every variable has its type: sizes and indices stay within the capacity. *)
TypeOK ==
  /\ parents_ \in [SiblingGroup -> Node \cup {None}]
  /\ first_children_ \in [Node -> Node \cup {None}]
  /\ size_ \in 1 .. capacity
  /\ first_free_sibling_group_ \in 1 .. sg_capacity_
  /\ failed \in {"no", "refine: first free sg is not free",
                 "is_compact: first free sibling group is wrong"}

(* The two arrays describe one graph: a group's parent has that group as its *)
(* children, a node's first child begins a group that has the node as its    *)
(* parent, and the root has no parent (swap temporarily violates this).      *)
EdgesAgree ==
  /\ parents_[0] = None
  /\ \A s \in SiblingGroup \ {0} :
        parents_[s] # None => first_children_[parents_[s]] = first_node(s)
  /\ \A n \in Node :
        ~is_leaf(n) => \E s \in SiblingGroup \ {0} :
                          /\ first_children_[n] = first_node(s)
                          /\ parents_[s] = n

(* The nodes of a free group are leaves, so the children refine takes from a *)
(* free group are leaves too, and no edge leads out of free memory.          *)
FreeNodesAreLeaves ==
  \A n \in Node : is_free(sibling_group(n)) => is_leaf(n)

(* size() counts the nodes of the groups in use, through every refine, *)
(* coarsen and swap: it is what refine compares with the capacity.     *)
SizeCountsNodes == size_ = no_nodes(Cardinality(sibling_groups))

(* Every group in use hangs from the root: no set of groups other than the  *)
(* root's contains the group of the parent of each of its members, so there *)
(* is neither a cycle nor a subtree cut off.                                *)
NoOrphans ==
  \A X \in SUBSET (sibling_groups \ {0}) :
    X # {} => \E s \in X : sibling_group(parents_[s]) \notin X

(* No free group below first_free_sibling_group_: what                    *)
(* set_first_free_sibling_group asserts ("found free siblings in range"), *)
(* kept by refine's search and by coarsen's comparison.                   *)
NoFreeBelowFirst ==
  \A s \in 0 .. first_free_sibling_group_ - 1 : ~is_free(s)

(* No step lets a free group slip below first_free_sibling_group_ when there   *)
(* is none, but a swap of a group in use with a free one.                     *)
FirstFreeKept == [][NoFreeBelowFirst /\ Next => NoFreeBelowFirst']_vars

-----------------------------------------------------------------------------
(* What the source says and the code does not keep (violation run). *)

(* The assertion of refine: the group it takes is free while the tree has *)
(* room.                                                                  *)
RefineAssertHolds == failed # "refine: first free sg is not free"

=============================================================================
