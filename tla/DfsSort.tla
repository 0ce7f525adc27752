------------------------------- MODULE DfsSort -------------------------------
(***************************************************************************)
(* dfs_sort (include/hm3/tree/algorithm/dfs_sort.hpp): the sibling groups  *)
(* are moved, by swaps, to the order in which a depth-first traversal      *)
(* meets them, and the data that the client keeps per node moves along.    *)
(*                                                                         *)
(* sort_impl is recursive.  Its calls in progress are a stack of frames: a *)
(* group and the position of the child at which its loop goes on.  Every   *)
(* call starts with `should' equal to the caller's, and the caller takes   *)
(* over the value returned, so that the sort keeps one value of it.        *)
(* The tree does nothing else during a sort: the call is synchronous.      *)
(***************************************************************************)
EXTENDS TreeRefinement

VARIABLES
  data,      \* data[n]: what the client stored for node n: the path n had
  sorting,   \* a sort is in progress
  stack,     \* calls of sort_impl in progress, the innermost last
  should     \* the group at which the next children in order belong

sortVars == <<data, sorting, stack, should>>
allVars == <<vars, sortVars>>

SortInit ==
  /\ Init
  /\ data = [n \in Node |-> <<>>]
  /\ sorting = FALSE
  /\ stack = <<>>
  /\ should = 0

-----------------------------------------------------------------------------
(* The client: it refines and stores the data of the children, or coarsens. *)

Refine(p) ==
  /\ ~sorting
  /\ refine(p)
  /\ data' = [n \in Node |->
                IF first_children_'[p] # None
                     /\ n \in first_children_'[p] .. first_children_'[p] + NC - 1
                THEN Append(Path[p], position_in_parent(n)) ELSE data[n]]
  /\ UNCHANGED <<sorting, stack, should>>

Coarsen(p) ==
  /\ ~sorting
  /\ coarsen(p)
  /\ UNCHANGED sortVars

Query ==
  /\ ~sorting
  /\ is_compact
  /\ UNCHANGED sortVars

-----------------------------------------------------------------------------
(* The sort. *)

Frame == [group : SiblingGroup, next : 0 .. NC]

(* with_children(): the positions still to visit of nodes with children. *)
Remaining(frame) ==
  {k \in frame.next .. Cardinality(nodes(frame.group)) - 1 :
     ~is_leaf(first_node(frame.group) + k)}

StartSort ==
  /\ failed = "no" /\ ~sorting
  /\ sorting' = TRUE
  /\ stack' = <<[group |-> 0, next |-> 0]>>
  /\ should' = 0
  /\ UNCHANGED <<vars, data>>

(* Mutant of SwappedData: the data stays where it is. *)
UnswappedData(a, b) == data

(* swap_data: the data of the two groups is exchanged node by node. *)
SwappedData(a, b) ==
  [n \in Node |-> IF n \in nodes(a) \cup nodes(b)
                  THEN data[Peer(a, b, n)] ELSE data[n]]

MoveData(a, b) == data' = SwappedData(a, b)

(* One turn of the loop: the children group c_sg of the next node that has *)
(* children goes to its place, and sort_impl is called for it.             *)
SortChildren ==
  LET top == stack[Len(stack)]
      k == CHOOSE i \in Remaining(top) : \A j \in Remaining(top) : i <= j
      c_sg == children_group(first_node(top.group) + k)
      place == should + 1
  IN  /\ failed = "no" /\ sorting /\ stack # <<>>
      /\ Remaining(top) # {}
      /\ should' = place
      /\ stack' = Append([stack EXCEPT ![Len(stack)] =
                            [group |-> top.group, next |-> k + 1]],
                         [group |-> place, next |-> 0])
      /\ \/ c_sg # place /\ swap(c_sg, place) /\ MoveData(c_sg, place)
         \/ c_sg = place /\ UNCHANGED <<vars, data>>
      /\ UNCHANGED sorting

(* Mutants of SortReturn: the caller goes on from the group of the call and *)
(* not from the value returned; every caller returns too, as in is(); the   *)
(* call is not left.                                                        *)
SortReturnIgnored ==
  /\ failed = "no" /\ sorting /\ stack # <<>>
  /\ Remaining(stack[Len(stack)]) = {}
  /\ stack' = SubSeq(stack, 1, Len(stack) - 1)
  /\ should' = stack[Len(stack)].group
  /\ UNCHANGED <<vars, data, sorting>>
SortReturnFromAll ==
  /\ failed = "no" /\ sorting /\ stack # <<>>
  /\ Remaining(stack[Len(stack)]) = {}
  /\ stack' = <<>>
  /\ UNCHANGED <<vars, data, sorting, should>>
SortReturnNever ==
  /\ failed = "no" /\ sorting /\ stack # <<>>
  /\ Remaining(stack[Len(stack)]) = {}
  /\ UNCHANGED allVars

(* The loop of the innermost call is over: it returns should. *)
SortReturn ==
  /\ failed = "no" /\ sorting /\ stack # <<>>
  /\ Remaining(stack[Len(stack)]) = {}
  /\ stack' = SubSeq(stack, 1, Len(stack) - 1)
  /\ UNCHANGED <<vars, data, sorting, should>>

(* set_first_free_sibling_group(sibling_group(size())), its two assertions, *)
(* and the assertion that the tree is compact now.                          *)
FinishAsserts(s) ==
  /\ s = sg_capacity_ \/ is_free(s)
  /\ \A i \in 0 .. s - 1 : ~is_free(i)

FinishSort ==
  LET s == sibling_group(size_)
  IN  /\ failed = "no" /\ sorting /\ stack = <<>>
      /\ IF FinishAsserts(s)
         THEN /\ first_free_sibling_group_' = s
              /\ UNCHANGED <<parents_, first_children_, size_, failed>>
         ELSE Stop("sort: invalid first free sibling group")
      /\ sorting' = FALSE
      /\ UNCHANGED <<data, stack, should>>

SortNext ==
  \/ \E p \in Node : Refine(p) \/ Coarsen(p)
  \/ Query
  \/ StartSort \/ SortChildren \/ SortReturn \/ FinishSort

(* The thread that sorts runs the call to its end. *)
SortFairness ==
  WF_allVars(SortChildren) /\ WF_allVars(SortReturn) /\ WF_allVars(FinishSort)

SortSpec == SortInit /\ [][SortNext]_allVars /\ SortFairness

-----------------------------------------------------------------------------
(* Properties. *)

(* p comes before q in a depth-first traversal that meets a node before its *)
(* children and siblings in Z-order.                                        *)
Before(p, q) ==
  \/ Len(p) < Len(q) /\ p = SubSeq(q, 1, Len(p))
  \/ \E i \in DOMAIN p \cap DOMAIN q :
        p[i] < q[i] /\ SubSeq(p, 1, i - 1) = SubSeq(q, 1, i - 1)

(* The groups in use come first in memory, in the order of their parents. *)
InDepthFirstOrder ==
  /\ sibling_groups = 0 .. Cardinality(sibling_groups) - 1
  /\ \A s, t \in sibling_groups \ {0} :
        s < t => Before(Path[parents_[s]], Path[parents_[t]])

(* The data follows its node through every swap of a sort, whatever group of *)
(* the free or used memory the node passes through.                          *)
DataFollowsNode == \A n \in UsedNodes : data[n] = Path[n]

(* The groups up to `should' are in their final place: in use, ordered, and no *)
(* group behind them comes before them, so that later swaps leave them alone.  *)
PlacedGroupsInOrder ==
  sorting =>
    \A s \in 0 .. should :
      /\ ~is_free(s)
      /\ \A t \in sibling_groups :
            0 < s /\ s < t => Before(Path[parents_[s]], Path[parents_[t]])

(* The documented postcondition of the sort, is_compact() && is_sorted(), *)
(* from any tree: one with holes, or with first_free_sibling_group_ stale  *)
(* after refine took the last hole.                                        *)
SortPostcondition ==
  [][FinishSort => InDepthFirstOrder' /\ IsCompact' /\ failed' = "no"]_allVars

(* A sort ends: the recursion visits every group once. *)
SortTerminates == sorting ~> ~sorting

(* The sort is invisible in the graph: only refine and coarsen change it. *)
SortImplementsAbstractTree == ImplementsAbstractTree

=============================================================================
