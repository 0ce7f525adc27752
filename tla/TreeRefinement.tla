--------------------------- MODULE TreeRefinement ---------------------------
(***************************************************************************)
(* The storage of module Tree implements the abstract tree: the path of a  *)
(* node is read off the parent edges, and the positions refined are those  *)
(* of the nodes in use that have children.                                 *)
(***************************************************************************)
EXTENDS Tree

(* The child positions that lead from the root to each node in use. *)
Path ==
  LET path[n \in UsedNodes] ==
        IF n = 0 THEN <<>> ELSE Append(path[parent(n)], position_in_parent(n))
  IN  path

Abstract ==
  INSTANCE AbstractTree
    WITH ChildPos <- 0 .. NC - 1,
         MaxRefined <- sg_capacity_ - 1,
         refined <- {Path[n] : n \in {m \in UsedNodes : ~is_leaf(m)}}

(* Every refine and coarsen of the storage changes the graph at the position *)
(* of its node and nowhere else, and a swap of any two groups, a refine of a *)
(* full tree or a failing assertion changes it nowhere.                      *)
ImplementsAbstractTree == Abstract!Spec

=============================================================================
