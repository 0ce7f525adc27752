---------------------------- MODULE AbstractTree ----------------------------
(***************************************************************************)
(* What the tree promises its clients, without memory: a complete          *)
(* 2^Nd-ary tree.  A position is the path of child positions that leads to *)
(* it from the root.  The state is the set of positions that have been     *)
(* refined, and every child of a refined position exists.                  *)
(*                                                                         *)
(* refine adds a leaf to the set, coarsen removes a position whose         *)
(* children are leaves, and the room is limited.  Moving nodes in memory   *)
(* (swap, dfs_sort) and refining a full tree do not show.                  *)
(***************************************************************************)
EXTENDS Naturals, FiniteSets, Sequences

CONSTANTS
  ChildPos,    \* the positions of a child within its parent
  MaxRefined   \* how many positions can be refined at the same time

VARIABLE refined

Exists(path) ==
  path = <<>> \/ SubSeq(path, 1, Len(path) - 1) \in refined

Leaves ==
  (IF refined = {} THEN {<<>>} ELSE {})
    \cup {path \in {Append(r, c) : r \in refined, c \in ChildPos} :
            path \notin refined}

-----------------------------------------------------------------------------
Init == refined = {}

Refine(path) ==
  /\ path \in Leaves
  /\ Cardinality(refined) < MaxRefined
  /\ refined' = refined \cup {path}

Coarsen(path) ==
  /\ path \in refined
  /\ \A c \in ChildPos : Append(path, c) \notin refined
  /\ refined' = refined \ {path}

Next ==
  \/ \E path \in Leaves : Refine(path)
  \/ \E path \in refined : Coarsen(path)

Spec == Init /\ [][Next]_refined

=============================================================================
