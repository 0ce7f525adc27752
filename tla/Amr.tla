-------------------------------- MODULE Amr --------------------------------
(***************************************************************************)
(* Adaptive mesh refinement (amr/state.hpp): an action per node of the     *)
(* target is chosen by a criterion (amr/criterion/level_at_distance.hpp),  *)
(* the actions are changed step by step until they keep neighbours within  *)
(* one level, and then they are applied.                                   *)
(*                                                                         *)
(* The target is the grid, whose nodes are the leaves of the tree          *)
(* (grid/hc/amr/multi.hpp), or a level set with cells in some nodes of it  *)
(* (solver/level_set/amr.hpp).  A node is its path; nodes are visited in   *)
(* the order of their indices, which is the depth-first one after a sort,  *)
(* and here also its reverse.  Distances are ranks: how many of the        *)
(* criterion's distances a node is beyond.                                 *)
(***************************************************************************)
EXTENDS Relations, SequencesExt

CONSTANTS
  MaxRefined,   \* how many nodes of the tree can have children
  Targets,      \* the targets to adapt: "grid", "level_set"
  Levels        \* target levels of the criterion

ASSUME AmrAssumption ==
  /\ MaxRefined \in Nat /\ Targets \subseteq {"grid", "level_set"}
  /\ Levels \subseteq Nat /\ IsFiniteSet(Levels)

VARIABLES
  target,    \* what is adapted
  refined,   \* the nodes of the tree with children
  cells,     \* the nodes of the target
  order,     \* how indices relate to paths: "sorted" or "reversed"
  actions,   \* nodes_: its nodes, those to refine, those to coarsen
  rounds,    \* history: the steps that the enforcement took
  phase      \* where adapt stands: "idle", "enforce", "coarsen", "refine", "failed"

vars == <<target, refined, cells, order, actions, rounds, phase>>

Bal == INSTANCE Balanced WITH calls <- <<>>, before <- {}

Leaves(nodes) ==
  {n \in {<<>>} \cup {Append(r, p) : r \in nodes, p \in child_pos} : n \notin nodes}
parent(n) == Front(n)
level(n) == node_level(n)

-----------------------------------------------------------------------------
(* The criterion: the most distant step has the lowest target level. *)

combine(a, b) ==
  IF "refine" \in {a, b} THEN "refine"
  ELSE IF {a, b} = {"coarsen"} THEN "coarsen" ELSE "none"

Distance == 0 .. Cardinality(Levels)
Step(i) == [distance |-> i,
             target_level |-> CHOOSE l \in Levels : Cardinality({k \in Levels : k >= l}) = i]

level_till_distance(step, l, d) ==
  IF d >= step.distance \/ l > step.target_level THEN "coarsen"
  ELSE IF l < step.target_level THEN "refine" ELSE "none"

criterion(l, d) ==
  FoldLeft(combine, "coarsen",
           [i \in 1 .. Cardinality(Levels) |-> level_till_distance(Step(i), l, d)])

-----------------------------------------------------------------------------
(* The target. *)

siblings(n) ==
  IF n = <<>> THEN {n} ELSE {m \in actions.nodes : m # <<>> /\ parent(m) = parent(n)}

neighbors(n) ==
  actions.nodes \cap IF target = "grid" THEN Bal!node_neighbors(n)
                     ELSE Bal!node_neighbors_in(cells, n)

(* Who is next to whom. *)
Adjacent == UNION {{n} \X neighbors(n) : n \in actions.nodes}

(* Nodes in the order of their indices. *)
Before(a, b) ==
  IsPrefix(a, b) \/ \E k \in DOMAIN a \cap DOMAIN b :
                       SubSeq(a, 1, k - 1) = SubSeq(b, 1, k - 1) /\ a[k] < b[k]
Precedes(a, b) ==
  a # b /\ IF order = "sorted" THEN Before(a, b) ELSE Before(b, a)
Ordered(nodes) ==
  [k \in 1 .. Cardinality(nodes) |->
     CHOOSE n \in nodes : Cardinality({m \in nodes : Precedes(m, n)}) = k - 1]
First(nodes) == CHOOSE n \in nodes : \A m \in nodes : ~Precedes(m, n)

NoActions == [nodes |-> {}, refine |-> {}, coarsen |-> {}]

-----------------------------------------------------------------------------
compute_actions ==
  /\ phase = "idle"
  /\ LET able(action) == {n \in cells : \E d \in Distance : criterion(level(n), d) = action}
         refinable == able("refine")
         coarsenable == able("coarsen")
         indifferent == able("none")
     IN  \E refine \in SUBSET refinable :
         \E coarsen \in SUBSET (coarsenable \ refine) :
           /\ cells \ (refine \cup coarsen) \subseteq indifferent
           /\ actions' = [nodes |-> cells, refine |-> refine, coarsen |-> coarsen]
  /\ \E o \in {"sorted", "reversed"} : order' = o
  /\ rounds' = 0
  /\ phase' = "enforce"
  /\ UNCHANGED <<target, refined, cells>>

(* Bug: a sibling may be missing because it is refined. *)
KeepMarkedGroups(acts) ==
  [acts EXCEPT !.coarsen = {n \in @ : n # <<>> /\ siblings(n) \subseteq @}]

(* Step 1: a group is coarsened as a whole or not at all. *)
KeepWholeGroups(acts) ==
  [acts EXCEPT !.coarsen = {n \in @ : /\ Cardinality(siblings(n)) = no_children(Nd)
                                      /\ siblings(n) \subseteq @}]

(* Bug: finer neighbours are not looked at. *)
KeepCoarsenableSameLevel(adjacent, acts, n) ==
  IF /\ n \in acts.coarsen
     /\ \E e \in adjacent :
          e[1] \in siblings(n) /\ level(e[2]) = level(n) /\ e[2] \in acts.refine
  THEN [acts EXCEPT !.coarsen = @ \ siblings(n)] ELSE acts

(* Step 2: not next to a node that gets, or stays, finer than its parent's   *)
(* children are.                                                             *)
KeepCoarsenable(adjacent, acts, n) ==
  IF /\ n \in acts.coarsen
     /\ \E e \in adjacent :
          /\ e[1] \in siblings(n)
          /\ \/ level(e[2]) = level(n) /\ e[2] \in acts.refine
             \/ level(e[2]) = level(n) + 1 /\ e[2] \notin acts.coarsen
  THEN [acts EXCEPT !.coarsen = @ \ siblings(n)] ELSE acts

KeepCoarsenableGroups(adjacent, acts, nodes) ==
  LET after[k \in 0 .. Len(nodes)] ==
        IF k = 0 THEN acts ELSE KeepCoarsenable(adjacent, after[k - 1], nodes[k])
  IN  after[Len(nodes)]

(* Bug: the coarser neighbours are left to balanced_refine. *)
RefineCoarserNot(adjacent, acts, n) == acts

(* Step 3: the coarser neighbours of a refined node, with their siblings. *)
RefineCoarser(adjacent, acts, n) ==
  LET coarser == {m \in acts.nodes : <<n, m>> \in adjacent /\ level(m) < level(n)}
      more == UNION {siblings(m) : m \in coarser \ acts.refine}
  IN  IF n \in acts.refine
      THEN [acts EXCEPT !.refine = @ \cup more, !.coarsen = @ \ more] ELSE acts

RefineAllCoarser(adjacent, acts, nodes) ==
  LET after[k \in 0 .. Len(nodes)] ==
        IF k = 0 THEN acts ELSE RefineCoarser(adjacent, after[k - 1], nodes[k])
  IN  after[Len(nodes)]

(* Bug: it is not asked whether a neighbour is marked already. *)
ChangedOrMarked(before, after) ==
  \/ before # after
  \/ \E e \in Adjacent : e[1] \in after.refine /\ level(e[2]) < level(e[1])

Changed(before, after) == before # after

enforce_2_to_1_ratio_step ==
  /\ phase = "enforce"
  /\ LET nodes == Ordered(actions.nodes)
         adjacent == Adjacent
         one == KeepWholeGroups(actions)
         two == KeepCoarsenableGroups(adjacent, one, nodes)
         three == RefineAllCoarser(adjacent, two, nodes)
     IN  /\ actions' = three
         /\ phase' = IF Changed(actions, three) THEN "enforce" ELSE "coarsen"
  /\ rounds' = rounds + 1
  /\ UNCHANGED <<target, refined, cells, order>>

-----------------------------------------------------------------------------
(* apply: first all groups to coarsen, then all nodes to refine. *)

(* The grid coarsens the parent; the level set pushes it, pops the children, *)
(* and multi::remove coarsens the tree if the children are leaves and the    *)
(* balance allows.                                                           *)
ApplyCoarsen ==
  /\ phase = "coarsen"
  /\ actions.coarsen # {}
  /\ LET n == First(actions.coarsen)
         p == parent(n)
         group == siblings(n)
     IN  /\ actions' = [actions EXCEPT !.coarsen = @ \ group]
         /\ refined' = IF target = "grid" \/ Bal!CanCoarsen(p) THEN refined \ {p} ELSE refined
         /\ cells' = (cells \ group) \cup {p}
  /\ UNCHANGED <<target, order, rounds, phase>>

ApplyCoarsened ==
  /\ phase = "coarsen"
  /\ actions.coarsen = {}
  /\ phase' = "refine"
  /\ UNCHANGED <<target, refined, cells, order, actions, rounds>>

(* What balanced_refine refines for a leaf: the smallest set of leaves that   *)
(* has the coarser neighbours of its members; in a tree without room for all, *)
(* a coarser neighbour before the node that asks for it.                      *)
Coarser(n) == {m \in Bal!Call(n).pending : Bal!is_leaf(m)}

Needed(n) ==
  LET leaves == Leaves(refined)
      coarser == UNION {{m} \X Coarser(m) : m \in leaves}
      closed == {S \in SUBSET leaves :
                   n \in S /\ \A e \in coarser : e[1] \in S => e[2] \in S}
  IN  {m \in leaves : \A S \in closed : m \in S}

Refinements(n) ==
  LET needed == Needed(n)
      before == UNION {{q} \X Coarser(q) : q \in needed}
      room == MaxRefined - Cardinality(refined)
  IN  IF Cardinality(needed) <= room THEN {needed}
      ELSE {nodes \in kSubset(room, needed) :
              \A e \in before : e[1] \in nodes => e[2] \in nodes}

(* The visited node loses its mark, which stands for the loop's position.  A *)
(* tree without room for the node ends the program: multi::refine, called    *)
(* for both targets, asks for the nodes of the group it did not get.         *)
ApplyRefine ==
  /\ phase = "refine"
  /\ actions.refine # {}
  /\ LET n == First(actions.refine)
     IN  \E nodes \in IF n \in refined THEN {{}} ELSE Refinements(n) :
           /\ refined' = refined \cup nodes
           /\ cells' = IF target = "grid" THEN Leaves(refined')
                       ELSE (cells \ {n}) \cup {Append(n, p) : p \in child_pos}
           /\ actions' = [actions EXCEPT !.refine = @ \ {n}]
           /\ phase' = IF n \in refined' THEN phase ELSE "failed"
  /\ UNCHANGED <<target, order, rounds>>

ApplyRefined ==
  /\ phase = "refine"
  /\ actions.refine = {}
  /\ actions' = NoActions
  /\ phase' = "idle"
  /\ rounds' = 0
  /\ UNCHANGED <<target, refined, cells, order>>

-----------------------------------------------------------------------------
Init ==
  /\ target \in Targets
  /\ refined = {}
  /\ cells = {<<>>}
  /\ order = "sorted"
  /\ actions = NoActions
  /\ rounds = 0
  /\ phase = "idle"

Adapt ==
  \/ enforce_2_to_1_ratio_step
  \/ ApplyCoarsen
  \/ ApplyCoarsened
  \/ ApplyRefine
  \/ ApplyRefined

(* The program has ended, with some of the leaves refined. *)
Ended == phase = "failed" /\ UNCHANGED vars

Next == compute_actions \/ Adapt \/ Ended

Spec == Init /\ [][Next]_vars

-----------------------------------------------------------------------------
(* Properties. *)

(* The nodes of the target tile the domain through every step of an adapt:   *)
(* each leaf of the tree lies in exactly one.                                *)
CellsTile ==
  phase # "failed" =>
    /\ \A n \in Leaves(refined) : Cardinality({c \in cells : IsPrefix(c, n)}) = 1
    /\ cells \subseteq Leaves(refined) \cup refined

(* The enforcement leaves nothing to balanced_refine: what it refines in a    *)
(* grid was marked, node by node, also in the call that ends the program.     *)
RefinesTheMarked ==
  [][phase = "refine" /\ target = "grid" =>
       refined' \ refined \subseteq actions.refine]_vars

(* The enforcement ends: a round per level to spread the refinement, and one *)
(* that changes nothing.                                                     *)
RoundsBounded ==
  rounds <= Cardinality({level(n) : n \in actions.nodes}) + 1

(* The nodes of the target that touch differ by one level at most, and so do  *)
(* the leaves of the tree under it: amr/state.hpp:190, "Enforces 2:1 across    *)
(* all neighbor directions".  The enforcement does not see a cell of a level   *)
(* set that has children in the tree (node_neighbors.hpp:65), and nothing is   *)
(* promised next to it.                                                        *)
TargetTwoToOne ==
  phase = "idle" =>
    /\ Bal!Balanced(refined)
    /\ \A a, b \in cells : level(a) > level(b) + 1 /\ Bal!Touch(a, b) => b \in refined

=============================================================================
