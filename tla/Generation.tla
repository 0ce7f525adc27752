----------------------------- MODULE Generation -----------------------------
(***************************************************************************)
(* The generation of a uniform grid (grid/generation): round by round the  *)
(* leaves at the next level are refined, until a predicate, which looks at *)
(* the number of the round, says no for all of them.                       *)
(*                                                                         *)
(* Nodes of a round are visited in the order of their indices, here in     *)
(* another fixed order: no property tells the two apart.  Refining a node  *)
(* has no coarser neighbour to refine first, for the rounds before went    *)
(* over all of those, unless the tree is full.  A tree or an hc::single    *)
(* that is full returns no children; an hc::multi asks for the nodes of    *)
(* the group that it did not get, and an assertion ends the program.       *)
(***************************************************************************)
EXTENDS Relations

CONSTANTS
  MaxRefined,    \* how many nodes of the tree can have children
  MaxLevel       \* target levels asked for

VARIABLES
  refined,   \* the nodes with children
  loop       \* the call in progress, or the last one

vars == <<refined, loop>>

Tree == INSTANCE AbstractTree WITH ChildPos <- child_pos

(* rng(): the leaves at the level of the round, which is counted up. *)
NodesAt(level) == {n \in Tree!Leaves : node_level(n) = level}

Round(call) ==
  [call EXCEPT !.level = @ + 1, !.nodes = NodesAt(call.level), !.done = TRUE]

uniform(grid, target_level) ==
  /\ loop.ended
  /\ loop' = Round([ended |-> FALSE, failed |-> FALSE, grid |-> grid,
                    target_level |-> target_level, level |-> 0,
                    nodes |-> {}, done |-> TRUE, from |-> refined])
  /\ UNCHANGED refined

(* A bug: the nodes at the target level are refined. *)
PredicateOneMore == loop.level # loop.target_level + 2

predicate == loop.level # loop.target_level + 1

full == Cardinality(refined) >= MaxRefined

Visit ==
  /\ ~loop.ended /\ ~loop.failed
  /\ loop.nodes # {}
  /\ LET n == CHOOSE n \in loop.nodes : TRUE
     IN  /\ loop' = [loop EXCEPT !.nodes = @ \ {n}, !.done = @ /\ ~predicate,
                                !.failed = predicate /\ full /\ loop.grid = "multi"]
         /\ \/ predicate /\ Tree!Refine(n)
            \/ predicate /\ full /\ UNCHANGED refined
            \/ ~predicate /\ UNCHANGED refined

EndRound ==
  /\ ~loop.ended /\ ~loop.failed
  /\ loop.nodes = {}
  /\ loop' = IF loop.done THEN [loop EXCEPT !.ended = TRUE] ELSE Round(loop)
  /\ UNCHANGED refined

Init ==
  /\ Tree!Init
  /\ loop = [ended |-> TRUE, failed |-> FALSE, grid |-> "single", target_level |-> 0,
             level |-> 1, nodes |-> {}, done |-> TRUE, from |-> {}]

(* The program has ended. *)
Ended == loop.failed /\ UNCHANGED vars

Next ==
  \/ \E grid \in {"single", "multi"}, target_level \in 0 .. MaxLevel :
       uniform(grid, target_level)
  \/ Visit
  \/ EndRound
  \/ Ended

-----------------------------------------------------------------------------
Levels == {node_level(n) : n \in Tree!Leaves}

(* A full tree whose levels are filled from the top. *)
Filled ==
  /\ Cardinality(refined) = MaxRefined
  /\ Levels \subseteq 0 .. loop.target_level
  /\ \A k, l \in Levels : k <= l + 1

(* "Refines the grid until all the leaf nodes are at the target level": so it  *)
(* does from the root, and a multi grid does nothing less: it ends the program *)
(* in a full tree, while leaves above that level are left.  A tree or a single *)
(* grid that is full has its levels filled from the top, and the loop ends all *)
(* the same, after a round per level.  A grid that is refined already is left  *)
(* as it is: the first round finds no leaf.                                    *)
GeneratesLevels ==
  /\ loop.level <= loop.target_level + 1
  /\ loop.ended /\ loop.from # {} => refined = loop.from
  /\ loop.ended /\ loop.from = {} =>
       \/ Levels = {loop.target_level}
       \/ loop.grid = "single" /\ Filled
  /\ loop.failed =>
       loop.grid = "multi" /\ Filled /\ \E l \in Levels : l < loop.target_level

=============================================================================
