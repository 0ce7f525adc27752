----------------------------- MODULE DurableTree -----------------------------
(***************************************************************************)
(* What writing a tree promises: a tree that can be saved, and a program   *)
(* that, started again, goes on with the tree saved last.                  *)
(***************************************************************************)
EXTENDS AbstractTree

VARIABLE saved  \* <<the positions refined when the tree was saved>>, or <<>>

Save == saved' = <<refined>> /\ UNCHANGED refined

Restart ==
  /\ refined' = IF saved = <<>> THEN {} ELSE saved[1]
  /\ UNCHANGED saved

DurableSpec ==
  /\ Init /\ saved = <<>>
  /\ [][(Next /\ UNCHANGED saved) \/ Save \/ Restart]_<<refined, saved>>

=============================================================================
