---------------------------- MODULE MCSolverGrid ----------------------------
(* Two solver grids, one with room to refine and one with a single cell. *)
EXTENDS SolverGrid

MCNoCells == <<3, 1>>

=============================================================================
