----------------------------- MODULE MCSession -----------------------------
(* A grid and a level set that depends on it, on one or two ranks. *)
EXTENDS Session

MCDependency == ("grid" :> NoGroup) @@ ("level_set" :> "grid")
=============================================================================
