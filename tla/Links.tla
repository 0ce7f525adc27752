-------------------------------- MODULE Links --------------------------------
(***************************************************************************)
(* What the store of neighbours promises: an undirected graph without      *)
(* loops on the nodes of a solver grid, where swap exchanges the names of  *)
(* two nodes and no assertion fails.                                       *)
(***************************************************************************)
EXTENDS Integers

CONSTANT Node

VARIABLES
  links,   \* how often the second node is listed as neighbour of the first
  failed   \* has an assertion stopped the program?

NoLinks == [p \in Node \X Node |-> 0]

Init == links = NoLinks /\ failed = FALSE

Between(n, m) == {<<n, m>>, <<m, n>>}

Push(n, m) ==
  /\ links[<<n, m>>] = 0
  /\ links' = [p \in Node \X Node |-> IF p \in Between(n, m) THEN 1 ELSE links[p]]

Pop(n, m) ==
  /\ links[<<n, m>>] = 1
  /\ links' = [p \in Node \X Node |-> IF p \in Between(n, m) THEN 0 ELSE links[p]]

PopAll(n) ==
  links' = [p \in Node \X Node |-> IF n \in {p[1], p[2]} THEN 0 ELSE links[p]]

Swap(i, j) ==
  LET renamed(n) == IF n = i THEN j ELSE IF n = j THEN i ELSE n
  IN  links' = [p \in Node \X Node |-> links[<<renamed(p[1]), renamed(p[2])>>]]

Next ==
  /\ UNCHANGED failed
  /\ \E n, m \in Node :
       \/ n # m /\ (Push(n, m) \/ Pop(n, m))
       \/ PopAll(n)
       \/ Swap(n, m)

Spec == Init /\ [][Next]_<<links, failed>>

=============================================================================
