------------------------------ MODULE Neighbors ------------------------------
(***************************************************************************)
(* The neighbours of the nodes of a solver grid                            *)
(* (solver/state/neighbors.hpp): for each node a stack::vector with its    *)
(* neighbours, each of which lists the node in turn.  The lists are edited *)
(* in place, those of adjacent nodes and of nodes with common neighbours   *)
(* too, and checked by assertions half way through.                        *)
(***************************************************************************)
EXTENDS StackVectors

CONSTANT Node   \* nodes of the solver grid

VARIABLES
  data,    \* the neighbours of each node
  failed   \* has an assertion stopped the program?

lists == <<data, failed>>

lists_node(ns, n) == \E k \in Slot : k < ns.size /\ ns.slots[k] = n

(* A state within an operation: the lists, and whether an assertion failed. *)
has_neighbor(s, n, m) == lists_node(s.data[n], m)
asserts(s, holds) == [s EXCEPT !.failed = @ \/ ~holds]

(* The assertion within has_neighbor. *)
asserts_symmetric(s, n, m) ==
  asserts(s, has_neighbor(s, n, m) => has_neighbor(s, m, n))

push(s, n, m) ==
  [s EXCEPT !.data[n] = emplace_back(@, m), !.data[m] = emplace_back(@, n)]

pop(s, n, m) ==
  LET asserted == asserts(s, has_neighbor(s, n, m) /\ has_neighbor(s, m, n))
  IN  [asserted EXCEPT !.data[n] = remove_if(@, m),
                       !.data[m] = remove_if(@, n)]

pop_all(s, n) ==
  LET turn(r, m) == pop(r, n, m)
      popped == FoldLeft(turn, s, elements(s.data[n]))
  IN  asserts(popped, popped.data[n].size = 0)

(* A bug: every occurrence is replaced, a name given before included. *)
ReplaceEach(ns, from, to) ==
  [ns EXCEPT !.slots = [k \in Slot |->
     IF k < ns.size /\ @[k] = from THEN to ELSE @[k]]]

(* The first occurrence only. *)
replace(ns, from, to) ==
  IF ~lists_node(ns, from) THEN ns
  ELSE LET k == CHOOSE k \in Slot : /\ k < ns.size /\ ns.slots[k] = from
                                    /\ \A l \in 0 .. k - 1 : ns.slots[l] # from
       IN  [ns EXCEPT !.slots[k] = to]

(* In the lists of the neighbours of a node, whose own list may be among     *)
(* those that change.                                                        *)
update_neighbors(s, of, from, to) ==
  LET turn(r, k) ==
        LET n == r.data[of].slots[k]
            asserted == asserts(asserts_symmetric(r, n, from), has_neighbor(r, n, from))
        IN  [asserted EXCEPT !.data[n] = replace(@, from, to)]
  IN  FoldLeft(turn, s, [k \in 1 .. s.data[of].size |-> k - 1])

update_self_neighbors(ns, from, to) ==
  [ns EXCEPT !.slots = [k \in Slot |->
     IF k < ns.size /\ @[k] = to THEN from ELSE @[k]]]

(* ranges::swap: through a temporary; for a node with itself as well. *)
swap_lists(d, i, j) ==
  LET tmp == d[i]
      first == [d EXCEPT ![i] = IF i = j THEN clear(@) ELSE assign(@, d[j])]
  IN  [first EXCEPT ![j] = assign(@, tmp)]

swap(s, i, j) ==
  LET renamed == update_neighbors(update_neighbors(s, i, i, j), j, j, i)
      r == asserts_symmetric(renamed, i, j)
      selves == IF ~has_neighbor(r, i, j) THEN r.data
                ELSE [r.data EXCEPT ![i] = update_self_neighbors(@, i, j),
                                    ![j] = update_self_neighbors(@, j, i)]
  IN  [r EXCEPT !.data = swap_lists(selves, i, j)]

-----------------------------------------------------------------------------
Init == data = [n \in Node |-> empty_vector] /\ failed = FALSE

(* What an operation leaves behind, or the assertion that stopped it. *)
Leaves(s) == data' = s.data /\ failed' = s.failed

Lists == [data |-> data, failed |-> failed]

(* Its assertions are for the callers to keep: the nodes are not yet          *)
(* neighbours, and both lists have room.                                       *)
Push(n, m) ==
  /\ data[n].size # Capacity /\ data[m].size # Capacity
  /\ ~has_neighbor(Lists, n, m)
  /\ Leaves(push(Lists, n, m))

Pop(n, m) == has_neighbor(Lists, n, m) /\ Leaves(pop(Lists, n, m))
PopAll(n) == Leaves(pop_all(Lists, n))
Swap(i, j) == Leaves(swap(Lists, i, j))

Next ==
  /\ ~failed
  /\ \E n, m \in Node :
       \/ n # m /\ (Push(n, m) \/ Pop(n, m))
       \/ PopAll(n)
       \/ Swap(n, m)

Spec == Init /\ [][Next]_lists

-----------------------------------------------------------------------------
(* How often the slots of a list hold a node, those past its end included. *)
Listed(n, m) == Cardinality({k \in Slot : data[n].slots[k] = m})

Graph == INSTANCE Links WITH links <- [p \in Node \X Node |-> Listed(p[1], p[2])]

(* The lists stand for an undirected graph through every sequence of           *)
(* operations, adjacent nodes and nodes with common neighbours being swapped    *)
(* included: symmetric, without repetition, no assertion fails, and no slot     *)
(* past the end of a list keeps an element.                                     *)
ImplementsLinks == Graph!Spec

=============================================================================
