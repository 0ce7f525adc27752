---------------------------- MODULE StackVectors ----------------------------
(***************************************************************************)
(* The operations of stack::vector (utility/stack_vector.hpp) that the     *)
(* library uses: a vector is its storage, slot by slot, and its size.      *)
(* A slot without an object in it is Raw: the storage of a type with a     *)
(* destructor.  erase is called up to the end only (actions on ranges      *)
(* shift what they keep to the front first); emplace_back on a full vector *)
(* is for its callers to avoid, its assertion lets one element too many    *)
(* pass.                                                                   *)
(***************************************************************************)
EXTENDS Integers, SequencesExt

CONSTANTS Capacity,  \* elements that fit
          Raw        \* a slot without an object

Slot == 0 .. Capacity - 1

empty_vector == [slots |-> [k \in Slot |-> Raw], size |-> 0]

elements(v) == [k \in 1 .. v.size |-> v.slots[k - 1]]

emplace_back(v, x) == [slots |-> [v.slots EXCEPT ![v.size] = x], size |-> v.size + 1]

(* Constructs copies of the elements of a range at the end. *)
range_assign(v, range) == FoldLeft(emplace_back, v, range)

(* Erases the elements from the slot first to the end. *)
erase(v, first) ==
  [slots |-> [k \in Slot |-> IF k \in first .. v.size - 1 THEN Raw ELSE v.slots[k]],
   size |-> first]

clear(v) == erase(v, 0)

assign(v, other) == range_assign(clear(v), elements(other))

(* action::remove_if, of the elements equal to x: what is kept moves to the *)
(* front in its order, the rest is erased.                                  *)
remove_if(v, x) ==
  LET kept == {k \in 0 .. v.size - 1 : v.slots[k] # x}
      from(n) == CHOOSE k \in kept : Cardinality({l \in kept : l < k}) = n
      moved == [v EXCEPT !.slots = [n \in Slot |->
                  IF n < Cardinality(kept) THEN v.slots[from(n)] ELSE @[n]]]
  IN  erase(moved, Cardinality(kept))

=============================================================================
