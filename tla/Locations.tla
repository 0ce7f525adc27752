----------------------------- MODULE Locations -----------------------------
(***************************************************************************)
(* The two representations of the location of a node: the path to it as    *)
(* one integer, interleaved and led by a one (tree/location/slim.hpp, with *)
(* the Morton codes of utility/bit.hpp), and as one integer per dimension  *)
(* whose bit l belongs to level l (tree/location/fast.hpp).                *)
(*                                                                         *)
(* One object of each goes through the same operations; path is what they  *)
(* stand for.  Bits of an object of type fast that no operation has set    *)
(* are indeterminate, and pop leaves bits behind.                          *)
(***************************************************************************)
EXTENDS Relations

CONSTANTS
  Width,   \* bits of the integers
  Reach    \* bound on the offsets tried, in cells along a dimension

(* Room for three levels; the masks of the Morton codes are those of integers *)
(* of 64 bits, cut to the type.                                               *)
ASSUME WidthAssumption == Width \in Nat /\ Width >= 3 * Nd /\ Width <= 64
ASSUME ReachAssumption == Reach \in Nat

VARIABLES path, slim, fast

vars == <<path, slim, fast>>

Bit == 0 .. Width - 1
Offset == [Dimension -> -Reach .. Reach]

max_level_fast == (Width - Nd) \div Nd
max_level_slim == (Width - Nd) \div Nd - 1

(* Does adding an offset to an integer of so many bits leave them? *)
overflows_on_add(value, by, no_bits) ==
  IF by >= 0 THEN 2^no_bits - 1 - value < by ELSE value < -by

-----------------------------------------------------------------------------
(* slim *)

level_slim(v) == (CHOOSE b \in Bit : 2^b <= v /\ v < 2^(b + 1)) \div Nd

(* Child position at level l. *)
at_slim(v, l) == (v \div 2^((level_slim(v) - l) * Nd)) % no_children(Nd)

push_slim(v, p) == v * 2^Nd + p
pop_slim(v) == v \div 2^Nd

(* Bit k of dimension d is bit k * Nd + d of the code, for as many as fit. *)
morton_encode(xs) ==
  MapThenSumSet(LAMBDA b : bit(xs[(b % Nd) + 1], b \div Nd) * 2^b, Bit)

(* Decoding in two dimensions, the mask of the first one has a digit less than *)
(* in encode, 0x555555555555555: it ends before bit 60.                        *)
decode_mask(d) ==
  {b \in Bit : b % Nd = d - 1 /\ (Nd = 2 /\ d = 1 => b < 60)}
morton_decode(v) ==
  [d \in Dimension |->
     MapThenSumSet(LAMBDA b : bit(v, b) * 2^(b \div Nd), decode_mask(d))]

set_bit(x, b, value) == x + (value - bit(x, b)) * 2^b

encode(xs, l) == morton_encode([xs EXCEPT ![1] = set_bit(@, l, 1)])
decode(v, l) == [morton_decode(v) EXCEPT ![1] = set_bit(@, l, 0)]

reverse_slim(v) ==
  LET l == level_slim(v)
      r[k \in 0 .. l] == IF k = 0 THEN 1 ELSE push_slim(r[k - 1], at_slim(v, l + 1 - k))
  IN  r[l]

shift_slim(v, by) ==
  LET l == level_slim(v)
      xs == decode(v, l)
  IN  IF \E d \in Dimension : overflows_on_add(xs[d], by[d], l) THEN {}
      ELSE {encode([d \in Dimension |-> xs[d] + by[d]], l)}

-----------------------------------------------------------------------------
(* fast *)

Junk == {[d \in Dimension |-> [b \in Bit |-> j]] : j \in 0 .. 1}

at_fast(f, l) ==
  MapThenSumSet(LAMBDA d : f.x[d][l] * 2^(d - 1), Dimension)

push_fast(f, p) ==
  [level |-> f.level + 1,
   x |-> [d \in Dimension |-> [f.x[d] EXCEPT ![f.level + 1] = bit(p, d - 1)]]]
pop_fast(f) == [f EXCEPT !.level = @ - 1]

reverse_fast(f) ==
  [f EXCEPT !.x = [d \in Dimension |->
     [b \in Bit |-> IF b \in 1 .. f.level THEN @[d][f.level + 1 - b] ELSE @[d][b]]]]

to_int(f, d) ==
  MapThenSumSet(LAMBDA l : f.x[d][l] * 2^(f.level - l), 1 .. f.level)

(* The path as one integer, like slim. *)
id(f) ==
  encode([d \in Dimension |-> to_int(f, d)], f.level)

(* A bug: the bits [0, l) alone. *)
ToIntOneBitShort(value, l) == [b \in Bit |-> IF b < l THEN bit(value, l - 1 - b) ELSE 0]

(* The bits [0, l] of a coordinate, reversed. *)
to_int_r(value, l) == [b \in Bit |-> IF b <= l THEN bit(value, l - b) ELSE 0]

shift_fast(f, by) ==
  IF \E d \in Dimension : overflows_on_add(to_int(f, d), by[d], f.level) THEN {}
  ELSE {[f EXCEPT !.x =
           [d \in Dimension |-> to_int_r(to_int(f, d) + by[d], f.level)]]}

(* Made from a point, whose coordinates at the level are x. *)
from_point_fast(l, x, junk) ==
  [level |-> l,
   x |-> [d \in Dimension |->
            [b \in Bit |-> IF b \in 1 .. l THEN bit(x[d], l - b) ELSE junk[d][b]]]]

-----------------------------------------------------------------------------
Init ==
  /\ path = <<>>
  /\ slim = 1
  /\ fast \in [level : {0}, x : Junk]

push(p) ==
  /\ level_slim(slim) # max_level_slim /\ fast.level < max_level_fast
  /\ path' = Append(path, p)
  /\ slim' = push_slim(slim, p)
  /\ fast' = push_fast(fast, p)

pop ==
  /\ level_slim(slim) > 0
  /\ path' = SubSeq(path, 1, Len(path) - 1)
  /\ slim' = pop_slim(slim)
  /\ fast' = pop_fast(fast)

reverse ==
  /\ path' = [k \in DOMAIN path |-> path[Len(path) + 1 - k]]
  /\ slim' = reverse_slim(slim)
  /\ fast' = reverse_fast(fast)

shift(by) ==
  /\ path' \in shift_location(path, by)
  /\ slim' \in shift_slim(slim, by)
  /\ fast' \in shift_fast(fast, by)

from_point(l, x, junk) ==
  /\ path' = PathTo(l, x)
  /\ slim' = encode(x, l)
  /\ fast' = from_point_fast(l, x, junk)

Next ==
  \/ \E p \in child_pos : push(p)
  \/ pop
  \/ reverse
  \/ \E by \in Offset : shift(by)
  \/ \E l \in 0 .. max_level_slim - 1 : \E x \in [Dimension -> 0 .. 2^l - 1] :
       \E junk \in Junk : from_point(l, x, junk)

Spec == Init /\ [][Next]_vars

-----------------------------------------------------------------------------
PathOfSlim(v) == [l \in 1 .. level_slim(v) |-> at_slim(v, l)]
PathOfFast(f) == [l \in 1 .. f.level |-> at_fast(f, l)]

(* Both objects stand for the path after any sequence of operations, up to    *)
(* the deepest level, whatever bits earlier operations left behind, give the   *)
(* same integer code, which the comparisons use, and the coordinates of the    *)
(* path's cell, whose centre normalized_coordinates finds.                     *)
RepresentationsAgree ==
  LET l == Len(path)
      x == Coordinates(path)
      unit == 2^(l + 2)
  IN  /\ PathOfSlim(slim) = path /\ PathOfFast(fast) = path
      /\ id(fast) = slim
      /\ decode(slim, level_slim(slim)) = x
      /\ [d \in Dimension |-> to_int(fast, d)] = x
      /\ normalized_coordinates(path, unit) = [d \in Dimension |-> 4 * x[d] + 2]

(* An offset leads both to the cell at that distance, and out of bounds for    *)
(* both exactly when it is; the opposite neighbour leads back.                 *)
ShiftsAgree ==
  /\ \A by \in Offset :
       /\ {PathOfSlim(v) : v \in shift_slim(slim, by)} = shift_location(path, by)
       /\ {PathOfFast(f) : f \in shift_fast(fast, by)} = shift_location(path, by)
  /\ \A at \in Neighbor :
       LET there == shift_slim(slim, offset(at[1], at[2]))
           back == offset(at[1], opposite(at[1], at[2]))
       IN  there # {} => UNION {shift_slim(v, back) : v \in there} = {slim}

=============================================================================
