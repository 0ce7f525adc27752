------------------------------ MODULE Matrices ------------------------------
(***************************************************************************)
(* Dense matrices and vectors (utility/matrix): the dimensions given at    *)
(* compile time or at run time, the storage laid out by rows or by         *)
(* columns, and the three ways to its elements: by row and column, through *)
(* an Eigen view, and as a range.                                          *)
(*                                                                         *)
(* m is one matrix, table what it should hold.                             *)
(***************************************************************************)
EXTENDS Integers, FiniteSets

CONSTANTS
  Type,     \* template arguments:
            \* [order, no_rows, no_cols, max_rows, max_cols, bit]
  Extent,   \* rows and columns asked for at run time
  Element   \* what a matrix holds: zero, and one for bits, among others

VARIABLES m, table

vars == <<m, table>>

dynamic == -1

(* bounds and max_bounds: fixed, or those given to the constructor. *)
extent(static, given) == IF static = dynamic THEN given ELSE static

(* The assertions of the constructors. *)
Constructible(t, r, c) ==
  /\ t.no_rows \in {dynamic, r} /\ t.no_cols \in {dynamic, c}
  /\ r <= extent(t.max_rows, r) /\ c <= extent(t.max_cols, c)

max_no_rows == extent(m.type.max_rows, m.no_rows)
max_no_cols == extent(m.type.max_cols, m.no_cols)
max_size(t, r, c) == extent(t.max_rows, r) * extent(t.max_cols, c)

Row == 0 .. m.no_rows - 1
Col == 0 .. m.no_cols - 1

(* A bug: the stride of the other order. *)
SwappedStride(r, c) ==
  IF m.type.order = "row_major" THEN r * max_no_rows + c ELSE c * max_no_cols + r

matrix_idx(r, c) ==
  IF m.type.order = "row_major" THEN r * max_no_cols + c ELSE c * max_no_rows + r

(* The index that a view with the run-time dimensions, and Eigen's strides    *)
(* for them, uses.                                                             *)
view_idx(r, c) ==
  IF m.type.order = "row_major" THEN r * m.no_cols + c ELSE c * m.no_rows + r

(* The k-th element of the range: begin() is the begin of the storage. *)
range_idx(k) == k
size == m.no_rows * m.no_cols

(* Row and column of the k-th element in the order of the layout. *)
Place(k) ==
  IF m.type.order = "row_major" THEN <<k \div m.no_cols, k % m.no_cols>>
  ELSE <<k % m.no_rows, k \div m.no_rows>>

stack_storage(t) == t.max_rows # dynamic /\ t.max_cols # dynamic

(* Constructed with all elements alike: zero, or what the stack held. *)
Constructed(t, r, c, x) ==
  /\ Constructible(t, r, c)
  /\ t.bit \/ ~stack_storage(t) => x = 0
  /\ m = [type |-> t, no_rows |-> r, no_cols |-> c,
          data |-> [i \in 0 .. max_size(t, r, c) - 1 |-> x]]
  /\ table = [p \in (0 .. r - 1) \X (0 .. c - 1) |-> x]

Init == \E t \in Type, r, c \in Extent, x \in Element : Constructed(t, r, c, x)

(* operator()(row, col) *)
Write(r, c, x) ==
  /\ m' = [m EXCEPT !.data[matrix_idx(r, c)] = x]
  /\ table' = [table EXCEPT ![<<r, c>>] = x]

(* An element of the view, which matrices of bits do not have. *)
WriteView(r, c, x) ==
  /\ ~m.type.bit
  /\ m' = [m EXCEPT !.data[view_idx(r, c)] = x]
  /\ table' = [table EXCEPT ![<<r, c>>] = x]

(* An element of the range. *)
WriteRange(k, x) ==
  /\ m' = [m EXCEPT !.data[range_idx(k)] = x]
  /\ table' = [table EXCEPT ![Place(k)] = x]

(* element_wise_assign from the view of a matrix, this one here, after an     *)
(* element-wise expression that permutes the values.                          *)
Assign(change) ==
  /\ ~m.type.bit
  /\ m' = [m EXCEPT !.data = [i \in DOMAIN @ |->
              IF \E r \in Row, c \in Col : matrix_idx(r, c) = i
              THEN LET p == CHOOSE p \in Row \X Col : matrix_idx(p[1], p[2]) = i
                   IN  change[@[view_idx(p[1], p[2])]]
              ELSE @[i]]]
  /\ table' = [p \in DOMAIN table |-> change[table[p]]]

(* set() and reset() *)
SetAll(x) ==
  /\ m.type.bit
  /\ m' = [m EXCEPT !.data = [i \in DOMAIN @ |-> x]]
  /\ table' = [p \in DOMAIN table |-> x]

(* all(): every bit of the storage. *)
all == \A i \in DOMAIN m.data : m.data[i] = 1

Next ==
  \/ \E r \in Row, c \in Col, x \in Element : Write(r, c, x) \/ WriteView(r, c, x)
  \/ \E k \in 0 .. size - 1, x \in Element : WriteRange(k, x)
  \/ \E change \in [Element -> Element] : Assign(change)
  \/ \E x \in 0 .. 1 : SetAll(x)

Spec == Init /\ [][Next]_vars

-----------------------------------------------------------------------------
(* Whichever way an element was written, by row and column, through a view or   *)
(* in a range, every other way finds it there, and none leaves the storage: for *)
(* every combination of fixed and dynamic dimensions and both layouts.  Of bits *)
(* all() tells whether every element is set.                                    *)
TableAgrees ==
  /\ \A r \in Row, c \in Col :
       /\ {matrix_idx(r, c), view_idx(r, c)} \subseteq DOMAIN m.data
       /\ m.data[matrix_idx(r, c)] = table[<<r, c>>]
       /\ m.data[view_idx(r, c)] = table[<<r, c>>]
  /\ m.type.bit => (all <=> \A p \in DOMAIN table : table[p] = 1)
  /\ \A k \in 0 .. size - 1 : m.data[range_idx(k)] = table[Place(k)]

=============================================================================
