------------------------------- MODULE Restore -------------------------------
(***************************************************************************)
(* Writing trees and grids to files and reading them back                  *)
(* (include/hm3/tree/serialization/fio.hpp, the fio headers of the grids,  *)
(* and the fields of include/hm3/io/file.hpp).                             *)
(*                                                                         *)
(* A file is a header and the arrays of the object, one after another in   *)
(* the order of their names; the header has the constants and, for each    *)
(* array, the place of its data.  The program may end at any time and be   *)
(* started from the file.  An element stands for the bytes it takes, all   *)
(* arrays have elements of the same size.  Sessions, the names of files    *)
(* and what happens in the middle of a write are in module Session.        *)
(***************************************************************************)
EXTENDS TreeRefinement, SequencesExt

CONSTANTS
  NoGrids,         \* grids the multi grid of a new program has room for
  LinkSets,        \* the sets of grids a group of nodes may be created for
  NodeCapacities,  \* capacities a reader may ask for
  GridCapacities

ASSUME GridsAssumption ==
  NoGrids \in Nat /\ LinkSets \subseteq SUBSET (0 .. NoGrids - 1)
ASSUME ReadersAssumption ==
  NodeCapacities \subseteq Nat \ {0} /\ GridCapacities \subseteq Nat \ {0}

VARIABLES
  grids_,  \* the table of grid nodes: a column of the nodes for each grid
  disk,    \* <<the file>>, or <<>>
  saved    \* <<what the tree and its grids were when it was written>> (history)

vars_ == <<vars, grids_, disk, saved>>

-----------------------------------------------------------------------------
(* An object in memory, and what it stands for: positions and, by position *)
(* and grid, the grid nodes.                                               *)

(* Column-major access to a matrix with a row for each of rows nodes. *)
matrix_idx(n, g, rows) == n + rows * g
columns(table, rows) == Cardinality(DOMAIN table) \div rows

Memory ==
  [parents |-> parents_, first_children |-> first_children_, size |-> size_,
   first_free |-> first_free_sibling_group_, capacity |-> capacity,
   grids |-> grids_]

UsedIn(m) ==
  {n \in DOMAIN m.first_children : n = 0 \/ m.parents[sibling_group(n)] # None}

PathsIn(m) ==
  LET path[n \in UsedIn(m)] ==
        IF n = 0 THEN <<>>
        ELSE Append(path[m.parents[sibling_group(n)]], position_in_parent(n))
  IN  path

Value(m) ==
  LET path == PathsIn(m)
  IN  [refined |-> {path[n] : n \in {n \in UsedIn(m) : m.first_children[n] # None}},
       cells |-> {<<path[n], g, m.grids[matrix_idx(n, g, m.capacity)]>> :
                    n \in UsedIn(m), g \in 0 .. columns(m.grids, m.capacity) - 1}]

-----------------------------------------------------------------------------
(* Writing.  map_arrays names the arrays and their extents; a file keeps its *)
(* fields in a map, by name.                                                 *)

no_grids == columns(grids_, capacity)

Elements(memory, n) == [i \in 1 .. n |-> memory[i - 1]]

Column(g, n) == [i \in 1 .. n |-> grids_[matrix_idx(i - 1, g, capacity)]]

map_arrays(type) ==
     << [name |-> <<"first_children">>, data |-> Elements(first_children_, size_)] >>
  \o [i \in 1 .. (IF type = "multi" THEN no_grids ELSE 0) |->
        [name |-> <<"grid", i - 1>>, data |-> Column(i - 1, size_)]]
  \o << [name |-> <<"parents">>,
         data |-> Elements(parents_, no_sibling_groups(size_))] >>

Data(arrays) == FlattenSeq([i \in DOMAIN arrays |-> arrays[i].data])

(* Bug of prepare_write: the place of a field begins at the number of fields *)
(* before it.                                                                *)
PrepareWriteUnits(arrays) ==
  [i \in DOMAIN arrays |->
     [name |-> arrays[i].name, size |-> Len(arrays[i].data),
      in_file |-> <<i - 1, i - 1 + Len(arrays[i].data)>>]]

prepare_write(arrays) ==
  [i \in DOMAIN arrays |->
     LET data_p == Len(Data(SubSeq(arrays, 1, i - 1)))
     IN  [name |-> arrays[i].name, size |-> Len(arrays[i].data),
          in_file |-> <<data_p, data_p + Len(arrays[i].data)>>]]

File(type) ==
  [type |-> type, spatial_dimension |-> NC, no_tree_nodes |-> size_,
   no_grids |-> IF type = "multi" THEN no_grids ELSE 0,
   fields |-> prepare_write(map_arrays(type)), data |-> Data(map_arrays(type))]

Written(type) ==
  /\ disk' = <<File(type)>>
  /\ saved' = <<Value(Memory)>>
  /\ UNCHANGED <<vars, grids_>>

Stopped(assertion) == Stop(assertion) /\ UNCHANGED <<grids_, disk, saved>>

(* grid::to_file: is_compact() has an assertion of its own, and a tree that *)
(* is not compact or not sorted is refused.                                 *)
to_file(type) ==
  /\ failed = "no"
  /\ \/ /\ ~(IsCompact <=> NoFreeGroups)
        /\ Stopped("is_compact: first free sibling group is wrong")
     \/ /\ IsCompact <=> NoFreeGroups
        /\ ~(IsCompact /\ IsSortedQuery)
        /\ Stopped("cannot write non-compact or non-sorted tree/grid")
     \/ /\ IsCompact <=> NoFreeGroups
        /\ IsCompact /\ IsSortedQuery
        /\ Written(type)

(* hc::multi::write, which asks is_sorted() only. *)
write ==
  /\ failed = "no"
  /\ \/ ~IsSortedQuery /\ Stopped("cannot write unsorted grid")
     \/ IsSortedQuery /\ Written("multi")

-----------------------------------------------------------------------------
(* Reading. *)

has_field(f, name) == \E i \in DOMAIN f.fields : f.fields[i].name = name
field(f, name) == CHOOSE x \in Range(f.fields) : x.name = name

validate_array_field_in_file(f, name, size) ==
  /\ has_field(f, name)
  /\ field(f, name).size = size
  /\ field(f, name).in_file[2] - field(f, name).in_file[1] = size

(* The i-th element of an array, as read_arrays copies it to memory. *)
read(f, name, i) == f.data[field(f, name).in_file[1] + 1 + i]

check_tree(f, nc, node_capacity) ==
  IF nc # f.spatial_dimension THEN "tree dimension mismatch"
  ELSE IF node_capacity # None /\ node_capacity < f.no_tree_nodes
  THEN "insuficient capacity" ELSE "read"

(* map_arrays of a multi grid goes through the grids of the file.  The test  *)
(* for room compares the capacity with itself, so that the assertion on the *)
(* column stops the program.                                                *)
check_grids(f, grid_capacity) ==
  IF grid_capacity # None /\ grid_capacity < f.no_grids
  THEN "col index out-of-range" ELSE "read"

check_fields(f) ==
  IF /\ validate_array_field_in_file(f, <<"parents">>, no_sibling_groups(f.no_tree_nodes))
     /\ validate_array_field_in_file(f, <<"first_children">>, f.no_tree_nodes)
     /\ \A g \in 0 .. f.no_grids - 1 :
           validate_array_field_in_file(f, <<"grid", g>>, f.no_tree_nodes)
  THEN "read" ELSE "array field is not valid"

status(f, nc, node_capacity, grid_capacity) ==
  IF check_tree(f, nc, node_capacity) # "read"
  THEN check_tree(f, nc, node_capacity)
  ELSE IF f.type = "multi" /\ check_grids(f, grid_capacity) # "read"
  THEN check_grids(f, grid_capacity)
  ELSE check_fields(f)

(* Bug of Read: the arrays are mapped and read_arrays is not called. *)
ReadMappedOnly(f, node_capacity, grid_capacity) ==
  LET groups == no_sibling_groups(IF node_capacity = None THEN f.no_tree_nodes
                                                          ELSE node_capacity)
      rows == no_nodes(groups)
      cols == IF f.type = "multi" /\ grid_capacity # None
              THEN grid_capacity ELSE f.no_grids
  IN  [parents |-> [s \in 0 .. groups - 1 |-> None],
       first_children |-> [n \in 0 .. rows - 1 |-> None],
       size |-> f.no_tree_nodes,
       first_free |-> sibling_group(f.no_tree_nodes),
       capacity |-> rows,
       grids |-> [k \in 0 .. rows * cols - 1 |-> None]]

(* The object with its arrays read.  A tree is constructed with the capacity *)
(* rounded up to whole groups; what is not read keeps its initial value.     *)
Read(f, node_capacity, grid_capacity) ==
  LET no_tree_nodes == f.no_tree_nodes
      groups == no_sibling_groups(IF node_capacity = None THEN no_tree_nodes
                                                          ELSE node_capacity)
      rows == no_nodes(groups)
      cols == IF f.type = "multi" /\ grid_capacity # None
              THEN grid_capacity ELSE f.no_grids
  IN  [parents |-> [s \in 0 .. groups - 1 |->
                      IF s < no_sibling_groups(no_tree_nodes)
                      THEN read(f, <<"parents">>, s) ELSE None],
       first_children |-> [n \in 0 .. rows - 1 |->
                             IF n < no_tree_nodes
                             THEN read(f, <<"first_children">>, n) ELSE None],
       size |-> no_tree_nodes,
       first_free |-> sibling_group(no_tree_nodes),
       capacity |-> rows,
       grids |-> [k \in 0 .. rows * cols - 1 |->
                    IF k % rows < no_tree_nodes /\ k \div rows < f.no_grids
                    THEN read(f, <<"grid", k \div rows>>, k % rows)
                    ELSE None]]

(* A program that starts with the file and the capacity it had. *)
from_session ==
  /\ disk # <<>>
  /\ status(disk[1], NC, capacity, None) = "read"
  /\ LET m == Read(disk[1], capacity, None)
     IN  /\ parents_' = m.parents
         /\ first_children_' = m.first_children
         /\ size_' = m.size
         /\ first_free_sibling_group_' = m.first_free
         /\ grids_' = m.grids
  /\ failed' = "no"
  /\ UNCHANGED <<disk, saved>>

(* A program that starts anew. *)
Started ==
  /\ parents_' = [s \in SiblingGroup |-> None]
  /\ first_children_' = [n \in Node |-> None]
  /\ size_' = 1
  /\ first_free_sibling_group_' = 1
  /\ failed' = "no"
  /\ grids_' = [k \in 0 .. capacity * NoGrids - 1 |-> None]

restart == from_session \/ (disk = <<>> /\ Started /\ UNCHANGED <<disk, saved>>)

-----------------------------------------------------------------------------
(* What the program does with the tree: a group of nodes is created for some *)
(* grids, a group of leaves goes with its grid nodes.                        *)

grow(p, gs) ==
  /\ refine(p)
  /\ grids_' = [k \in DOMAIN grids_ |->
                  IF \E c \in children(p)', g \in gs : k = matrix_idx(c, g, capacity)
                  THEN position_in_parent(k % capacity) ELSE grids_[k]]
  /\ UNCHANGED <<disk, saved>>

shrink(p) ==
  /\ coarsen(p)
  /\ grids_' = [k \in DOMAIN grids_ |->
                  IF k % capacity \in children(p) THEN None ELSE grids_[k]]
  /\ UNCHANGED <<disk, saved>>

RestoreInit ==
  /\ Init
  /\ grids_ = [k \in 0 .. capacity * NoGrids - 1 |-> None]
  /\ disk = <<>>
  /\ saved = <<>>

RestoreNext ==
  \/ \E p \in Node : \/ \E gs \in LinkSets : gs \subseteq 0 .. no_grids - 1 /\ grow(p, gs)
                     \/ shrink(p)
  \/ \E type \in {"tree", "single", "multi"} : to_file(type)
  \/ restart

RestoreSpec == RestoreInit /\ [][RestoreNext]_vars_

(* With the writer of hc::multi. *)
WriteSpec == RestoreInit /\ [][RestoreNext \/ write]_vars_

-----------------------------------------------------------------------------
(* Properties. *)

(* Every group in use hangs from a node in use that has it as its children, *)
(* and every child belongs to a group in use.                               *)
WellFormed(m) ==
  /\ \A s \in DOMAIN m.parents :
       m.parents[s] # None =>
         /\ m.parents[s] \in UsedIn(m)
         /\ m.first_children[m.parents[s]] = first_node(s)
  /\ \A n \in DOMAIN m.first_children :
       m.first_children[n] # None =>
         /\ m.first_children[n] \in DOMAIN m.first_children
         /\ m.parents[sibling_group(m.first_children[n])] = n

(* refine can go on: the first free group is the lowest one without a parent, *)
(* and there is one if there is room.                                         *)
ReadyToRefine(m) ==
  /\ \A s \in 1 .. m.first_free - 1 : m.parents[s] # None
  /\ m.size < m.capacity =>
       m.first_free \in DOMAIN m.parents /\ m.parents[m.first_free] = None

(* From the file on disk a reader gets the tree that was written, and with a *)
(* multi grid the grid nodes at every position, whatever the capacities it   *)
(* asks for, and a tree that can be refined; it is refused if, and only if,  *)
(* the dimension differs or there is no room for the nodes or the grids.     *)
RestoresWhatWasWritten ==
  \A i \in DOMAIN disk :
  \A nc \in {2, 4, 8}, n \in NodeCapacities \cup {None}, g \in GridCapacities \cup {None} :
    LET f == disk[i]
        m == Read(f, n, g)
        fits == /\ nc = NC
                /\ n = None \/ n >= 1 + NC * Cardinality(saved[i].refined)
                /\ f.type # "multi" \/ g = None
                     \/ \A cell \in saved[i].cells : cell[2] < g
    IN  /\ status(f, nc, n, g) = "read" <=> fits
        /\ fits =>
             /\ WellFormed(m)
             /\ ReadyToRefine(m)
             /\ Value(m).refined = saved[i].refined
             /\ f.type = "multi" =>
                  /\ saved[i].cells \subseteq Value(m).cells
                  /\ \A cell \in Value(m).cells \ saved[i].cells : cell[3] = None

Durable ==
  INSTANCE DurableTree
    WITH ChildPos <- 0 .. NC - 1,
         MaxRefined <- sg_capacity_ - 1,
         refined <- Value(Memory).refined,
         saved <- [i \in DOMAIN saved |-> saved[i].refined]

(* A program that ends and starts again goes on with the tree it saved last, *)
(* through any number of refinements, writes and starts.                     *)
ImplementsDurableTree == Durable!DurableSpec

=============================================================================
