# A verification project for hm3

hm3 (`src/include/hm3`) is a header-only C++ library for adaptive hierarchical
Cartesian grids: an Nd-tree in two arrays, grids and solver grids laid over its
nodes, adaptive mesh refinement, and a session that stores it all in files.
This directory holds TLA+ models of its logic, TLC runs that check them on small
instances, and theorems proved by TLAPS for every instance.

The C++ code is the reference. Every definition of a model names the lines it
stands for in `PROJECT.json` ("map"); the names in the modules are the names in
the code where TLA+ allows it.

## The system

| component | state | operations | interacts with |
|---|---|---|---|
| tree storage (`tree/tree.hpp`) | `parents_`, `first_children_`, `size_`, `first_free_sibling_group_` | constructor, `refine`, `coarsen`, `swap`, `is_compact`, ranges | everything above it |
| depth-first sort (`tree/algorithm/dfs_sort.hpp`) | the call stack of `sort_impl` | `dfs_sort`, `dfs_sort.is` | swaps groups, and calls back to swap the client's data |
| balanced refine / coarsen | the call stack | `balanced_refine`, `balanced_coarsen` | node queries, then storage |
| node queries, relations, location codes | none | level, location, node at location, neighbours | read the storage |
| grid generation (`grid/generation`) | a loop over rounds | `uniform`, `generic` | balanced refine |
| multi grid (`grid/adaptor/multi.hpp`) | `grids_`: tree node x grid -> grid node | `refine`, `remove`, `sort`, node map | balanced refine / coarsen; several solver grids share it |
| solver grid (`solver/state/grid.hpp`) | `tree_node_ids_`, `is_free_`, `size_`, levels | `push`, `pop`, `refine`, `coarsen`, `swap`, `sort`, `update_*`, `reset`, `resize` | two-way links with the multi grid |
| level-set solver (`solver/level_set`) | `signed_distance` | refine / coarsen with interpolation, sort | solver grid |
| solver neighbours (`solver/state/neighbors.hpp`) | lists of neighbours | `push`, `pop`, `swap` | indices of the solver grid |
| AMR (`amr/state.hpp`) | `nodes_`: (index, action) | `compute_actions`, `enforce_2_to_1_ratio`, `apply` | a target: the multi grid or the level set |
| I/O session (`io/session.hpp`, `client`, `file`) | JSON index of file groups, files on disk | create, restart, remove, `push_group`, `write` | all that is stored; MPI |
| serialization (`*/serialization/*fio.hpp`) | the fields of a file | `to_file`, `from_file` | trees, grids, files |
| MPI layer (`utility/mpi`) | the communicator | `root_do` | session, file system |
| containers, matrices, mathematics (`utility`) | value types | | all |
| geometry, VTK, ParaView plugin | floating point, external libraries | | read only |

The library is single threaded: no locks, no asynchronous calls. Several actors
meet nevertheless. The solver grids share a tree, each with indices into the
other's memory that must survive refinement, coarsening and sorting; the sort
calls back into the client's data between two swaps; the AMR algorithm runs over
data that its own steps change; and the ranks of an MPI communicator share the
files of a session, which must survive a crash. Callers are trusted with
preconditions that only a debug build asserts, so that what goes wrong is mostly
a long sequence of legal calls. `PROJECT.json` lists these hazards at their lines.

What makes each component correct:

* storage: the two arrays describe one tree, nothing in use is unreachable,
  nothing free is reachable, the counters agree, moving memory does not show;
* sort: ends, sorts, compacts, moves the data with the nodes, from any state of
  the storage;
* balancing: neighbours differ by one level at most after every operation that
  succeeds, the neighbour search finds exactly the nodes that touch;
* solver grids: the links between cells and tree nodes are inverse to each other
  outside a sort, a tree node lives while a grid uses it, and no operation of
  one grid changes what another one holds;
* AMR: the enforcement ends, and what it lets through keeps the 2:1 ratio and
  needs no further refinement;
* session: what the session file lists can be read after a crash, what has been
  saved stays, and every rank sees the same;
* serialization: a reader gets what was written, whatever capacities it asks for.

## Modules

| module | models | extends / instantiates |
|---|---|---|
| `Tree` | `tree/tree.hpp` | |
| `AbstractTree` | what the tree promises: a set of refined positions | |
| `TreeRefinement` | the mapping from storage to positions | `Tree`, `AbstractTree` |
| `TreeProofs` | theorems about `Tree` and `DfsSort`; the storage implements the abstract tree | `DfsSort`, `TLAPS` |
| `DfsSort` | `tree/algorithm/dfs_sort.hpp` over the storage, with client data | `TreeRefinement` |
| `Relations` | `tree/relations`: neighbour tables, formulas, coordinates | |
| `Locations` | `tree/location/slim.hpp`, `fast.hpp`, Morton codes | `Relations` |
| `RelationsProofs` | theorems about `Relations` | `Relations`, `TLAPS` |
| `Balanced` | `balanced_refine`, `balanced_coarsen`, `node_neighbors` | `Relations`, `AbstractTree` |
| `BalancedProofs` | theorems about `Balanced` | `Balanced`, `RelationsProofs` |
| `SolverGrid` | multi grid, solver grids, level set, over a shared tree | `Relations`, `Balanced` |
| `Amr` | `amr/state.hpp`, the criterion and both targets | `Relations`, `Balanced` |
| `AmrProofs` | theorems about `Amr` | `Amr`, `RelationsProofs`, `BalancedProofs` |
| `SolverGridProofs` | theorems about `SolverGrid` | `SolverGrid`, `BalancedProofs`, `TLAPS` |
| `Session` | session, clients, collectives, disk | |
| `SessionProofs` | theorems about `Session` | `Session`, `TLAPS` |
| `Restore` | files: fields, checks, reading; trees and grids written and read | `TreeRefinement`, `DurableTree` |
| `RestoreProofs` | theorems about `Restore` | `Restore`, `TreeProofs` |
| `DurableTree` | what writing and restarting promise | `AbstractTree` |
| `StackVectors`, `Neighbors` | `stack::vector`, the neighbour lists of a solver grid | `Links` |
| `Links` | what those lists promise: an undirected graph | |
| `Matrices` | `utility/matrix` | |
| `Arithmetic` | `utility/math.hpp`, `tree::sibling_group` in single precision | |
| `Generation` | `grid/generation` | `Relations`, `AbstractTree` |
| `MCSolverGrid`, `MCSession` | values of constants for the runs | |
| `MCParts` | the parts without common state, side by side | the six above, `Locations`, `Balanced` |
| `PartsProofs` | theorems about `MCParts`: octrees, matrices, generation, neighbour lists, locations | `MCParts`, `RelationsProofs`, `BalancedProofs` |

### Tree

The four variables are the data members. `refine(p)`, `coarsen(p)`, `swap(a, b)`
and `is_compact` are the member functions, each with every assignment it makes.
`refine` splits along its returns: no room, an assertion that fails, success. The
search for the next free group is `NextFree`, whose second alternative is the
failing search: the incremented index stays. `swap` follows the three steps of
the code, because step 2 reads the parents that step 1 has written.

A build with assertions is modelled, here and in the other modules: one that
fails sets `failed` to its text and stops. `coarsen` has the documented
precondition that the children are leaves, which the code does not assert; its
callers in the library meet it, and the model's do. Indices are unbounded
integers: the code computes `sibling_group` in single precision, which is exact
below 2^24 - `no_children` nodes, as `Arithmetic` shows for a short format.

`Spec` uses `swap` on groups in use, `SpecPublic` on any two groups but the
root's, as the public member function allows. `dfs_sort` is the one caller that
swaps with a free group, and it repairs the first free group at its end.

### AbstractTree and TreeRefinement

The abstract state is one set: the positions (paths of child positions from the
root) that have been refined. `Path` reads the position of a node off the parent
edges, as `node_location` does. That the storage implements the abstract tree
says that refine and coarsen act on the position of their node only, that
swap and the sort do not show, and that a refine of a full tree changes nothing.

### DfsSort

The recursion of `sort_impl` is a stack of frames (group, position at which the
loop goes on); `SortChildren` is one turn of the loop with the swap it may make,
`SortReturn` the end of a call, `FinishSort` the end of the operator with the
assertions of `set_first_free_sibling_group`. The lazy filter `with_children` is
evaluated when the loop advances, as in the code. The client keeps for each node
the path the node had when it was created, so that data that strays shows.

### Relations and Locations

`Relations` holds the tables of `relations/neighbor.hpp` as they stand in the
code (offset and children of each neighbour across each manifold), the formulas
for their sizes, and the coordinates of a path. Dimensions and neighbours are
numbered from 1. `Locations` puts the two location types side by side: `slim`, the
path as one Morton code led by a one, and `fast`, one integer per dimension.
Every operation is applied to both and to the path they stand for. Bits that no
operation has set are indeterminate (`Junk`), and stay behind after a pop.

### Balanced

The tree is `AbstractTree`, which the storage implements, and a node is its path.
`node_neighbors` is the search across all manifolds: shift the location, take the
smallest node there, and its children at the shared face if it has any;
`node_neighbors_in` is the search with a predicate. It returns nodes in the order
of their indices, which depends on the history of the memory, so that the model
visits them in any order.

`balanced_refine` recurses. `calls` is its stack: `balanced_refine` starts the
outermost call, `VisitNeighbor` is a turn of the loop that recurses, and
`RefineNode` the refine at the end with its return. The neighbours of a call are
found once, at its start, as in the code; whether one is still a leaf is looked
up when the loop comes to it. A refine that finds no room returns nothing and the
calls above go on. `balanced_coarsen` is one step. `NextFlat` leaves the
recursion out: it reaches the same trees without the states in between.

What touches is defined in the properties by the extents of two nodes, with none
of the tables that the search uses.

### SolverGrid

Two-way links: `in_tree` of a grid is its column of `grids_`, `ids` are the
`tree_node_ids_`, an invalid index being a point outside of the domain of either
function. The tree is the abstract one together with the memory the indices refer
to (`groups`: which node has its children in which sibling group), because a
solver grid holds indices, not positions. `push`, `pop`, `refine`, `coarsen`,
`set_node_values` and `reset` are the operations of the level set with all that
they do below: `refine` refines the tree with `balanced_refine` (the free groups
from below, coarser neighbours first, `Refinements`) unless another grid has
done so, pushes a cell per child, interpolates, and pops the parent's; `pop`
unlinks the cell and, through `multi::remove`, coarsens the tree when the node
was the last of its siblings in any grid and the balance allows.

The value of a cell is the position it was computed for, or `Stale`, what the
memory of a cell held before: this is enough to tell where a value belongs.

A sort has the stages of `solver::sort`: `TreeSort` moves nodes and rows, then
each grid goes through `StartSort` (`update_from_tree`), `SortCell` (one turn of
the loop, with the swap of cells and data) and `FinishSort` (`update_tree` and
the assertions). Between the stages all links of the grids in `unsynced` are
stale. Operations of the grids interleave in every order between two sorts.
`from_file` (in `SpecRestart` only) is reading a solver grid after its tree.

### Amr

An adapt goes through its phases: `compute_actions` chooses an action for every
node, any that the criterion (`level_at_distance`, with the distance of a node as
its rank among the distances of the criterion) allows at the node's level;
`enforce_2_to_1_ratio_step` is one round of three passes, the second and the third a
walk over the nodes in the order of their indices (sorted, or its reverse); `ApplyCoarsen` and
`ApplyRefine` take one node each. The target is the grid, whose nodes are the
leaves of the tree, or a level set that may be coarser than the tree below it. In a
tree without room for a node that is to be refined the program ends (`phase =
"failed"`): `multi::refine`, which both targets call, asks for the nodes of the group that
`balanced_refine` did not return, and the assertion of an empty index fails
(multi.hpp:81, tree.hpp:142); the fatal error of the solver grid for this case
(solver/state/grid.hpp:382) comes behind it. What was refined on the way is in the last
state.

### Session

The disk is the session file and the data files; every rank has a session of its
own in memory. A program creates a session, restarts from one or removes one,
registers groups and writes files in any order, the same on all ranks
(`script`: the rank that is ahead makes it up). `write` falls into the steps
between which a program may end or another rank may come: the data file is opened
(what it held is gone), its data written, the file pushed to its group and the
session file truncated, the session written over what is there. `exists`,
`remove` and the test in `read_whole` are collectives: the root appends to
`broadcasts`, the others take the next entry. `Crash` ends all ranks at any
moment, also as the end of a program; the disk stays.

### Restore and DurableTree

`to_file` maps the arrays of a tree, a grid or a multi grid, gives each its place
in the file and writes them one after another; the reader checks dimension,
capacities and fields (`status`) and constructs the object with its own capacity
(`Read`). `from_session` starts a program from the file. `DurableTree` is the
abstraction: a set of positions that can be saved and returned to.

### Neighbors, StackVectors, Links

`stack::vector` slot by slot, because the lists are edited in place. `swap`
is the sequence of the code: the lists of the neighbours of both nodes, then
those of the nodes themselves, then the exchange, through the assertions on the
way. `Links` is the graph: the number of times a node occurs in a list, slots past
its end included.

### Matrices, Arithmetic, Generation

A matrix is its storage with the three ways to an element, by row and column,
through an Eigen view, through a range; `table` is what it should hold. `Kind`
lists the combinations of fixed, dynamic and maximum dimensions in use. Integers
of `Arithmetic` wrap at `Width` bits, a floating-point number is its bits.
The kinds are those where the index of an element and of a view agree; for others (less
than the maximum number of rows or columns in use) they do not, and nothing here is
about those: neither the library nor its tests make one.
`Generation` is the loop of `generic` by rounds with the predicate of `uniform`, over a
tree or `hc::single`, whose refine returns nothing in a full tree, or over `hc::multi`,
whose refine then ends the program.

## Runs

| run | instance | shows |
|---|---|---|
| `tree_storage` | binary tree, 5 groups (9 nodes), any swap | the five parts of the storage invariant; only a swap with a free group loses track of a hole; the storage implements `AbstractTree` |
| `dfs_sort` | binary tree, 5 groups | the sort ends, sorts, compacts, carries the data, changes no edge |
| `balanced` | quad-tree, 5 refined nodes (21 nodes) | 2:1 ratio in every state, nothing refined or coarsened without need or refused without reason, calls return |
| `solver_grid` | binary tree, 3 groups and the root, two solver grids with room for 3 cells and for 1 | nodes live while used, links inverse, data follow, the sort places every cell, no grid disturbs another, and what the neighbour search of a grid finds |
| `amr` | binary tree, 6 refined nodes, both targets, 3 levels | the enforcement ends and leaves nothing for `balanced_refine` to do; the tree is balanced after every adapt, and so are the cells where the enforcement sees them; the cells tile the domain in every state |
| `session` | two groups, 2 files each, 3 launches; 1 or 2 ranks | what the session file lists and what was saved, at every moment the program may end; calls return |
| `restore` | binary tree, 4 groups, 2 grids; readers with three node and two grid capacities, and all three dimensions | what was written is read, or refused for the right reason; restarts implement `DurableTree` |
| `parts` | octrees, 13-bit integers, 4 solver nodes with 3 neighbours at most, all kinds of matrices up to 3 x 3, levels up to 3, all floating-point numbers of 7 bits | locations, neighbour search in balanced octrees, neighbour lists, matrices, generation, arithmetic |
| `tree_refine_assert` | binary tree, 5 groups | finding 1 |
| `solver_restart` | as `solver_grid`, reading included | finding 2 |
| `session_remove` | two ranks, `remove` included | finding 3 |
| `restore_unsorted` | binary tree, 5 groups, `hc::multi::write` | finding 4 |

The parts in `MCParts` have no common state. A behaviour runs one of them, the
`subject`, and the others stay in their initial state, so that the states of the
parts add up instead of multiplying; a property looks at its own part.

Bounds, and why they are enough:

* Storage and sort: five groups are the root's and four others: a tree three
  levels deep next to a second branch, two holes at once, a swap of a group with
  its own parent's group, its grandparent's, a free one and one of another branch,
  and a tree that is full. `NodeCapacity = 8` is not a whole number of groups, so
  that the constructor's rounding shows (9 nodes). The proofs cover every
  dimension and capacity.
* `balanced`: five refined nodes of a quad-tree are the root, a child, and the
  three children that must be refined before a grandchild at the far side can be;
  they fill the tree in the middle of most recursions, so that a failed refinement
  three calls deep is common. In three dimensions a whole recursion needs seven
  and its orders are too many: `parts` searches the neighbours in octrees with
  four refined nodes, without the recursion, which meet every pair of coarser,
  equal and finer neighbours across every manifold.
* `solver_grid`: three groups let a grid be two levels deeper than the other in
  the same place and still leave the refinement that balance asks for; with three
  cells a grid refines into a full grid, coarsens with and without a free cell for
  the parent, and sorts past holes; with one cell the other grid keeps nodes alive
  and is always full. One dimension keeps the interleavings in reach; links,
  memory and sort do not depend on the dimension, the neighbour tables are
  checked in `balanced` and `parts`.
* `amr`: six refined nodes and three target levels let the refinement of one node
  spread over two coarser levels, and fill the tree during an apply, after which the
  next node without room ends the program. In one
  dimension a node has two neighbours, so that chains are as long as they get.
* `session`: two files per group give a dependency that changes and one that is
  written twice in between; three launches give a crash, a restart, and a crash of
  the restarted program. Two ranks are what a race needs. `Directories = {"."}`:
  see "Not kept by the code" below.
* `restore`: capacities below, equal to and above what was written, and not a
  whole number of groups.
* `parts`: 13 bits give locations down to level 3, with one bit over, as 64 bits
  have; four solver nodes have room for two that are adjacent and share two
  neighbours; 12 bits hold the factorials up to 6, and binomial coefficients
  overflow beyond; 7-bit numbers have subnormals, infinities and NaNs.

Deadlock is not checked where the program stops for good: at a failed assertion
(storage, sort, solver grids), and after the last launch (session).

Fairness, all of it weak fairness of steps of a call in progress, which is
synchronous and runs to its end on its caller's thread: the three actions of a
sort (`DfsSort`), the steps of `balanced_refine` (`Balanced`), and the steps by
which a rank goes on with a collective or a write that it has begun (`Session`).
Nothing is assumed about what a client calls, or when.

## Findings

1. `refine` that takes the last hole leaves `first_free_sibling_group_` one past
   it, on a group in use. A later `coarsen` of a group above does not lower it,
   and the next `refine` stops at `first free sg is not free` though the tree has
   room (tree.hpp:375). The same value makes `is_compact()` stop at its assertion
   (tree.hpp:305). `dfs_sort` repairs the value.
2. A solver grid that is read from its file clears the links that were read with
   the tree (grid.hpp:448), and its cells have no nodes in the tree.
3. `file_system::remove` calls a collective inside a computation of the root only
   (file_system.hpp:50): every later collective returns the result of the one
   before on the other ranks.
4. `hc::multi::write` accepts a tree with free groups, because `dfs_sort.is`
   returns from the first turn of its loop (dfs_sort.hpp:108), and a tree read
   back is cut off.

### Not kept by the code

Seen while modelling, not the subject of a run; the models take the code as it
is, or stay on the side of it where callers of the library stay.

* `operator()()` of the tree, "all nodes in use", ranges over the capacity
  (tree.hpp:230). `tree& operator=(tree)` calls itself through `ranges::swap`
  (534). A public `swap` with a free group other than the first may leave a free
  group below `first_free_sibling_group_` (488): `FirstFreeKept` allows this step
  and no other.
* `sibling_group` puts a node into another group from index
  2^24 - `no_children` + 1 on (tree.hpp:89): `SiblingGroupExact` ends there.
* The neighbours of a node in a grid leave out cells that touch it and were
  refined in the tree for another grid, but for coarser ones refined by one level
  (node_neighbors.hpp:65, multi.hpp:183): `GridNeighbors` states what is found.
* A level set can lose the 2:1 ratio in an adapt, contrary to `amr/state.hpp:190`,
  "Enforces 2:1 across all neighbor directions": the neighbours of a cell leave out a
  cell next to it that has children in the tree, finer by two levels after a
  refinement that should have marked it (node_neighbors.hpp:65). `TargetTwoToOne`
  states the ratio for the tree, and for cells where the coarser one has no children;
  without the last condition TLC finds the adapt that breaks it
  (`Targets = {"level_set"}`, `Levels = {4}`).
* `level_set::state::coarsen` restricts the children into the child it was called
  with and not into the parent (state.hpp:106): `DataFollows` allows the parent
  a value of nobody, `Stale`.
* The ranks of a session write the same files and read them at a restart without
  synchronisation (session.hpp:295, "TODO: this should be guarded by a mutex").
  A restart on several ranks is a race between ranks that read the session and
  those that truncate it already, and violates `RanksAgree`: `Spec` restarts and
  removes on one rank only, `SpecAll` on any number. A session is rewritten in
  place: a crash in the middle leaves a file that cannot be parsed, and with it
  the list of all files (`SavedKept` says so). Data files do not go to the
  directory of the session (client.hpp:98), so that a session in a directory other
  than the program's lists files that are not beside it: `Session.cfg` has the one
  directory.
* Failing writes are not noticed (session.hpp:289); callbacks to execute before
  a write are stored and never called (file.hpp:75, 381-402).
* `multi_fio.hpp:36` compares the capacity with itself; the reader stops at a
  later assertion. `multi.hpp:44` gives the table a row per node asked for, though
  the tree rounds up its capacity: the models take whole groups of nodes.
* `hc/single.hpp:70-74` leaves the origin of the bounding box out.
* `math::floor` is one too low for negative whole numbers, `ilog` one too high
  from twice a power on for bases above 2, binomial coefficients overflow with the
  factorial of their first argument: `IntegersExact` states where they are right.
* `stack::vector`: `emplace_back` asserts `size() <= capacity()` where it needs a
  free place, `erase` of a range in the middle is off by one, assigning a vector
  to itself empties it (`swap_lists` shows that the neighbour lists survive this).
* `matrix(Eigen::Matrix)` leaves dynamic bounds unset; view and range of a matrix
  with several columns agree with its elements only if the rows are the maximum
  number of rows (columns if row-major): `Kind` lists kinds where they are. The
  `for_each` over bits never advances (storage.hpp:283); nothing calls it.
* `uniform` does nothing on a grid that is refined already, though it is said to
  refine "until all the leaf nodes are at the target level" (`GeneratesLevels`
  states what it does).

## Proofs

`TreeProofs` proves, with no assumption other than `NC \in {2, 4, 8}` (one, two
or three dimensions) and a positive capacity:

* `StorageInvariant`: `SpecPublic => []Storage`, and from it `TypeCorrect`,
  `EdgesCorrect`, `FreeNodesCorrect`, `SizeCorrect`, `OrphansExcluded`;
* `FirstFreeCorrect`: `Spec => []NoFreeBelowFirst`;
* `FirstFreeStepwise`: `SpecPublic => FirstFreeKept`, the action property that
  `tree_storage` checks.

The inductive invariant `Storage` is the conjunction of the five properties. None
of them is inductive alone: which group `coarsen` frees follows from `EdgesAgree`;
that its nodes are leaves, hence that no edge is left dangling, from
`FreeNodesAreLeaves`; that `refine` has a parent in use from both; the size bound
in `TypeOK` from `SizeCountsNodes`. The hard step is `swap`, whose assignments
overlap when one group hangs from the other. `SwapRenames` shows that their
result is the renaming that exchanges the two groups and their nodes
(`OtherGroup`, `OtherNode`), in every case, and `SwapStorage` that each
conjunct is closed under the renaming. `NoOrphans`, "every set of groups other
than the root's has a member whose parent is outside", states the absence of
cycles without recursion or paths, so that it can be proved step by step.

Its second part proves `StorageRefines`: `SpecPublic => ImplementsAbstractTree`, under the
same assumption. `Path` is recursive, and its recursion runs over the
depth of a node, which nothing in the state bounds a priori. Its existence and
uniqueness come from `NoOrphans` read as an induction principle: a property of
nodes that holds of the root, and of a node whenever of its parent, holds of all
nodes in use, for the groups where it fails would be a set whose parents are all
inside (`OutermostNode`). `PathRecursion` shows that the recursion has a solution,
`PathsAgree` that it has only one, `PathInjective` that two nodes have two paths.
Then a step at a time: `refine` adds one path and keeps the others (`PathKept`),
`coarsen` takes one away, `swap` moves the paths with the nodes
(`SwapMovesPaths`) and shows as a stutter.

Its third part proves, of every behaviour of the client with its sort:

* `SortInvariant`: `SortSpec => [](SortStorage /\ DataInv)`;
* `DataFollows` and `PlacedInOrder`, the invariants that `dfs_sort` checks;
* `SortIsCorrect`: the postcondition (sorted, compact, same tree, assertions kept);
* `SortRefines`: the abstract tree does not see a sort.

The invariant of a sort in progress (`Sorting`) says that the calls on the stack
are for placed groups, each placed after the group of its caller; that everything
up to `should` is in use and hangs from a placed group, in depth-first order; that
of the nodes of placed groups exactly those that a call still has to visit
(`Pending`) have their children elsewhere; and that where an inner call works comes
before what its callers have to visit. The next group to place is then behind
`should` (`NextChild`), and the swap with what occupies its place, a free group or
one to come, keeps all of it (`TurnMoves`, `ChildrenSorting`); at the end nothing
is left behind (`AllPlaced`).

`SessionProofs` proves, for any set of ranks, files and groups:

* `SessionInvariant`: `Spec => []Inv`;
* `AgreeingRanks`, `ListedDependencies`: the invariants `RanksAgree` and
  `DependenciesListed`;
* `ListedFilesWhole`: `ListedWhole`, if the data files are in the directory of the
  session (`Directories = {"."}`, as in `Session.cfg`);
* `SavedFilesKept`: the action property `SavedKept`.

`Inv` relates the ranks through a history: there is one listing of files for each
prefix of the script, every rank is at one of them or between two, and what is
on the disk is the listing of one that a rank has reached. The lemmas about
`push` and `register` (`PushFile`, `RegisterFiles`, `ListedOnce`) say that the
listing only ever grows, that a file is listed once, and that what it depends on
was listed before; a write that overwrites a data file is then one of a file
that no listing on disk calls whole.

`SolverGridProofs` proves, for any number of grids and all capacities
(`SizeAssumption`, and `Nd \in 1 .. 3`):

* `SolverInvariant`: `Spec => []Inv`;
* `NodesAliveHolds`, `LinksInverseHolds`, `DataFollowsHolds`, `SortPlacesHolds`,
  `GridNeighborsHolds`: the invariants of `solver_grid`;
* `OthersUndisturbedHolds`: the action property;
* `TreeEven`: the tree that the solvers share is balanced in every state.

`Inv` has three layers. The groups describe a tree (`IsTree`: different nodes have
their children in different groups, and what lies over a node with children has
children): `RefinedTree` and `RemovedTree` show that `balanced_refine` and `remove`
leave one in which every node that a grid needs keeps index and path, from the
least that can be said of the balance: `Needed` holds leaves, among them the one
asked for, and `CanCoarsen` that the children of a node are leaves. The memory of
one grid (`Memory`, `LinkedBack`) is consistent whatever the tree is: there is one
lemma for each of `push`, `pop`, new values, `update_from_tree`, `swap` and the
moved rows. Third, where a grid lies in the tree (`Apart`, `Values`): no node of a
grid lies over another, which is what keeps the cells that `refine` and `coarsen`
add from being there already. `SwappedLinks` shows that the three cases of
`swap` are one renaming; `OrderedIsSorted` that `dfs_sort.is`, which looks at one
node per group, accepts the order that a sort leaves, so that the assertion of
`sort` cannot fail. `Stops` in `Inv` says which assertions can: of the four of a
sort none, and those three that a client meets when a grid or the tree is full
and when `coarsen` goes on after the tree was coarsened.

`GridNeighbors` is about geometry and rests on the balance: what `Needed` holds has its
coarser neighbours with it, because the search of a balanced tree is exact, and
`CanCoarsen` refuses what would spoil the balance (`EvenRefined`, `EvenRemoved`). In
a balanced tree the search finds a cell that is a leaf, or a level coarser with leaves
for children that are no cells of the grid (`SoundIn`, `CompleteIn` of `BalancedProofs`); the
children of a cell are no cells of its grid, because no cell lies over another.

`RelationsProofs` proves what coordinates, shifts and tables do at every level, for one
to three dimensions (`NdAssumption`):

* `PathToCoordinates`, `CoordinateInjective`, `PathExists`: a path and the coordinates
  of its node determine each other, and every cell of a level is a node;
* `ShiftFinds`, `ShiftSound`: `shift_location` finds the node at an offset, no other,
  and none outside of the root;
* `Tables`: the tables of `neighbor.hpp`, which are written by hand, list every offset
  to a cell next to a node, and with it the children on that side;
* `RoomForNeighbors`: what the sum of binomials of `max_no_neighbors` amounts to in each
  number of dimensions.

What the codes of locations and the capacities rest on is here too: a number is determined by
its bits (`BitsDetermine`), shifting and adding move and set single bits (`BitsShifted`,
`BitAdded`), and a sum of different powers of two has the bits it is made of (`BinarySum`).

`Coordinate` is recursive over the path. What it computes is proved from the existence of
the walk down the path (`TraceExists`) and from its uniqueness (`TraceUnique`), both by
induction over the level in the form of a set of numbers that has no least counter-example
(`Induction`); a symbolic power of two is the number of subsets (`PowerOfTwo`).

`BalancedProofs` proves, with `MaxRefined` any number:

* `InvHolds`: `Spec => []Inv`;
* `TwoToOneHolds`, `CoarsensWhatItMayHolds`: the invariants of `balanced`;
* `RefinesWhatItMustHolds`: its action property;
* `NeighborsExactHolds`: `NeighborsExact`, which `MCParts` checks on an octree.

The geometry comes first: what touches a child touches its parent and what touches a
node touches one of its children (`TouchParent`, `TouchChild`), so that refining leaves
keeps the balance if every coarser leaf that touches one is among them (`RefineAllKeeps`,
`RefineKeeps` for a single leaf), and coarsening a node
if no leaf touches it from two levels below (`CoarsenKeeps`). Then the search: in a
balanced tree a leaf that touches a leaf is on its level, the one above or the one
below, and each is found through a row of the tables (`FindsSame`, `FindsCoarser`,
`FindsFiner`; `Complete`); a node that a row leads to touches, and it is a leaf, for
where a refined node touches a leaf below it does (`DeepLeaf`; `Sound`). `SoundIn` and
`CompleteIn` say what the search with a predicate finds, in any tree and in a balanced
one. The invariant
is about both tree and calls, because each needs the other: the tree is balanced, hence
every call has seen every coarser leaf that touches its node; the calls climb one level
at a time (`CallsAscend`), hence refining the innermost node takes no leaf from an
outer call and gives none a new one to wait for; every leaf a call needs is waited for
(`CallsWait`), unless the tree is full, hence the node that is refined is touched by no
coarser leaf and the balance stays. `CallsAsk`, that every node refined since the
outermost call touches a finer one that is refined or is going to be, makes the result
the smallest one. It fails in a full tree, where the guard of the property allows it.

`AmrProofs` proves, with any capacity of the tree, any finite set of target levels, both
targets and one to three dimensions (`AmrAssumption`, `NdAssumption`):

* `InvHolds`: `Spec => []Inv`;
* `CellsTileHolds`, `RoundsBoundedHolds`, `TargetTwoToOneHolds`: the invariants of `amr`;
* `RefinesTheMarkedHolds`: its action property.

The enforcement comes first. What it does to a node depends on marks at finer levels and
at its own: a refined node marks its coarser neighbours, and a group stays because of
neighbours at its level or the next. So the `k` finest levels, once they are as the
enforcement wants them (`Settled`), stay so, and each round settles one more
(`RoundSettles`, over `SecondPass` and `ThirdPass`, which say what a walk over the nodes
leaves in whatever order it visits them); a round that changes nothing has settled all
(`RoundEnds`). `RoundsBounded` follows. What settled marks mean for a grid needs the
neighbour search to be exact (`SearchFindsLeaves`, from `BalancedProofs`):
`GridSettled` shows that the tree with all marked groups coarsened (`Final`) is balanced,
and that each leaf to refine has its coarser neighbours marked (`Wanted`). The tree is not
balanced while a grid coarsens its groups one at a time; the invariant says that it will
be. `Wanted` stays true of what is still to refine (`WantedStays`), so that the smallest
set of leaves that `balanced_refine` asks for, or as much of it as there is room for
before the program ends, is within the marks (`NeededFacts`, `RefinementFacts`). The tree under
a level set does not follow the marks: `CanCoarsen` and `balanced_refine` keep its balance,
and cells inherit it where the coarser one is a leaf (`DeepLeaf`). The tiling is about
`CoarsenTiles`, a group exchanged with its parent, and `RefineTiles`, a node with its
children, while the tree over it changes in more places than that one.

`RestoreProofs` proves, from `GridsAssumption` and `ReadersAssumption` (any number of
grids, positive capacities) next to those of `Tree`:

* `RestoreInvariant`: `RestoreSpec => []RestoreInv`;
* `RestoreReads`: the invariant `RestoresWhatWasWritten`;
* `RestoreRefines`: `RestoreSpec => ImplementsDurableTree`.

`RestoreInv` says that the memory of the running program is a tree (`Storage`, by the
lemmas of `TreeProofs`) whose table has an element for each node and grid, unless an
assertion has failed, and that the file on disk holds (`Holds`) what was saved last. The
arrays of a file lie one after another (`FlattenPart`) and are found again under their
names (`FieldsRead`), which differ. `Whole` is a tree without free groups, as the writer
leaves it after its sort, `FileOf` the file of such a tree, `ValueOf` what it stands for;
`WriteHolds` is the writer. The reader's arrays are longer, its rows of the table have
another length: `EdgesOfObject` and `GridsOfFile` say that the edges and the grid nodes
are those of the file, `PathsOfWhole` and `PathInjectiveOfWhole` that the positions
follow, `ReadBack` puts them together for every capacity that fits. `StorageOfObject` is
what a program needs to go on with the object, and gives the restart
(`RestartStorage`), the one step of `DurableTree` that is not a step of the tree.

`PartsProofs` proves, from `PartsAssumption` (bounds that are natural numbers),
`WidthAssumption` (the integer has room for three levels and 64 bits at most) and
`Nd \in 1 .. 3`, of the parts that `MCParts` runs side by side:

* `OctreesBalanced`, `OctreeSearchExact`: the tree stays balanced and the search exact,
  by `BalancedProofs`, which is instantiated here;
* `OctreeSearchFits`: what the search finds never exceeds `max_no_neighbors`;
* `MatricesConsistent`: the invariant `MatricesAgree`;
* `GenerationLevels`: the invariant `GenerationEnds`, for both kinds of grids;
* `NeighborsAreLinks`: the lists of the neighbours implement `Links`, for any set of nodes
  and any capacity;
* `LocationsStandForPath`: the invariant `LocationsAgree`, for integers of up to 64 bits.
  The masks of the Morton codes are as wide, but for one: in two dimensions the first
  mask of `decode` has a digit less than that of `encode` (bit.hpp:263) and leaves out
  the bits from 60 on (`decode_mask`). `FittingMask` shows that the codes of all levels up to
  `max_level` have nothing there but the leading one, which `decode` removes anyway.

`OctreeSearchFits` needs no invariant: the most that a face, an edge or a corner has behind it
is read off the tables (`WidthsOne`, `WidthsTwo`, `WidthsThree`), added up over all of
them (`SumOfFound`), and compared with the sum of binomials that the code computes
(`RoomForNeighbors`). The matrices are about division: an index is a row and a
column in one way only (`RowsOfElements`, `Layout`), for every stride that is not below
the extent. The invariant of a generation knows which round the loop is in: the leaves lie on
the level of the round or the next one, those of the round are to be visited or have been
(`LevelByLevel`), until the tree is full (`FullTree`), from when on nothing changes: the loop
goes through its remaining rounds, or the program has ended.

Of the neighbour lists the invariant is `Sound`: what is in use of each list comes first and
once, the slots behind are raw, links go both ways and never to the node itself, and no
assertion has failed. The folds of the model are recursive in the library; `FoldSteps` turns them
into a chain of states, one per turn, and an invariant of the chain gives what `pop_all`
(`PoppedAll`) and `update_neighbors` (`UpdatedNeighbors`) do. The second edits lists while it goes
through one of them, which may be among those it edits: only a slot behind it can have
changed (`ReplacedBefore`), because no name comes twice. `RenamedLists` has the cases of
`swap`: a common neighbour gets both names in turn (`ReplacedTwice`), and where the two nodes
are neighbours the second pass takes the first one back in their own lists (`ReplacedBack`)
before `update_self_neighbors` renames them (`RenamedSelves`).

Of the locations the invariant is `LocationInv`: bit by bit, `slim` holds the positions of the
path with a one above them (`IsCode`), `fast` holds them up to its level and anything
above it (`IsFast`). Operations move bits (`CodeOfChild`, `CodeOfParent`, `FastOfReverse`);
a path has one code (`CodeUnique`), and the bits of a coordinate are the sides of the
ancestors (`BitsOfCoordinate`), so that coordinates and codes determine each other.
`Shifts` has the three ways to shift next to each other, and `Opposites` reads off the tables
that the offset to the opposite neighbour leads back.

Only model-checked:

* that the sort, the calls of `balanced_refine` and those of a session end: liveness, out of
  the prover's reach;
* `FunctionsExact`: it compares functions that are recursive in the code, and conversions of
  the floating-point format, with their definitions over inputs of a few bits; what they
  compute for every input is induction over data.

## Plan

Done: all modules above; of the properties that the runs check, those above are the
ones without a theorem. What is left are the queries that `PROJECT.json` lists as left out,
and the writer of the level set.

## Not modelled

Floating-point geometry (points, squares, signed distances, bounding boxes and
cell centres), VTK and ParaView output, `dot` output, logging, the text of the JSON
files, the wrappers of single MPI functions, and the value types of `utility`
(`optional`, `compact_optional`, `bounded`, `any`), whose behaviour is that of
their C++ type. Of the components that are partly modelled `PROJECT.json` says
what is left out: queries that nothing in the library uses, copies of solver
grids, the writer of the level set, search of files by name. CMake, the web site
and the vendored libraries are no part of the program's logic.
