----------------------------- MODULE SolverGrid -----------------------------
(***************************************************************************)
(* Several solver grids over one tree: the multi grid that maps the nodes  *)
(* of the tree to the cells of each grid (grid/adaptor/multi.hpp), the     *)
(* solver grid that maps its cells to nodes (solver/state/grid.hpp), and   *)
(* the level-set solver that stores a value per cell                       *)
(* (solver/level_set/state.hpp).                                           *)
(*                                                                         *)
(* The tree is the abstract one, with the memory that the indices refer    *)
(* to: groups tells which node has its children in a sibling group.  Node  *)
(* 0 is the root, NC nodes follow per group.  Links are partial functions, *)
(* an invalid index is a point outside of their domain.                    *)
(*                                                                         *)
(* A grid refines, coarsens, pushes and pops while the others hold cells   *)
(* of the same nodes.  Sorting goes in two stages: the tree is sorted,     *)
(* which moves the nodes under all grids, then each solver sorts its own   *)
(* cells, in any order, and is out of step with the tree until it does.    *)
(***************************************************************************)
EXTENDS Relations, Functions, SequencesExt

CONSTANTS
  Grid,       \* the solver grids
  NoGroups,   \* sibling groups of the tree, next to the root's
  NoCells     \* capacity of each solver grid

ASSUME SizeAssumption == NoGroups \in Nat /\ NoCells \in [Grid -> Nat \ {0}]

VARIABLES
  groups,     \* groups[s]: path of the node whose children s holds; free if undefined
  grid,       \* the state of each solver grid, with its column of grids_
  unsynced,   \* grids still to be sorted after the tree
  sorting,    \* the sort in progress: <<grid, number of cells in place>>, or <<>>
  failed      \* "no", or the assertion that stopped the program

vars == <<groups, grid, unsynced, sorting, failed>>

Cell(g) == 0 .. NoCells[g] - 1
NC == no_children(Nd)

Stale == <<NC>>  \* a value of no node, whatever the memory held: no child is at NC

(* How many members of S come before n, and the member with k before it. *)
Rank(S, n) == Cardinality({m \in S : m < n})
Nth(S, k) == CHOOSE n \in S : Rank(S, n) = k

(* f, and g where f is undefined; the inverse of a link. *)
Joined(f, g) ==
  [x \in DOMAIN f \cup DOMAIN g |-> IF x \in DOMAIN f THEN f[x] ELSE g[x]]
Backwards(f) == [y \in Range(f) |-> CHOOSE x \in DOMAIN f : f[x] = y]

-----------------------------------------------------------------------------
(* The tree. *)

node(s, p) == 1 + NC * (s - 1) + p
UsedNodes == {0} \cup {node(s, p) : s \in DOMAIN groups, p \in child_pos}
group(n) == (n - 1) \div NC + 1
Path(n) == IF n = 0 THEN <<>> ELSE Append(groups[group(n)], (n - 1) % NC)

Refined == Range(groups)
is_leaf(n) == Path(n) \notin Refined
siblings(n) == {node(group(n), p) : p \in child_pos}
parent(n) == CHOOSE m \in UsedNodes : Path(m) = groups[group(n)]
ChildrenIn(gs, path) ==
  UNION {{node(s, p) : p \in child_pos} : s \in {s \in DOMAIN gs : gs[s] = path}}
children(n) == ChildrenIn(groups, Path(n))

Bal == INSTANCE Balanced WITH refined <- Refined, calls <- <<>>, before <- {},
                              MaxRefined <- NoGroups

(* The nodes that balanced_refine refines for a leaf: the smallest set of    *)
(* leaves that has the coarser neighbours of its members.                    *)
Needed(path) ==
  LET leaves == Bal!Tree!Leaves
      coarser == UNION {{m} \X {q \in Bal!Call(m).pending : Bal!is_leaf(q)} : m \in leaves}
      closed == {S \in SUBSET leaves :
                   path \in S /\ \A e \in coarser : e[1] \in S => e[2] \in S}
  IN  {m \in leaves : \A S \in closed : m \in S}

(* balanced_refine takes the lowest free groups, each neighbour before the *)
(* node that asks for it.                                                  *)
Refinements(path) ==
  LET needed == Needed(path)
      free == (1 .. NoGroups) \ DOMAIN groups
      lowest == {s \in free : Rank(free, s) < Cardinality(needed)}
  IN  {gs \in Bijection(lowest, needed) :
         \A s, t \in lowest : gs[t] \in Bal!Call(gs[s]).pending => t < s}

(* The tree without the children of a node, as coarsen leaves it. *)
Without(path) == Restrict(groups, {s \in DOMAIN groups : groups[s] # path})

-----------------------------------------------------------------------------
(* A solver grid: in_tree is its column of grids_, ids are tree_node_ids_. *)

Fresh(g) ==
  [in_tree |-> <<>>, ids |-> <<>>, free |-> Cell(g), size |-> 0,
   signed_distance |-> [c \in Cell(g) |-> Stale]]

in_use(g) == Cell(g) \ grid[g].free
tree_node(g, c) == grid[g].ids[c]
grid_nodes(g) == DOMAIN grid[g].in_tree
free_node(st) == Min(st.free)

(* The cells that grid::push takes for nodes: the first free one each time. *)
NewCells(st, nodes) == [n \in nodes |-> Nth(st.free, Rank(nodes, n))]

(* grid::push(n) for each of the nodes: it and its cell are linked. *)
Pushed(st, nodes) ==
  LET new == NewCells(st, nodes)
  IN  [st EXCEPT !.free = @ \ Range(new), !.size = @ + Cardinality(nodes),
                 !.ids = Joined(Backwards(new), @), !.in_tree = Joined(new, @)]

(* Bug: the tree keeps its links to the cells. *)
PoppedUnlinked(st, cs) ==
  [st EXCEPT !.free = @ \cup cs, !.size = @ - Cardinality(cs),
             !.ids = Restrict(@, DOMAIN @ \ cs),
             !.signed_distance = [c \in DOMAIN @ |-> IF c \in cs THEN Stale ELSE @[c]]]

(* grid::pop for each of the cells, with the links that multi::remove clears. *)
Popped(st, cs) ==
  [st EXCEPT !.free = @ \cup cs, !.size = @ - Cardinality(cs),
             !.ids = Restrict(@, DOMAIN @ \ cs),
             !.in_tree = Restrict(@, DOMAIN @ \ {st.ids[c] : c \in cs}),
             !.signed_distance = [c \in DOMAIN @ |-> IF c \in cs THEN Stale ELSE @[c]]]

(* A failed assertion ends the program, and its memory is gone. *)
Stop(assertion) ==
  /\ failed' = assertion
  /\ groups' = <<>>
  /\ grid' = [g \in Grid |-> Fresh(g)]
  /\ unsynced' = {}
  /\ sorting' = <<>>

(* Operations come between two calls of solver::sort(tree, grids ...). *)
Ready == failed = "no" /\ sorting = <<>> /\ unsynced = {}

-----------------------------------------------------------------------------
(* The client inserts a node that lies neither over nor under a cell of the *)
(* grid, and gives the cell its value.                                      *)
Related(a, b) == IsPrefix(a, b) \/ IsPrefix(b, a)

push(g, n) ==
  /\ Ready
  /\ \A m \in grid_nodes(g) : ~Related(Path(n), Path(m))
  /\ IF grid[g].free = {} THEN Stop("push: invalid grid node")
     ELSE /\ LET st == Pushed(grid[g], {n})
             IN  grid' = [grid EXCEPT ![g] =
                            [st EXCEPT !.signed_distance[st.in_tree[n]] = Path(n)]]
          /\ UNCHANGED <<groups, unsynced, sorting, failed>>

(* Bug: multi::remove looks at its own grid only. *)
RemovedForOwnGrid(grids, g, n) ==
  IF /\ n # 0 /\ is_leaf(n)
     /\ siblings(n) \cap DOMAIN grids[g].in_tree = {}
     /\ Bal!CanCoarsen(groups[group(n)])
  THEN Without(groups[group(n)]) ELSE groups

(* multi::remove: the tree once grid g has left node n.  The siblings are    *)
(* coarsened when no grid has a cell in any of them, if the balance allows.  *)
Removed(grids, g, n) ==
  IF /\ n # 0 /\ is_leaf(n)
     /\ \A h \in Grid : siblings(n) \cap DOMAIN grids[h].in_tree = {}
     /\ Bal!CanCoarsen(groups[group(n)])
  THEN Without(groups[group(n)]) ELSE groups

pop(g, c) ==
  /\ Ready
  /\ grid' = [grid EXCEPT ![g] = Popped(@, {c})]
  /\ groups' = Removed(grid', g, tree_node(g, c))
  /\ UNCHANGED <<unsynced, sorting, failed>>

(* level_set::refine(c): the node is refined in the tree unless it is, for  *)
(* another grid; its children get cells and the value of the parent, whose  *)
(* cell goes.                                                               *)
Interpolated(st, c, kids) ==
  [st EXCEPT !.signed_distance = [k \in DOMAIN @ |->
     IF \E m \in kids : st.in_tree[m] = k THEN @[c] ELSE @[k]]]

RefineInto(g, c, gs) ==
  LET kids == ChildrenIn(gs, Path(tree_node(g, c)))
  IN  IF Cardinality(grid[g].free) < NC THEN Stop("push: invalid grid node")
      ELSE /\ groups' = gs
           /\ grid' = [grid EXCEPT ![g] =
                         Popped(Interpolated(Pushed(@, kids), c, kids), {c})]
           /\ UNCHANGED <<unsynced, sorting, failed>>

refine(g, c) ==
  LET path == Path(tree_node(g, c))
  IN  /\ Ready
      /\ \/ ~is_leaf(tree_node(g, c)) /\ RefineInto(g, c, groups)
         \/ is_leaf(tree_node(g, c))
              /\ \E gs \in Refinements(path) : RefineInto(g, c, Joined(gs, groups))
         \/ is_leaf(tree_node(g, c)) /\ Refinements(path) = {}
              /\ Stop("refine: invalid child node")

(* The siblings of a cell that are in its grid. *)
SiblingsIn(g, n) == siblings(n) \cap grid_nodes(g)

(* grid::coarsen: the parent gets a cell, the children go one by one. *)
Coarsened(g, p, kids) ==
  LET pushed == Pushed(grid[g], {p})
  IN  Popped(pushed, {pushed.in_tree[m] : m \in kids})

(* level_set::coarsen(c): the values of the children end in cell c and not in *)
(* the parent's, which keeps what its memory held.  When the last child goes  *)
(* the tree may be coarsened, and the loop asks of the next sibling whether   *)
(* it is in the grid.                                                         *)
coarsen(g, c) ==
  LET n == tree_node(g, c)
      p == parent(n)
      kids == SiblingsIn(g, n)
      last == Max(kids)
      grids == [grid EXCEPT ![g] = Coarsened(g, p, kids)]
  IN  /\ Ready /\ n # 0
      /\ \A m \in grid_nodes(g) \ kids : ~Related(Path(m), Path(p))
      /\ IF grid[g].free = {} THEN Stop("push: invalid grid node")
         ELSE IF Removed(grids, g, last) # groups /\ last # Max(siblings(n))
              THEN Stop("coarsen: node is not in use")
         ELSE /\ grid' = grids
              /\ groups' = Removed(grids, g, last)
              /\ UNCHANGED <<unsynced, sorting, failed>>

(* set_node_values: the value of every cell from the coordinates of its node. *)
set_node_values(g) ==
  /\ Ready
  /\ grid' = [grid EXCEPT ![g].signed_distance = [c \in Cell(g) |->
                IF c \in in_use(g) THEN Path(tree_node(g, c)) ELSE @[c]]]
  /\ UNCHANGED <<groups, unsynced, sorting, failed>>

(* reset: every cell goes, the nodes they had stay in the tree. *)
reset(g) ==
  /\ Ready
  /\ grid' = [grid EXCEPT ![g] = Fresh(g)]
  /\ UNCHANGED <<groups, unsynced, sorting, failed>>

-----------------------------------------------------------------------------
(* Sorting.  multi::sort moves the groups into depth-first order, and the   *)
(* rows of grids_ along; the cells keep their indices of before.            *)
Before(a, b) ==
  /\ a # b
  /\ \/ IsPrefix(a, b)
     \/ \E k \in DOMAIN a \cap DOMAIN b :
          SubSeq(a, 1, k - 1) = SubSeq(b, 1, k - 1) /\ a[k] < b[k]

(* Bug: the rows stay. *)
RowsStay(st, gs) == st

(* The node of n once the groups are gs, and the column of a grid then. *)
MovedTo(gs, n) ==
  IF n = 0 THEN 0
  ELSE node(CHOOSE s \in DOMAIN gs : gs[s] = groups[group(n)], (n - 1) % NC)

RowsMoved(st, gs) ==
  [st EXCEPT !.in_tree =
     [k \in {MovedTo(gs, n) : n \in DOMAIN @} |->
        st.in_tree[CHOOSE n \in DOMAIN st.in_tree : MovedTo(gs, n) = k]]]

TreeSort ==
  /\ Ready
  /\ \E gs \in Bijection(1 .. Cardinality(Refined), Refined) :
       /\ \A s, t \in DOMAIN gs : s < t => Before(gs[s], gs[t])
       /\ groups' = gs
       /\ grid' = [g \in Grid |-> RowsMoved(grid[g], gs)]
  /\ unsynced' = Grid
  /\ UNCHANGED <<sorting, failed>>

(* The groups below the nodes of a group, that of the root being 0. *)
child_groups(s) ==
  {t \in DOMAIN groups :
     IF s = 0 THEN groups[t] = <<>>
     ELSE groups[t] # <<>> /\ Front(groups[t]) = groups[s]}

(* The query dfs_sort.is looks at the first node with children of a group    *)
(* only, and goes on below it.                                               *)
is_sorted ==
  \A s \in 0 .. NoGroups :
    (\A t \in 0 .. s : child_groups(t) # {}) =>
      /\ s + 1 \in child_groups(s)
      /\ \A o \in child_groups(s) \ {s + 1} : Last(groups[s + 1]) < Last(groups[o])

(* level_set::sort with update_from_tree: the links to the tree anew. *)
StartSort(g) ==
  /\ failed = "no" /\ sorting = <<>>
  /\ IF ~is_sorted THEN Stop("sort: tree is not sorted!")
     ELSE /\ grid' = [grid EXCEPT ![g].ids =
                        Joined(Backwards(grid[g].in_tree), @)]
          /\ sorting' = <<g, 0>>
          /\ UNCHANGED <<groups, unsynced, failed>>

(* The place that c trades with when i and j are exchanged, and a function   *)
(* whose arguments are exchanged.                                            *)
Other(i, j, c) == IF c = i THEN j ELSE IF c = j THEN i ELSE c
Exchanged(f, i, j) ==
  [c \in {Other(i, j, k) : k \in DOMAIN f} |-> f[Other(i, j, c)]]

(* Bug: a free cell leaves the link of the other to its old place. *)
SwappedUsedOnly(st, i, j) ==
  [st EXCEPT
     !.free = {Other(i, j, c) : c \in @},
     !.ids = Exchanged(@, i, j),
     !.signed_distance = Exchanged(@, i, j),
     !.in_tree = [n \in DOMAIN @ |->
        IF i \notin DOMAIN st.ids \/ j \notin DOMAIN st.ids THEN @[n]
        ELSE CASE n = st.ids[i] -> @[st.ids[j]]
               [] n = st.ids[j] -> @[st.ids[i]]
               [] OTHER -> @[n]]]

(* Bug: the data stay. *)
SwappedWithoutData(st, i, j) ==
  [st EXCEPT
     !.free = {Other(i, j, c) : c \in @},
     !.ids = Exchanged(@, i, j),
     !.in_tree = [n \in DOMAIN @ |->
        Other(i, j, @[n])]]

(* grid::swap with the solver's data: the links of a cell that is free are   *)
(* left alone, those of two cells in use are exchanged in the tree.          *)
Swapped(st, i, j) ==
  [st EXCEPT
     !.free = {Other(i, j, c) : c \in @},
     !.ids = Exchanged(@, i, j),
     !.signed_distance = Exchanged(@, i, j),
     !.in_tree = [n \in DOMAIN @ |->
        CASE {i, j} \subseteq DOMAIN st.ids /\ n = st.ids[i] -> @[st.ids[j]]
          [] {i, j} \subseteq DOMAIN st.ids /\ n = st.ids[j] -> @[st.ids[i]]
          [] j \notin DOMAIN st.ids /\ i \in DOMAIN st.ids /\ n = st.ids[i] -> j
          [] i \notin DOMAIN st.ids /\ j \in DOMAIN st.ids /\ n = st.ids[j] -> i
          [] OTHER -> @[n]]]

(* The next node of the grid in the tree gets the next cell. *)
SortCell ==
  /\ failed = "no" /\ sorting # <<>>
  /\ LET g == sorting[1]
         i == sorting[2]
         c == grid[g].in_tree[Nth(grid_nodes(g), i)]
     IN  /\ i < Cardinality(grid_nodes(g))
         /\ IF \E k \in {i, c} : k \in grid[g].free <=> k \in DOMAIN grid[g].ids
            THEN Stop("swap: a cell is linked and free, or neither")
            ELSE /\ grid' = [grid EXCEPT ![g] = Swapped(@, i, c)]
                 /\ sorting' = <<g, i + 1>>
                 /\ UNCHANGED <<groups, unsynced, failed>>

Linked(g, c) == grid[g].in_tree[tree_node(g, c)] = c
IsCompact(g) == grid[g].free = {} \/ free_node(grid[g]) = grid[g].size

(* update_tree, which asserts the links it sets, and the end of sort. *)
FinishSort ==
  /\ failed = "no" /\ sorting # <<>>
  /\ sorting[2] = Cardinality(grid_nodes(sorting[1]))
  /\ LET g == sorting[1]
     IN  IF \E c \in in_use(g) : ~Linked(g, c) THEN Stop("tree_node: links disagree")
         ELSE IF ~IsCompact(g) THEN Stop("sort: not compact")
         ELSE /\ sorting' = <<>>
              /\ unsynced' = unsynced \ {g}
              /\ UNCHANGED <<groups, grid, failed>>

(* A solver grid is read from the file that was written, after the tree with *)
(* its links: the constructor resets the grid, which clears the links of the *)
(* tree to it, and the ids are read.                                         *)
from_file(g) ==
  /\ Ready
  /\ IsCompact(g)
  /\ grid' = [grid EXCEPT ![g].in_tree = <<>>]
  /\ UNCHANGED <<groups, unsynced, sorting, failed>>

-----------------------------------------------------------------------------
(* multi::neighbors(n, g): node_neighbors with "in grid g" as its predicate. *)

cells(g) == {Path(n) : n \in grid_nodes(g)}

neighbors(g, path) ==
  Bal!node_neighbors_in(cells(g), path)

-----------------------------------------------------------------------------
(* The tree with its root, empty solver grids. *)
Init ==
  /\ groups = <<>>
  /\ grid = [g \in Grid |-> Fresh(g)]
  /\ unsynced = {}
  /\ sorting = <<>>
  /\ failed = "no"

Next ==
  \/ \E g \in Grid : \E n \in UsedNodes : push(g, n)
  \/ \E g \in Grid : \E c \in in_use(g) : pop(g, c)
  \/ \E g \in Grid : \E c \in in_use(g) : refine(g, c)
  \/ \E g \in Grid : \E c \in in_use(g) : coarsen(g, c)
  \/ \E g \in Grid : set_node_values(g)
  \/ \E g \in Grid : reset(g)
  \/ TreeSort
  \/ \E g \in unsynced : StartSort(g)
  \/ SortCell
  \/ FinishSort

Spec == Init /\ [][Next]_vars

SpecRestart == Init /\ [][Next \/ \E g \in Grid : from_file(g)]_vars

-----------------------------------------------------------------------------
(* Properties. *)

(* A node of the tree lives while any grid has a cell in it, and no cell is  *)
(* lost: remove coarsens for all grids what one of them has left.            *)
NodesAlive ==
  \A g \in Grid :
    /\ grid_nodes(g) \subseteq UsedNodes
    /\ Cardinality(grid_nodes(g)) = grid[g].size
    /\ Range(grid[g].in_tree) = in_use(g)

(* But for the grids that wait for their sort, the links from the cells to    *)
(* the tree and from the tree to the cells are inverse to each other.         *)
LinksInverse ==
  \A g \in Grid \ unsynced :
    sorting = <<>> \/ sorting[1] # g =>
      /\ DOMAIN grid[g].ids = in_use(g)
      /\ grid_nodes(g) = {tree_node(g, c) : c \in in_use(g)}
      /\ \A c \in in_use(g) : Linked(g, c)

(* What a grid holds, as its client sees it: values at positions. *)
Content(g) ==
  {<<Path(n), grid[g].signed_distance[grid[g].in_tree[n]]>> :
     n \in grid_nodes(g) \cap UsedNodes}

(* An operation changes what one grid holds, whatever it does to the tree    *)
(* and to its memory, and no step of a sort changes what any grid holds.     *)
OthersUndisturbed ==
  [][failed' = "no" =>
       LET changed == {g \in Grid : Content(g)' # Content(g)}
       IN  /\ Cardinality(changed) <= 1
           /\ sorting # <<>> \/ unsynced' \ unsynced # {} => changed = {}]_vars

(* A value belongs to the node of its cell, or to a node over it that it was *)
(* interpolated from, also while a sort moves both.                          *)
DataFollows ==
  \A g \in Grid : \A n \in grid_nodes(g) :
    LET value == grid[g].signed_distance[grid[g].in_tree[n]]
    IN  value = Stale \/ IsPrefix(value, Path(n))

(* A sort puts the cells into the order of their nodes, whatever the order   *)
(* and the holes before, and none of its assertions fails.                   *)
SortPlaces ==
  /\ failed \notin {"sort: tree is not sorted!",
                    "swap: a cell is linked and free, or neither",
                    "tree_node: links disagree", "sort: not compact"}
  /\ sorting # <<>> =>
       \A k \in 0 .. sorting[2] - 1 :
         LET n == Nth(grid_nodes(sorting[1]), k)
         IN  grid[sorting[1]].in_tree[n] = k /\ grid[sorting[1]].ids[k] = n

(* Between two sorts, the neighbours of a cell in a grid touch it, and those *)
(* are all found that are leaves of the tree as it is, or that are coarser and *)
(* have been refined once for another grid.                                   *)
GridNeighbors ==
  LET refined_once(b) == b \in Refined /\ Bal!children(b) \cap Refined = {}
      meets(a, b) == \/ b \notin Refined
                     \/ refined_once(b) /\ node_level(b) = node_level(a) - 1
  IN  Ready => \A g \in Grid : \A a \in cells(g) :
        LET found == neighbors(g, a)
        IN  /\ \A b \in found : b # a /\ Bal!Touch(a, b)
            /\ a \notin Refined =>
                 \A b \in cells(g) \ {a} :
                   meets(a, b) /\ Bal!Touch(a, b) => b \in found

(* A solver grid read from its file is linked with the tree that was read     *)
(* before: grid.hpp:446, "the solver nodes are already in the tree".          *)
RestoredLinks == Ready => \A g \in Grid : grid_nodes(g) = Range(grid[g].ids)

=============================================================================
