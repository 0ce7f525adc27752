------------------------------ MODULE MCParts ------------------------------
(***************************************************************************)
(* The parts of the library that keep no state of the others, side by      *)
(* side: in a behaviour one of them, the subject, runs.                    *)
(***************************************************************************)
EXTENDS Locations

CONSTANTS
  GridNode, NeighborCapacity, Raw,         \* of Neighbors
  ElementsOfMatrices, MatrixExtents,       \* of Matrices
  MaxRefined,                              \* of Balanced
  MaxGenerated, MaxLevel,                  \* of Generation
  IntegerWidth, ExponentBits, FractionBits \* of Arithmetic

ASSUME PartsAssumption ==
  /\ MaxRefined \in Nat /\ MaxGenerated \in Nat /\ MaxLevel \in Nat
  /\ MatrixExtents \subseteq Nat
  /\ NeighborCapacity \in Nat /\ Raw \notin GridNode

VARIABLES
  subject,                 \* which of the parts runs
  data, failed,            \* of Neighbors
  m, table,                \* of Matrices
  refined, calls, before,  \* of Balanced
  loop                     \* of Generation, with refined

locations == <<path, slim, fast>>
neighbors == <<data, failed>>
matrices == <<m, table>>
trees == <<refined, calls, before, loop>>

N == INSTANCE Neighbors WITH Node <- GridNode, Capacity <- NeighborCapacity

(* The kinds of matrices the tests and the library instantiate, with small   *)
(* dimensions.                                                                *)
Kind(order, r, c, mr, mc, is_bit) ==
  [order |-> order, no_rows |-> r, no_cols |-> c, max_rows |-> mr, max_cols |-> mc,
   bit |-> is_bit]
MatrixKinds(order) ==
  {Kind(order, -1, -1, -1, -1, FALSE), Kind(order, 2, 3, 2, 3, FALSE),
   Kind(order, -1, 3, -1, 3, FALSE), Kind(order, 2, -1, 2, -1, FALSE)}
Types ==
  MatrixKinds("row_major") \cup MatrixKinds("col_major")
  \cup {Kind("col_major", -1, 1, mr, 1, FALSE) : mr \in {-1, 4}}
  \cup {Kind("col_major", r, 1, r, 1, FALSE) : r \in {-1, 3}}
  \cup {Kind("col_major", r, 1, r, 1, TRUE) : r \in {-1, 3}}

M == INSTANCE Matrices WITH
       Type <- Types, Extent <- MatrixExtents, Element <- ElementsOfMatrices
B == INSTANCE Balanced
G == INSTANCE Generation WITH MaxRefined <- MaxGenerated
A == INSTANCE Arithmetic WITH Width <- IntegerWidth

NoLocations == path = <<>> /\ slim = 1 /\ fast = <<>>
NoMatrices == m = <<>> /\ table = <<>>

PartsInit ==
  /\ N!Init
  /\ B!Init
  /\ G!Init
  /\ \/ /\ subject \in {"neighbors", "octrees", "generation", "arithmetic"}
        /\ NoLocations /\ NoMatrices
     \/ subject = "locations" /\ Init /\ NoMatrices
     \/ subject = "matrices" /\ NoLocations /\ M!Init

PartsNext ==
  /\ UNCHANGED subject
  /\ \/ subject = "locations" /\ Next /\ UNCHANGED <<neighbors, matrices, trees>>
     \/ subject = "neighbors" /\ N!Next /\ UNCHANGED <<locations, matrices, trees>>
     \/ subject = "matrices" /\ M!Next /\ UNCHANGED <<locations, neighbors, trees>>
     \/ /\ subject = "octrees" /\ B!NextFlat /\ UNCHANGED loop
        /\ UNCHANGED <<locations, neighbors, matrices>>
     \/ /\ subject = "generation" /\ G!Next /\ UNCHANGED <<calls, before>>
        /\ UNCHANGED <<locations, neighbors, matrices>>
     \/ subject = "arithmetic" /\ UNCHANGED <<locations, neighbors, matrices, trees>>

PartsSpec == PartsInit /\ [][PartsNext]_<<subject, locations, neighbors, matrices, trees>>

-----------------------------------------------------------------------------
(* Locations: both representations stand for the path, and shift to the cell  *)
(* at an offset or out of bounds.                                             *)
LocationsAgree == subject = "locations" => RepresentationsAgree /\ ShiftsAgree

(* Neighbours: the lists stand for an undirected graph through every swap.    *)
NeighborsImplementLinks == N!ImplementsLinks

(* Matrices: every way to an element reaches the same one.                    *)
MatricesAgree == subject = "matrices" => M!TableAgrees

(* Octrees: between two operations the search across faces, edges and corners *)
(* finds the leaves that touch a leaf and no other node.                      *)
OctreeNeighborsExact == subject = "octrees" => B!NeighborsExact

(* Octrees: what the search finds fits the container of its result.           *)
OctreeNeighborsFit == subject = "octrees" => B!NeighborsFit

(* Generation: the leaves end at the target level, or the tree is full.       *)
GenerationEnds == subject = "generation" => G!GeneratesLevels

(* The mathematical functions are right where they are used, and the index of *)
(* a sibling group up to what single precision can tell.                      *)
FunctionsExact ==
  subject = "arithmetic" => A!ArithmeticExact /\ A!SiblingGroupExact

=============================================================================
