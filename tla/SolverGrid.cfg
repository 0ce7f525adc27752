SPECIFICATION Spec
CONSTANTS
  Nd = 1
  Grid = {1, 2}
  NoGroups = 3
  NoCells <- MCNoCells
INVARIANTS NodesAlive LinksInverse DataFollows SortPlaces GridNeighbors
PROPERTY OthersUndisturbed
CHECK_DEADLOCK FALSE
