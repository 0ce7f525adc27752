SPECIFICATION RestoreSpec
CONSTANTS
  NC = 2
  NodeCapacity = 7
  NoGrids = 2
  LinkSets = {{0}, {1}}
  NodeCapacities = {3, 6, 9}
  GridCapacities = {1, 3}
INVARIANT RestoresWhatWasWritten
PROPERTY ImplementsDurableTree
