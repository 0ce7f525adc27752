SPECIFICATION WriteSpec
CONSTANTS
  NC = 2
  NodeCapacity = 9
  NoGrids = 1
  LinkSets = {{0}}
  NodeCapacities = {9}
  GridCapacities = {1}
INVARIANT RestoresWhatWasWritten
