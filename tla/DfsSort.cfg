SPECIFICATION SortSpec
CONSTANTS
  NC = 2
  NodeCapacity = 8
INVARIANTS DataFollowsNode PlacedGroupsInOrder
PROPERTIES SortPostcondition SortTerminates SortImplementsAbstractTree
CHECK_DEADLOCK FALSE
