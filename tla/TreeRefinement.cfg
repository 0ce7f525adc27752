SPECIFICATION SpecPublic
CONSTANTS
  NC = 2
  NodeCapacity = 8
INVARIANTS
  TypeOK
  EdgesAgree
  FreeNodesAreLeaves
  SizeCountsNodes
  NoOrphans
PROPERTIES
  ImplementsAbstractTree
  FirstFreeKept
CHECK_DEADLOCK FALSE
