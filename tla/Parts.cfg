SPECIFICATION PartsSpec
CONSTANTS
  Nd = 3
  Width = 13
  Reach = 1
  GridNode = {0, 1, 2, 3}
  NeighborCapacity = 3
  Raw = Raw
  ElementsOfMatrices = {0, 1}
  IntegerWidth = 12
  ExponentBits = 3
  FractionBits = 3
  MaxRefined = 4
  MaxGenerated = 10
  MaxLevel = 3
  MatrixExtents = {0, 1, 2, 3}
INVARIANTS
  LocationsAgree
  MatricesAgree
  FunctionsExact
  OctreeNeighborsExact
  OctreeNeighborsFit
  GenerationEnds
PROPERTIES
  NeighborsImplementLinks
