SPECIFICATION Spec
CONSTANTS
  Nd = 1
  MaxRefined = 6
  Targets = {"grid", "level_set"}
  Levels = {1, 2, 3}
INVARIANTS CellsTile RoundsBounded TargetTwoToOne
PROPERTIES RefinesTheMarked
