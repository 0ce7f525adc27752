SPECIFICATION SpecRestart
CONSTANTS
  Nd = 1
  Grid = {1, 2}
  NoGroups = 3
  NoCells <- MCNoCells
INVARIANT RestoredLinks
CHECK_DEADLOCK FALSE
