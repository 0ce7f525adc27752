SPECIFICATION Spec
CONSTANTS
  Group = {"grid", "level_set"}
  Dependency <- MCDependency
  NoGroup = "none"
  NoRanks = {1, 2}
  Directories = {"."}
  MaxFiles = 2
  MaxRuns = 3
INVARIANTS ListedWhole DependenciesListed RanksAgree
PROPERTIES SavedKept CallsReturn
CHECK_DEADLOCK FALSE
