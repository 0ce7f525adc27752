SPECIFICATION SpecAll
CONSTANTS
  Group = {"grid", "level_set"}
  Dependency <- MCDependency
  NoGroup = "none"
  NoRanks = {2}
  Directories = {"."}
  MaxFiles = 2
  MaxRuns = 3
INVARIANT ResultsAgree
CHECK_DEADLOCK FALSE
