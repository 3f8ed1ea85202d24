SPECIFICATION CommandSpec
CONSTANTS
  Coverages <- MCCoverages
  Commands <- MCCommands
  Todays <- MCTodays
  MaxRuns = 2
  NoFile = NoFile
  NoWindow = NoWindow
INVARIANTS
  ListedIsWhole
  CostIsCovered
  ReasonsAgree
  WindowIsQueried
