SPECIFICATION FairSpec
CONSTANTS
  w1 = w1
  w2 = w2
  w3 = w3
  job = job
  code = code
  None = None
  Workers <- MCWorkers
  Strings <- MCStrings
  Wanted <- MCWanted
  Scale = 2
INVARIANTS
  OneCopy
  LineIsTrue
PROPERTIES
  WorkEnds
