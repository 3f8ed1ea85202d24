SPECIFICATION BothSpec
CONSTANTS
  Ids <- MCIds
  Attempts = 3
  BaseDelay = 2
  PageSize = 2
INVARIANTS
  AllOrNothing
  ErrorIsEarned
  EveryAlertOnce
PROPERTIES
  ReadingEnds
