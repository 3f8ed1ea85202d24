SPECIFICATION PagesFairSpec
CONSTANTS
  mon = mon
  tue = tue
  Days <- MCDays
  PageSize = 2
  Word = 16
  MaxRows = 7
INVARIANTS
  EachRowOnce
PROPERTIES
  PagesEnd
