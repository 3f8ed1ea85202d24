SPECIFICATION FairSpec
CONSTANTS
  first = first
  second = second
  summary = summary
  yaml = yaml
  browser = browser
  Jobs <- MCJobs
  Files <- MCFiles
  Readers <- MCReaders
INVARIANTS
  DoneListsFiles
  ServedIsWhole
  FailedLeavesNothing
  LinksWorkUntilTtl
PROPERTIES
  DirsAreReclaimed
CHECK_DEADLOCK FALSE
