SPECIFICATION Spec
CONSTANTS
  first = first
  second = second
  summary = summary
  yaml = yaml
  browser = browser
  Jobs <- MCJobs
  Files <- MCFiles
  Readers = {}
INVARIANTS
  NoOrphanedDir
CHECK_DEADLOCK FALSE
