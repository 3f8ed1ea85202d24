SPECIFICATION FairSpec
CONSTANTS
  cpu = cpu
  mem = mem
  disk = disk
  Metrics <- MCMetrics
  SeriesOf <- MCSeriesOf
  Limit = 1
  CliMode = FALSE
  Workers = 2
  CallerMayCancel = TRUE
INVARIANTS
  RootCauseKept
  FailureIsOwn
  GapsAreCounted
  HalfIsKnown
  RejectionFailsRun
PROPERTIES
  Terminates
  ImplementsCatalog
