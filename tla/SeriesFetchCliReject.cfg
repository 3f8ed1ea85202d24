SPECIFICATION Spec
CONSTANTS
  cpu = cpu
  mem = mem
  disk = disk
  Metrics <- MCPair
  SeriesOf <- MCPairSeries
  Limit = 1
  CliMode = TRUE
  Workers = 2
  CallerMayCancel = TRUE
INVARIANTS
  RejectionFailsRun
